------------------------------ MODULE LocalBus ------------------------------
(***************************************************************************)
(* Delivery within a process: one topic of LocalBus                        *)
(* (core/src/local_bus.cpp), the Subscribers on it with their worker       *)
(* threads (core/include/core/subscriber.h) and queues                     *)
(* (common/include/common/blocking_queue.h), the threads that publish and  *)
(* the network threads that bring messages in.                             *)
(*                                                                         *)
(* The bus keeps weak pointers; a publish collects strong ones under the   *)
(* bus lock, and enqueues and lets go of them outside it, so that the last *)
(* owner of a Subscriber, whose thread runs its destructor, can be the     *)
(* thread of a publish.                                                    *)
(***************************************************************************)
EXTENDS Naturals, FiniteSets, Sequences, Functions

CONSTANTS
  Subs,         \* Subscribers of the topic
  TypeOf,       \* message type of each
  History,      \* Qos of each: "KEEP_LAST" or "KEEP_ALL"
  Depth,        \* Qos of each: depth
  Publishing,   \* Subscribers whose callback publishes on the topic
  Threads,      \* threads with a Publisher of the topic
  PubType,      \* message type of each
  Network,      \* threads that call deliver_inbound
  MaxMsgs       \* bound: messages published or brought in

VARIABLES
  type_name,    \* type of the topic's entry, None as long as there is no entry
  sinks,        \* its weak pointers to local Subscribers
  life,         \* "unborn", "alive", "closing" (in the destructor) or "gone"
  owned,        \* Subscribers the Node has a strong pointer to
  destroyer,    \* thread that runs the destructor of a Subscriber
  queue,        \* queue_ of each Subscriber
  dropped,      \* dropped_ of its queue
  worker,       \* its worker: "pop", "callback" or "exited"
  out,          \* of each thread's publish: message, targets to do, targets held
  sent,         \* number of messages so far
  pushed,       \* history: messages pushed to each queue
  got           \* history: messages each worker has taken for its callback

busVars == <<type_name, sinks>>
subVars == <<life, owned, destroyer>>
queueVars == <<queue, dropped, pushed>>
vars == <<busVars, subVars, queueVars, worker, out, sent, got>>

None == "none"
Main == "main"     \* the thread that creates and destroys the Node

Callers == Threads \cup Network \cup Subs

\* depth is an unsigned number, a callback that publishes is one of a Subscriber,
\* and the thread that destroys the Node has no publish under way.
ASSUME BusAssumption ==
  /\ Depth \in [Subs -> Nat]
  /\ Publishing \subseteq Subs
  /\ Main \notin Callers

Idle == [msg |-> <<>>, todo |-> <<>>, held |-> <<>>]

Init ==
  /\ type_name = None /\ sinks = <<>>
  /\ life = [s \in Subs |-> "unborn"]
  /\ owned = {}
  /\ destroyer = [s \in Subs |-> None]
  /\ queue = [s \in Subs |-> <<>>] /\ dropped = [s \in Subs |-> 0]
  /\ worker = [s \in Subs |-> "pop"]
  /\ out = [t \in Callers |-> Idle]
  /\ sent = 0
  /\ pushed = [s \in Subs |-> <<>>] /\ got = [s \in Subs |-> <<>>]

Closed(s) == life[s] \in {"closing", "gone"}

\* A thread in a destructor waits for the worker.
Joining(t) == \E s \in Subs : destroyer[s] = t /\ life[s] = "closing"

-----------------------------------------------------------------------------
(***************************************************************************)
(* The queue                                                               *)
(***************************************************************************)

\* The constructor of a Subscriber: KEEP_ALL is a capacity of zero.
capacity(s) == IF History[s] = "KEEP_LAST" THEN Depth[s] ELSE 0

\* Mutant of Full: the queue gets one longer than its capacity.
FullLate(s) == capacity(s) > 0 /\ Len(queue[s]) > capacity(s)

\* An item enters at the price of the oldest one.
Full(s) == capacity(s) > 0 /\ Len(queue[s]) >= capacity(s)

\* Nothing enters a closed queue; a full one loses its oldest item.
push(s, item) ==
  IF Closed(s) THEN UNCHANGED queueVars
  ELSE /\ queue' = [queue EXCEPT ![s] = Append(IF Full(s) THEN Tail(@) ELSE @, item)]
       /\ dropped' = [dropped EXCEPT ![s] = IF Full(s) THEN @ + 1 ELSE @]
       /\ pushed' = [pushed EXCEPT ![s] = Append(@, item)]

\* Mutant of Popped: the newest item first.
PoppedNewest(s) == Len(queue[s])

\* The index of the item that the worker takes.
Popped(s) == 1

\* The queue without the item at an index.
Without(q, i) == SubSeq(q, 1, i - 1) \o SubSeq(q, i + 1, Len(q))

\* Mutant of Woken: the close does not end the wait.
WokenByItem(s) == queue[s] # <<>>

\* The predicate of the wait.
Woken(s) == queue[s] # <<>> \/ Closed(s)

\* The worker waits for an item or the close; what is queued is still handled
\* after the close.
pop(s) ==
  /\ worker[s] = "pop" /\ life[s] \in {"alive", "closing"}
  /\ Woken(s)
  /\ IF queue[s] = <<>>
     THEN /\ worker' = [worker EXCEPT ![s] = "exited"]
          /\ UNCHANGED <<queue, got>>
     ELSE /\ worker' = [worker EXCEPT ![s] = "callback"]
          /\ queue' = [queue EXCEPT ![s] = Without(@, Popped(s))]
          /\ got' = [got EXCEPT ![s] = Append(@, queue[s][Popped(s)])]
  /\ UNCHANGED <<busVars, subVars, dropped, pushed, out, sent>>

\* The callback returns to run.
Return(s) ==
  /\ worker[s] = "callback"
  /\ out[s] = Idle /\ ~Joining(s)
  /\ worker' = [worker EXCEPT ![s] = "pop"]
  /\ UNCHANGED <<busVars, subVars, queueVars, out, sent, got>>

-----------------------------------------------------------------------------
(***************************************************************************)
(* The bus                                                                 *)
(***************************************************************************)

\* check_type: the first type is the topic's; the outcome is whether this is it.
Accepts(type) == type_name \in {None, type}
check_type(type) == type_name' = IF type_name = None THEN type ELSE type_name

\* The constructor of a Publisher.
register_publisher(t) ==
  /\ check_type(PubType[t])
  /\ UNCHANGED <<sinks, subVars, queueVars, worker, out, sent, got>>

\* create_subscriber: the worker starts, and the bus takes the Subscriber
\* unless its type is not the topic's.
subscribe(s) ==
  /\ life[s] = "unborn"
  /\ \A x \in Subs : life[x] = "unborn" \/ x \in owned
  /\ life' = [life EXCEPT ![s] = "alive"]
  /\ owned' = owned \cup {s}
  /\ check_type(TypeOf[s])
  /\ sinks' = IF Accepts(TypeOf[s]) THEN Append(sinks, s) ELSE sinks
  /\ UNCHANGED <<destroyer, queueVars, worker, out, sent, got>>

\* Mutant of Locked: expired weak pointers are used as well.
LockedAlways(s) == TRUE

\* The weak pointer gives a strong one.
Locked(s) == life[s] = "alive"

\* The Subscribers whose weak pointers give strong ones, in their order.
Alive ==
  LET alive[i \in 0..Len(sinks)] ==
        IF i = 0 THEN <<>>
        ELSE IF Locked(sinks[i]) THEN Append(alive[i - 1], sinks[i]) ELSE alive[i - 1]
  IN alive[Len(sinks)]

\* collect: strong pointers to the Subscribers that are alive; expired weak
\* ones are dropped.
collect(t, type) ==
  /\ out' = [out EXCEPT ![t] =
               IF Alive = <<>> THEN Idle
               ELSE [msg |-> <<t, sent + 1, type>>, todo |-> Alive, held |-> Alive]]
  /\ sinks' = Alive

\* publish and deliver_inbound under the lock of the bus.  A worker publishes
\* from its callback; the type of an inbound message is not checked: discovery
\* has matched it with a Subscriber of this Node.
Collect(t) ==
  /\ sent < MaxMsgs
  /\ type_name # None
  /\ out[t] = Idle /\ ~Joining(t)
  /\ \/ t \in Threads /\ Accepts(PubType[t]) /\ collect(t, PubType[t])
     \/ t \in Publishing /\ worker[t] = "callback" /\ Accepts(TypeOf[t]) /\ collect(t, TypeOf[t])
     \/ t \in Network /\ \E s \in Subs : life[s] # "unborn" /\ collect(t, TypeOf[s])
  /\ sent' = sent + 1
  /\ UNCHANGED <<type_name, subVars, queueVars, worker, got>>

\* The next enqueue, outside the lock.
Enqueue(t) ==
  /\ out[t].todo # <<>>
  /\ push(Head(out[t].todo), out[t].msg)
  /\ out' = [out EXCEPT ![t].todo = Tail(@)]
  /\ UNCHANGED <<busVars, subVars, worker, sent, got>>

\* A strong pointer to s goes away on thread t, one of those in `others' may
\* remain; with the last one the destructor closes the queue, and joins.
LetGo(t, s, others) ==
  IF s \in others THEN UNCHANGED <<life, destroyer>>
  ELSE /\ life' = [life EXCEPT ![s] = "closing"]
       /\ destroyer' = [destroyer EXCEPT ![s] = t]

\* Subscribers that threads other than t hold.
HeldByOthers(t) == UNION {Range(out[u].held) : u \in Callers \ {t}}

\* The targets of a publish are destroyed one after the other.
Release(t) ==
  /\ out[t].todo = <<>> /\ out[t].held # <<>> /\ ~Joining(t)
  /\ LET s == Head(out[t].held)
         rest == Tail(out[t].held)
     IN /\ LetGo(t, s, owned \cup HeldByOthers(t) \cup Range(rest))
        /\ out' = [out EXCEPT ![t] = IF rest = <<>> THEN Idle ELSE [@ EXCEPT !.held = rest]]
  /\ UNCHANGED <<busVars, owned, queueVars, worker, sent, got>>

\* The Node lets go of an entity.
Disown(s) ==
  /\ s \in owned /\ ~Joining(Main)
  /\ owned' = owned \ {s}
  /\ LetGo(Main, s, HeldByOthers(Main))
  /\ UNCHANGED <<busVars, queueVars, worker, out, sent, got>>

\* Mutant of Joined: the worker is not waited for.
JoinedNot(s) == TRUE

\* The join of the worker returns.
Joined(s) == worker[s] = "exited"

\* The destructor returns once the worker has exited.
Join(s) ==
  /\ life[s] = "closing" /\ Joined(s)
  /\ life' = [life EXCEPT ![s] = "gone"]
  /\ UNCHANGED <<busVars, owned, destroyer, queueVars, worker, out, sent, got>>

-----------------------------------------------------------------------------
Next ==
  \/ \E s \in Subs : subscribe(s) \/ pop(s) \/ Return(s) \/ Disown(s) \/ Join(s)
  \/ \E t \in Threads : register_publisher(t)
  \/ \E t \in Callers : Collect(t) \/ Enqueue(t) \/ Release(t)

Spec == Init /\ [][Next]_vars

\* Threads go on: callbacks return, and a publish or a destructor that was
\* begun is finished.
Fairness ==
  /\ \A s \in Subs : WF_vars(pop(s)) /\ WF_vars(Return(s)) /\ WF_vars(Join(s))
  /\ \A t \in Callers : WF_vars(Enqueue(t)) /\ WF_vars(Release(t))

FairSpec == Spec /\ Fairness

-----------------------------------------------------------------------------
(***************************************************************************)
(* Properties                                                              *)
(***************************************************************************)

\* KEEP_LAST and KEEP_ALL: what waits in a queue are the last messages pushed,
\* no more of them than its capacity; every message pushed was handled, waits or
\* was counted as dropped, and without a capacity none is dropped.
KeepLast ==
  \A s \in Subs :
    /\ capacity(s) > 0 => Len(queue[s]) <= capacity(s)
    /\ \E n \in 0..Len(pushed[s]) : queue[s] = SubSeq(pushed[s], n + 1, Len(pushed[s]))
    /\ Len(pushed[s]) = Len(got[s]) + Len(queue[s]) + dropped[s]
    /\ capacity(s) = 0 => dropped[s] = 0

\* The messages of one publishing thread reach every callback in the order in
\* which they were published, and none twice, although the bus enqueues
\* outside its lock.
PublisherOrder ==
  \A s \in Subs : \A i, j \in 1..Len(got[s]) :
    i < j /\ got[s][i][1] = got[s][j][1] => got[s][i][2] < got[s][j][2]

\* A Subscriber that a publish holds, or whose worker is not through, is not
\* destroyed: no enqueue and no callback on a destroyed Subscriber.
NoUseAfterDestroy ==
  \A s \in Subs :
    /\ life[s] = "gone" => worker[s] = "exited"
    /\ life[s] # "alive" => \A t \in Callers : s \notin Range(out[t].held)

\* A callback only gets messages of the type it was written for.
TypeSafe == \A s \in Subs : \A i \in 1..Len(got[s]) : got[s][i][3] = TypeOf[s]

\* A worker whose callback publishes can be left with the last reference to its
\* own Subscriber: it runs the destructor and joins itself.
JoinsItself == \E s \in Subs : destroyer[s] = s

\* Subscriber: the destructor closes the queue and joins the worker.  A
\* destructor that begins also ends, whichever thread runs it, unless a worker
\* joins itself.
DestructorReturns ==
  \A s \in Subs : life[s] = "closing" ~> life[s] = "gone" \/ JoinsItself

\* Without the exception.
DestructorEnds == \A s \in Subs : life[s] = "closing" ~> life[s] = "gone"

\* A message pushed to a queue is handled or dropped for newer ones, also when
\* the Subscriber is destroyed meanwhile.
Handled ==
  \A s \in Subs : \A n \in 1..MaxMsgs :
    Len(pushed[s]) >= n ~> Len(got[s]) + dropped[s] >= n \/ JoinsItself

\* Qos: depth is the N of KEEP_LAST and the limit of the subscriber's queue.
DepthIsLimit ==
  \A s \in Subs : History[s] = "KEEP_LAST" => Len(queue[s]) <= Depth[s]
=============================================================================
