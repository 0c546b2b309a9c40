------------------------------- MODULE Stream -------------------------------
(***************************************************************************)
(* The live stream (api/app/stream.py and the SSE endpoints on it): one    *)
(* bounded queue per connection, filled by whoever publishes and emptied   *)
(* by the connection's generator on the event loop.                        *)
(*                                                                         *)
(* Decisions run in the thread pool and graphs on threads of their own, so *)
(* publish is called from other threads than the one that owns the queues. *)
(* asyncio queues are not made for that: the reader may find its queue     *)
(* empty just before an event is put in and go to sleep just after, and a  *)
(* wake-up may meet a waiter that is being cancelled.  The steps below are *)
(* those of asyncio.Queue as far as two threads can come between them.     *)
(***************************************************************************)
EXTENDS Integers, FiniteSets, SequencesExt

CONSTANTS Clients,    \* connections, each with a queue of its own
          Threads,    \* threads that publish
          Topic,      \* the run whose log rows a thread publishes, or "delta"
          Follows,    \* the run whose log a connection shows, or "all"
          Limit,      \* MAX_QUEUE
          MaxEvents   \* bound: the events of each thread

Nobody == "nobody"

ASSUME StreamAssumption ==
    /\ Limit \in Nat \ {0}
    /\ MaxEvents \in [Threads -> Nat]
    /\ DOMAIN Topic = Threads
    /\ DOMAIN Follows = Clients
    /\ IsFiniteSet(Threads)
    /\ Nobody \notin Clients

\* The events of a thread are numbered in the order it publishes them.
Events == UNION {{t} \X (1 .. MaxEvents[t]) : t \in Threads}

VARIABLES conn,    \* connections: new, top, empty, waiting, woken, taken, gone
          queue,
          got,     \* history: the events taken from the queue
          shown,   \* the events sent to the browser
          count,   \* events a thread has begun to publish
          todo,    \* the subscribers a publish has yet to serve
          fits,    \* the subscriber whose queue was found to have a place
          offered, \* history: the events published while the connection was subscribed
          full,    \* history: the events its full queue refused
          cut      \* history: the events of a publish that ended before its turn

streamVars == <<conn, queue, got, shown, count, todo, fits, offered, full, cut>>

StreamInit ==
    /\ conn = [c \in Clients |-> "new"]
    /\ queue = [c \in Clients |-> <<>>]
    /\ got = [c \in Clients |-> <<>>]
    /\ shown = [c \in Clients |-> <<>>]
    /\ count = [t \in Threads |-> 0]
    /\ todo = [t \in Threads |-> {}]
    /\ fits = [t \in Threads |-> Nobody]
    /\ offered = [c \in Clients |-> {}]
    /\ cut = [c \in Clients |-> {}]
    /\ full = [c \in Clients |-> {}]

Connected(c) == conn[c] \notin {"new", "gone"}
Subscribers == {c \in Clients : Connected(c)}

publishing == <<count, todo, fits, offered, full, cut>>

-----------------------------------------------------------------------------
(* The connection.                                                          *)

Goes(c, to) == conn' = [conn EXCEPT ![c] = to]

\* new_subscriber: the queue is registered when the generator starts.
Connect(c) ==
    /\ conn[c] = "new"
    /\ Goes(c, "top")
    /\ UNCHANGED <<queue, got, shown, publishing>>

Takes(c) ==
    /\ queue[c] # <<>>
    /\ queue' = [queue EXCEPT ![c] = Tail(@)]
    /\ got' = [got EXCEPT ![c] = Append(@, Head(queue[c]))]
    /\ Goes(c, "taken")
    /\ UNCHANGED <<shown, publishing>>

\* queue.get() as a task of its own: it takes an event when there is one.
GetNow(c) ==
    /\ conn[c] = "top"
    /\ Takes(c)

FindsEmpty(c) ==
    /\ conn[c] = "top" /\ queue[c] = <<>>
    /\ Goes(c, "empty")
    /\ UNCHANGED <<queue, got, shown, publishing>>

\* The waiter is registered without another look at the queue.
Sleeps(c) ==
    /\ conn[c] = "empty"
    /\ Goes(c, "waiting")
    /\ UNCHANGED <<queue, got, shown, publishing>>

WakesUp(c) ==
    /\ conn[c] = "woken"
    /\ Takes(c)

\* A plausible bug: the whole read is put under the timer (asyncio.wait_for on the
\* subscription), and what it has taken goes down with it.
HeartbeatDropsEvent(c) ==
    /\ conn[c] \in {"waiting", "woken"}
    /\ Goes(c, "top")
    /\ queue' = [queue EXCEPT ![c] = IF @ = <<>> THEN @ ELSE Tail(@)]
    /\ UNCHANGED <<got, shown, publishing>>

\* A plausible bug: the reader waits without a timer.
HeartbeatOnlyWhenWoken(c) ==
    /\ conn[c] = "woken"
    /\ Goes(c, "top")
    /\ UNCHANGED <<queue, got, shown, publishing>>

\* The timer wins: the getter is cancelled, a heartbeat is sent, and the next round
\* looks at the queue again.  A getter that was woken and is cancelled before it
\* runs leaves the event where it is.
Heartbeat(c) ==
    /\ conn[c] \in {"waiting", "woken"}
    /\ Goes(c, "top")
    /\ UNCHANGED <<queue, got, shown, publishing>>

\* The log of one run passes over deltas and the rows of other runs; the global
\* stream shows everything, log rows too (see GlobalIgnoresLogs below).
Wants(c, e) == Follows[c] \in {"all", Topic[e[1]]}

Send(c) ==
    LET e == got[c][Len(got[c])]
    IN  /\ conn[c] = "taken"
        /\ shown' = [shown EXCEPT ![c] = IF Wants(c, e) THEN Append(@, e) ELSE @]
        /\ Goes(c, "top")
        /\ UNCHANGED <<queue, got, publishing>>

\* The browser goes away wherever the generator waits: unsubscribe.  A publish that
\* has the queue in its list still fills it, for nobody.
Disconnect(c) ==
    /\ conn[c] \in {"waiting", "woken", "taken"}
    /\ Goes(c, "gone")
    /\ queue' = [queue EXCEPT ![c] = <<>>]
    /\ got' = [got EXCEPT ![c] = <<>>]
    /\ shown' = [shown EXCEPT ![c] = <<>>]
    /\ offered' = [offered EXCEPT ![c] = {}]
    /\ full' = [full EXCEPT ![c] = {}]
    /\ cut' = [cut EXCEPT ![c] = {}]
    /\ UNCHANGED <<count, todo, fits>>

-----------------------------------------------------------------------------
(* publish.                                                                 *)

Event(t) == <<t, count[t]>>

\* A log row that was stored, or a decision that was made, is published to those
\* who are subscribed now.
Publish(t) ==
    /\ todo[t] = {} /\ fits[t] = Nobody
    /\ count[t] < MaxEvents[t]
    /\ count' = [count EXCEPT ![t] = @ + 1]
    /\ todo' = [todo EXCEPT ![t] = Subscribers]
    /\ offered' = [c \in Clients |-> offered[c] \cup
                      (IF c \in Subscribers THEN {<<t, count'[t]>>} ELSE {})]
    /\ UNCHANGED <<conn, queue, got, shown, fits, full, cut>>

\* put_nowait looks whether there is a place; a full queue is passed over.
SeesFull(t, c) ==
    /\ c \in todo[t] /\ fits[t] = Nobody
    /\ Len(queue[c]) >= Limit
    /\ todo' = [todo EXCEPT ![t] = @ \ {c}]
    /\ full' = [full EXCEPT ![c] = @ \cup {Event(t)}]
    /\ UNCHANGED <<conn, queue, got, shown, count, fits, offered, cut>>

SeesPlace(t, c) ==
    /\ c \in todo[t] /\ fits[t] = Nobody
    /\ Len(queue[c]) < Limit
    /\ fits' = [fits EXCEPT ![t] = c]
    /\ UNCHANGED <<conn, queue, got, shown, count, todo, offered, full, cut>>

Puts(t, c) ==
    /\ fits[t] = c
    /\ queue' = IF Connected(c) THEN [queue EXCEPT ![c] = Append(@, Event(t))] ELSE queue
    /\ fits' = [fits EXCEPT ![t] = Nobody]

\* A plausible bug: the subscribers are a list, and a connection is on it twice.
PutTwice(t, c) ==
    /\ fits[t] = c
    /\ queue' = IF Connected(c) THEN [queue EXCEPT ![c] = @ \o <<Event(t), Event(t)>>] ELSE queue
    /\ fits' = [fits EXCEPT ![t] = Nobody]
    /\ todo' = [todo EXCEPT ![t] = @ \ {c}]
    /\ conn' = [conn EXCEPT ![c] = IF @ = "waiting" THEN "woken" ELSE @]
    /\ UNCHANGED <<got, shown, count, offered, full, cut>>

\* The event is put in, and a waiter is woken when there is one.
Put(t, c) ==
    /\ Puts(t, c)
    /\ todo' = [todo EXCEPT ![t] = @ \ {c}]
    /\ conn' = [conn EXCEPT ![c] = IF @ = "waiting" THEN "woken" ELSE @]
    /\ UNCHANGED <<got, shown, count, offered, full, cut>>

\* The heartbeat cancels the waiter between the test and the wake-up: setting its
\* result raises, and the exception ends this publish.  The event is in the queue;
\* subscribers that were not served yet go without it.
PutRaises(t, c) ==
    /\ conn[c] = "waiting"
    /\ Puts(t, c)
    /\ todo' = [todo EXCEPT ![t] = {}]
    /\ cut' = [d \in Clients |-> IF d \in (Subscribers \cap todo[t]) \ {c}
                                THEN cut[d] \cup {Event(t)} ELSE cut[d]]
    /\ Goes(c, "top")
    /\ UNCHANGED <<got, shown, count, offered, full>>

Read(c) ==
    \/ GetNow(c) \/ FindsEmpty(c) \/ Sleeps(c) \/ WakesUp(c) \/ Heartbeat(c) \/ Send(c)

StreamNext ==
    \/ \E c \in Clients : Connect(c) \/ Read(c) \/ Disconnect(c)
    \/ \E t \in Threads :
         \/ Publish(t)
         \/ \E c \in Clients : SeesFull(t, c) \/ SeesPlace(t, c) \/ Put(t, c) \/ PutRaises(t, c)

StreamSpec == StreamInit /\ [][StreamNext]_streamVars

\* The event loop runs, its timers fire and the browser reads what it is sent.
\* Nothing is assumed of the threads that publish.
StreamFairSpec == StreamSpec /\ \A c \in Clients : WF_streamVars(Read(c))

-----------------------------------------------------------------------------
(* Properties.                                                              *)

\* Type invariant.  Threads that saw the last place together may overfill a queue,
\* each by one event.
StreamTypeOK ==
    /\ conn \in [Clients -> {"new", "top", "empty", "waiting", "woken", "taken", "gone"}]
    /\ \A c \in Clients : /\ queue[c] \in Seq(Events) /\ got[c] \in Seq(Events)
                          /\ shown[c] \in Seq(Events)
                          /\ offered[c] \cup full[c] \cup cut[c] \subseteq Events
                          /\ \A t \in Threads : Len(queue[c]) < Limit + Cardinality(Threads)
    /\ \A t \in Threads : count[t] \in 0 .. MaxEvents[t]
    /\ todo \in [Threads -> SUBSET Clients]
    /\ fits \in [Threads -> Clients \cup {Nobody}]

\* The events a connection has or had in its queue, in the order they came.
Story(c) == got[c] \o queue[c]

InOrder(events) ==
    \A i, j \in DOMAIN events :
        i < j /\ events[i][1] = events[j][1] => events[i][2] < events[j][2]

\* "Delivery is best-effort per subscriber (bounded queues, slow consumers drop)"
\* means no more than that: an event published while a connection was subscribed is
\* taken by it or waits in its queue, once and in the order of its thread, unless
\* the queue was full or the publish was cut short; no race between publishers,
\* heartbeats and wake-ups loses or repeats one.
DropsOnlyWhenFull ==
    \A c \in Subscribers :
        /\ InOrder(Story(c))
        /\ \A e \in offered[c] :
             \/ e \in ToSet(Story(c)) \cup full[c] \cup cut[c]
             \/ e = Event(e[1]) /\ c \in todo[e[1]] \cup {fits[e[1]]}

\* What a connection is for: the deltas on the global stream, the rows of its run on
\* the log of a run.
MeantFor(c, e) ==
    Topic[e[1]] = IF Follows[c] = "all" THEN "delta" ELSE Follows[c]

\* An event in the queue of a connection that lasts is sent to it, if it is one the
\* connection is for, also when the reader went to sleep beside it: the heartbeat
\* looks again, and rows the connection is not for do not keep it back.
QueuedIsShown ==
    \A c \in Clients : \A e \in Events :
        e \in ToSet(queue[c]) /\ MeantFor(c, e) ~> e \in ToSet(shown[c]) \/ ~ Connected(c)

-----------------------------------------------------------------------------
(* What the documents say and the code does not do.                         *)

\* "the per-run logs endpoint serves these filtered by run, the global stream
\* ignores them" (api/app/stream.py, of run.log): the global stream sends deltas
\* only.  stream_runs sends whatever it takes from its queue.
GlobalIgnoresLogs ==
    \A c \in Clients : \A e \in ToSet(shown[c]) :
        Follows[c] = "all" => Topic[e[1]] = "delta"

=============================================================================
