------------------------ MODULE BlueprintLCM_proofs -------------------------
(***************************************************************************)
(* Proofs about BlueprintLCM for every number of blueprints, workers and   *)
(* threads, every workload and every bound.                                *)
(***************************************************************************)
EXTENDS BlueprintLCM, TLAPS

-----------------------------------------------------------------------------
(***************************************************************************)
(* The inductive invariant.  None of TypeOK, CallbackReachesItsCaller and  *)
(* StoppedWorkerIsBeingPopped is inductive: the manager reads the          *)
(* collection and the database at the target of a thread and uses the      *)
(* worker the thread holds, and a worker stops because of a message that   *)
(* was queued long before.                                                 *)
(***************************************************************************)

\* What a thread in state t holds: get_worker and create_blueprint returned a
\* worker built on the blueprint of the request, and namespace["msg"] is filled
\* only in a synchronous call.
Holds(t) ==
    /\ t.state \in {"created", "put0", "lookup", "loaded", "got", "wait", "pop",
                    "save"} => t.target \in Blue
    /\ t.state \in {"put0", "got", "wait"}
          => /\ t.handle \in Worker
             /\ worker[t.handle].state # "unborn"
             /\ worker[t.handle].blueprint = t.target
    /\ t.state \notin {"wait", "pop"} => t.answer = "none"

HoldsInv == \A c \in Client : Holds(thread[c])

\* A worker has been built on a blueprint or not at all, and the collection
\* maps a blueprint to a worker built on it.
WorkerInv ==
    /\ \A w \in Worker :
          /\ worker[w].state = "unborn" => worker[w] = Unborn
          /\ worker[w].state # "unborn" => worker[w].blueprint \in Blue
    /\ \A b \in Blue, w \in Worker :
          worker_collection[b] = w => /\ worker[w].state # "unborn"
                                      /\ worker[w].blueprint = b

\* A thread in state t is in a deletion of b that waits for the worker.
AwaitsStop(t, b) ==
    t.state = "wait" /\ t.request \in DeleteRequests /\ t.target = b

\* The entry of b will be popped by a thread that is about to, or by the thread
\* that waits for the STOP with this callback.
PopFollows(b, client) ==
    \/ \E c \in Client : AboutToPop(thread[c], b)
    \/ client \in Client /\ AwaitsStop(thread[client], b)

\* The worker is processing a STOP.
Stopping == {"destroying", "torn_down", "cleaned", "destroyed"}

\* Every STOP that has reached a worker w of the collection, in whatever stage,
\* will be followed by the pop of the entry of b.
StopsAnnounced(b, w) ==
    /\ \A i \in 1..Len(worker[w].message_queue) :
          worker[w].message_queue[i].type = "STOP"
             => PopFollows(b, worker[w].message_queue[i].callback)
    /\ worker[w].state \in Stopping
          => PopFollows(b, worker[w].received.callback)
    /\ worker[w].state = "stopped" => \E c \in Client : AboutToPop(thread[c], b)

StopInv ==
    \A b \in Blue, w \in Worker :
        worker_collection[b] = w => StopsAnnounced(b, w)

IInv == /\ TypeOK
        /\ HoldsInv
        /\ WorkerInv
        /\ CallbackReachesItsCaller
        /\ StopInv

-----------------------------------------------------------------------------
(***************************************************************************)
(* Frame lemmas: what a step has to leave alone to keep each part.         *)
(***************************************************************************)

\* The constant records have their types.
LEMMA ConstantTypes ==
    /\ FreshRecord \in Record
    /\ NoMessage \in WorkerMessage
    /\ Unborn \in BlueprintWorker
    /\ Free \in Thread
<1>1. FreshRecord \in Record
  BY DEF FreshRecord, Record, CurrentOperation
<1>2. NoMessage \in WorkerMessage
  BY DEF NoMessage, WorkerMessage, MessageType
<1>3. Unborn \in BlueprintWorker
  BY <1>1, <1>2 DEF Unborn, BlueprintWorker, WorkerState
<1>4. Free \in Thread
  BY <1>1 DEF Free, Thread, ThreadState, RestRequests, OwnerRequests
<1>5. QED
  BY <1>1, <1>2, <1>3, <1>4

\* Continue changes one thread.
LEMMA ContinueFact ==
    ASSUME TypeOK, NEW c \in Client, NEW t \in Thread, Continue(c, t)
    PROVE  /\ thread' \in [Client -> Thread]
           /\ thread'[c] = t
           /\ \A d \in Client : d # c => thread'[d] = thread[d]
  BY DEF Continue, TypeOK

\* Becomes changes one worker.
LEMMA BecomesFact ==
    ASSUME TypeOK, NEW w \in Worker, NEW r \in BlueprintWorker, Becomes(w, r)
    PROVE  /\ worker' \in [Worker -> BlueprintWorker]
           /\ worker'[w] = r
           /\ \A v \in Worker : v # w => worker'[v] = worker[v]
  BY DEF Becomes, TypeOK

\* A worker's queue holds messages.
LEMMA QueueTypes ==
    ASSUME TypeOK, NEW w \in Worker
    PROVE  /\ worker[w].message_queue \in Seq(WorkerMessage)
           /\ worker[w].received \in WorkerMessage
           /\ \A i \in 1..Len(worker[w].message_queue) :
                 worker[w].message_queue[i] \in WorkerMessage
<1>1. worker[w] \in BlueprintWorker
  BY DEF TypeOK
<1>2. /\ worker[w].message_queue \in Seq(WorkerMessage)
      /\ worker[w].received \in WorkerMessage
  BY <1>1 DEF BlueprintWorker
<1>3. QED
  BY <1>2

\* Workers are never unmade (except by a kill) and keep their blueprint.
WorkersStay ==
    \A w \in Worker : worker[w].state # "unborn" =>
        worker'[w].state # "unborn" /\ worker'[w].blueprint = worker[w].blueprint

\* HoldsInv has to be shown anew only for the threads that change.
LEMMA HoldsFrame ==
    ASSUME TypeOK, HoldsInv, WorkersStay,
           \A c \in Client : thread'[c] = thread[c] \/ Holds(thread[c])'
    PROVE  HoldsInv'
<1> SUFFICES ASSUME NEW c \in Client PROVE Holds(thread[c])'
  BY DEF HoldsInv
<1>1. CASE Holds(thread[c])'
  BY <1>1
<1>2. CASE thread'[c] = thread[c]
  <2>1. Holds(thread[c])
    BY DEF HoldsInv
  <2>2. QED
    BY <1>2, <2>1 DEF Holds, WorkersStay
<1>3. QED
  BY <1>1, <1>2

\* WorkerInv does not depend on what a worker that exists is doing.
LEMMA WorkerFrame ==
    ASSUME TypeOK, WorkerInv, WorkersStay,
           \A w \in Worker : \/ worker'[w] = worker[w]
                             \/ /\ worker'[w].state # "unborn"
                                /\ worker'[w].blueprint \in Blue,
           \A b \in Blue, w \in Worker : worker_collection'[b] = w =>
               \/ worker_collection[b] = w
               \/ worker'[w].state # "unborn" /\ worker'[w].blueprint = b
    PROVE  WorkerInv'
<1>1. ASSUME NEW w \in Worker
      PROVE  /\ (worker[w].state = "unborn" => worker[w] = Unborn)'
             /\ (worker[w].state # "unborn" => worker[w].blueprint \in Blue)'
  BY DEF WorkerInv
<1>2. ASSUME NEW w \in Worker, NEW b \in Blue, worker_collection'[b] = w
      PROVE  (worker[w].state # "unborn" /\ worker[w].blueprint = b)'
  BY <1>2 DEF WorkerInv, WorkersStay
<1>3. QED
  BY <1>1, <1>2 DEF WorkerInv

\* w holds a message with the callback of c.
Referenced(c, w) ==
    \/ Owes(w) /\ worker[w].received.callback = c
    \/ \E i \in 1..Len(worker[w].message_queue) :
          worker[w].message_queue[i].callback = c

\* A worker's callbacks stay right when no message is added and the threads of
\* the remaining ones stay blocked.
LEMMA CallbackFrame ==
    ASSUME TypeOK, CallbackReachesItsCaller,
           \A w \in Worker :
              \/ HoldsCallbacks(w)'
              \/ /\ worker'[w].message_queue = worker[w].message_queue
                 /\ Owes(w)' => /\ Owes(w)
                                /\ worker'[w].received = worker[w].received,
           \A w \in Worker, c \in Client :
              BlockedOn(c, w) /\ Referenced(c, w)' => BlockedOn(c, w)'
    PROVE  CallbackReachesItsCaller'
<1> SUFFICES ASSUME NEW w \in Worker,
                    worker'[w].message_queue = worker[w].message_queue,
                    Owes(w)' => /\ Owes(w)
                                /\ worker'[w].received = worker[w].received
             PROVE  HoldsCallbacks(w)'
  BY DEF CallbackReachesItsCaller
<1> DEFINE q == worker[w].message_queue
<1>0. HoldsCallbacks(w)
  BY DEF CallbackReachesItsCaller
<1>1. ASSUME NEW i \in 1..Len(q), q[i].callback # NoClient
      PROVE  /\ BlockedOn(q[i].callback, w)'
             /\ \A j \in 1..Len(q) : q[j].callback = q[i].callback => i = j
             /\ ~(Owes(w)' /\ worker'[w].received.callback = q[i].callback)
  <2>1. q[i].callback \in Client
    BY <1>1, QueueTypes DEF WorkerMessage
  <2>2. BlockedOn(q[i].callback, w)
    BY <1>0, <1>1 DEF HoldsCallbacks
  <2>3. Referenced(q[i].callback, w)'
    BY DEF Referenced
  <2>4. BlockedOn(q[i].callback, w)'
    BY <2>1, <2>2, <2>3
  <2>5. QED
    BY <1>0, <1>1, <2>4 DEF HoldsCallbacks
<1>2. ASSUME Owes(w)', worker'[w].received.callback # NoClient
      PROVE  BlockedOn(worker[w].received.callback, w)'
  <2>1. Owes(w) /\ worker'[w].received = worker[w].received
    BY <1>2
  <2>2. worker[w].received.callback \in Client
    BY <1>2, <2>1, QueueTypes DEF WorkerMessage
  <2>3. BlockedOn(worker[w].received.callback, w)
    BY <1>0, <1>2, <2>1 DEF HoldsCallbacks
  <2>4. Referenced(worker[w].received.callback, w)'
    BY <1>2, <2>1 DEF Referenced
  <2>5. QED
    BY <2>1, <2>2, <2>3, <2>4
<1>3. QED
  BY <1>1, <1>2 DEF HoldsCallbacks

\* The pop that follows a STOP is not called off.
PopsStay(b) ==
    \A c \in Client :
        /\ AboutToPop(thread[c], b) => AboutToPop(thread[c], b)'
        /\ AwaitsStop(thread[c], b) => \/ AwaitsStop(thread[c], b)'
                                       \/ AboutToPop(thread[c], b)'

\* A STOP stays announced while nobody queues another one or pops the entry.
LEMMA StopFrame ==
    ASSUME TypeOK, StopInv,
           \A b \in Blue, w \in Worker : worker_collection'[b] = w =>
              \/ StopsAnnounced(b, w)'
              \/ /\ worker_collection[b] = w
                 /\ PopsStay(b)
                 /\ worker'[w].message_queue = worker[w].message_queue
                 /\ worker'[w].state \in Stopping =>
                       /\ worker[w].state \in Stopping
                       /\ worker'[w].received = worker[w].received
                 /\ worker'[w].state = "stopped" => worker[w].state = "stopped"
    PROVE  StopInv'
<1> SUFFICES ASSUME NEW b \in Blue, NEW w \in Worker,
                    worker_collection[b] = w,
                    PopsStay(b),
                    worker'[w].message_queue = worker[w].message_queue,
                    worker'[w].state \in Stopping =>
                       /\ worker[w].state \in Stopping
                       /\ worker'[w].received = worker[w].received,
                    worker'[w].state = "stopped" => worker[w].state = "stopped"
             PROVE  StopsAnnounced(b, w)'
  BY DEF StopInv
<1>1. StopsAnnounced(b, w)
  BY DEF StopInv
<1>2. ASSUME NEW c PROVE PopFollows(b, c) => PopFollows(b, c)'
  BY DEF PopFollows, PopsStay
<1>3. (\E c \in Client : AboutToPop(thread[c], b))
         => (\E c \in Client : AboutToPop(thread[c], b))'
  BY DEF PopsStay
<1>4. QED
  BY <1>1, <1>2, <1>3 DEF StopsAnnounced

-----------------------------------------------------------------------------
(***************************************************************************)
(* The shapes of a step: the manager runs in the calling thread, starts a  *)
(* worker, queues a message; a worker goes on, possibly calling back.      *)
(***************************************************************************)

\* The step of a thread that is not blocked: queues, received messages and
\* worker states are as before.
LEMMA CallerFrame ==
    ASSUME IInv, NEW c \in Client, NEW t \in Thread, Continue(c, t),
           ~(thread[c].state = "wait" /\ thread[c].answer = "none"), Holds(t),
           \A w \in Worker : \/ worker'[w] = worker[w]
                             \/ /\ worker[w].state # "unborn"
                                /\ worker'[w].state = worker[w].state
                                /\ worker'[w].blueprint = worker[w].blueprint
                                /\ worker'[w].message_queue = worker[w].message_queue
                                /\ worker'[w].received = worker[w].received,
           \A b \in Blue : /\ \/ worker_collection'[b] = NoWorker
                              \/ /\ worker_collection'[b] = worker_collection[b]
                                 /\ AboutToPop(thread[c], b) => AboutToPop(t, b)
                           /\ AwaitsStop(thread[c], b) => AboutToPop(t, b)
    PROVE  /\ thread' \in [Client -> Thread]
           /\ HoldsInv' /\ WorkerInv' /\ CallbackReachesItsCaller' /\ StopInv'
<1> USE DEF IInv
<1>1. /\ thread' \in [Client -> Thread]
      /\ thread'[c] = t
      /\ \A d \in Client : d # c => thread'[d] = thread[d]
  BY ContinueFact
<1>2. WorkersStay
  BY DEF WorkersStay
<1>3. Holds(thread[c])'
  BY <1>1, <1>2 DEF Holds, WorkersStay
<1>4. HoldsInv'
  BY <1>1, <1>2, <1>3, HoldsFrame
<1>5. WorkerInv'
  <2>1. \A w \in Worker : \/ worker'[w] = worker[w]
                          \/ /\ worker'[w].state # "unborn"
                             /\ worker'[w].blueprint \in Blue
    BY DEF WorkerInv
  <2>2. \A b \in Blue, w \in Worker :
           worker_collection'[b] = w => worker_collection[b] = w
    BY NullAssumption
  <2>3. QED
    BY <1>2, <2>1, <2>2, WorkerFrame
<1>6. \A w \in Worker, d \in Client : BlockedOn(d, w) => BlockedOn(d, w)'
  BY <1>1 DEF BlockedOn
<1>7. \A w \in Worker :
         /\ worker'[w].message_queue = worker[w].message_queue
         /\ Owes(w)' => Owes(w) /\ worker'[w].received = worker[w].received
  BY DEF Owes
<1>8. CallbackReachesItsCaller'
  BY <1>6, <1>7, CallbackFrame
<1>9. StopInv'
  <2>1. ASSUME NEW b \in Blue, NEW w \in Worker, worker_collection'[b] = w
        PROVE  /\ worker_collection[b] = w
               /\ AboutToPop(thread[c], b) => AboutToPop(t, b)
    BY <2>1, NullAssumption
  <2>2. ASSUME NEW b \in Blue, NEW w \in Worker, worker_collection'[b] = w
        PROVE  PopsStay(b)
    BY <1>1, <2>1, <2>2 DEF PopsStay, AboutToPop, AwaitsStop
  <2>3. QED
    BY <2>1, <2>2, StopFrame
<1>10. QED
  BY <1>1, <1>4, <1>5, <1>8, <1>9

\* A caller's step that touches nothing but its thread.
LEMMA CallerOnly ==
    ASSUME IInv, NEW c \in Client, NEW t \in Thread, Continue(c, t), Holds(t),
           thread[c].state \notin {"wait", "pop"},
           UNCHANGED <<db, infra, stray, used, worker_collection, worker, crashes>>,
           requests' \in 0..MaxRequests
    PROVE  IInv'
<1>1. \A b \in Blue : ~AboutToPop(thread[c], b) /\ ~AwaitsStop(thread[c], b)
  BY DEF AboutToPop, AwaitsStop
<1>2. /\ thread' \in [Client -> Thread]
      /\ HoldsInv' /\ WorkerInv' /\ CallbackReachesItsCaller' /\ StopInv'
  BY <1>1, CallerFrame
<1>3. TypeOK'
  BY <1>2 DEF IInv, TypeOK
<1>4. QED
  BY <1>2, <1>3 DEF IInv

\* A worker is started by create_blueprint or get_worker.
LEMMA StartFrame ==
    ASSUME IInv, NEW c \in Client, NEW t \in Thread, Continue(c, t),
           NEW w \in Worker, NEW b \in Blue, NEW m \in Record, StartWorker(w, b, m),
           thread[c].state \in {"created", "loaded"},
           t.state \in {"put0", "got"}, t.target = b, t.handle = w,
           t.answer = "none",
           UNCHANGED <<db, infra, stray, used, requests, crashes>>
    PROVE  IInv'
<1> USE DEF IInv
<1> DEFINE r == [Unborn EXCEPT !.state = "idle", !.blueprint = b, !.base_model = m]
<1>1. /\ r \in BlueprintWorker /\ r.state = "idle" /\ r.blueprint = b
      /\ r.message_queue = <<>>
  BY ConstantTypes DEF Unborn, BlueprintWorker, WorkerState
<1>2. Becomes(w, r) /\ worker[w].state = "unborn"
  BY DEF StartWorker
<1> HIDE DEF r
<1>3. /\ worker' \in [Worker -> BlueprintWorker]
      /\ worker'[w] = r
      /\ \A v \in Worker : v # w => worker'[v] = worker[v]
  BY <1>1, <1>2, BecomesFact
<1>4. /\ thread' \in [Client -> Thread]
      /\ thread'[c] = t
      /\ \A d \in Client : d # c => thread'[d] = thread[d]
  BY ContinueFact
<1>5. /\ worker_collection' \in [Blue -> Worker \cup {NoWorker}]
      /\ worker_collection'[b] = w
      /\ \A a \in Blue : a # b => worker_collection'[a] = worker_collection[a]
  BY DEF StartWorker, TypeOK
<1>6. WorkersStay
  BY <1>2, <1>3 DEF WorkersStay
<1>7. HoldsInv'
  <2>1. Holds(thread[c])'
    BY <1>1, <1>3, <1>4 DEF Holds
  <2>2. QED
    BY <1>4, <1>6, <2>1, HoldsFrame
<1>8. WorkerInv'
  BY <1>1, <1>3, <1>5, <1>6, WorkerFrame
<1>9. CallbackReachesItsCaller'
  <2>1. HoldsCallbacks(w)'
    BY <1>1, <1>3 DEF HoldsCallbacks, Owes, Owing
  <2>2. \A v \in Worker : v # w => /\ worker'[v].message_queue = worker[v].message_queue
                                   /\ Owes(v)' => /\ Owes(v)
                                                  /\ worker'[v].received = worker[v].received
    BY <1>3 DEF Owes
  <2>3. \A v \in Worker, d \in Client : BlockedOn(d, v) => BlockedOn(d, v)'
    BY <1>4 DEF BlockedOn
  <2>4. QED
    BY <2>1, <2>2, <2>3, CallbackFrame
<1>10. StopInv'
  <2>1. StopsAnnounced(b, w)'
    BY <1>1, <1>3 DEF StopsAnnounced, Stopping
  <2>2. ASSUME NEW a \in Blue, a # b, NEW v \in Worker, worker_collection'[a] = v
        PROVE  worker_collection[a] = v /\ v # w
    BY <1>2, <1>5, <2>2 DEF WorkerInv
  <2>3. \A a \in Blue : PopsStay(a)
    BY <1>4 DEF PopsStay, AboutToPop, AwaitsStop
  <2>4. QED
    BY <1>3, <1>5, <2>1, <2>2, <2>3, StopFrame
<1>11. TypeOK'
  BY <1>3, <1>4, <1>5 DEF TypeOK
<1>12. QED
  BY <1>7, <1>8, <1>9, <1>10, <1>11

\* A worker whose queue gets one more message.
LEMMA AppendFact ==
    ASSUME NEW r \in BlueprintWorker, NEW m \in WorkerMessage
    PROVE  LET s == [r EXCEPT !.message_queue = Append(@, m)]
           IN  /\ s \in BlueprintWorker
               /\ s.state = r.state /\ s.blueprint = r.blueprint
               /\ s.received = r.received
               /\ s.message_queue = Append(r.message_queue, m)
  BY DEF BlueprintWorker

\* A message m is appended to the queue of the worker that thread c holds: the
\* thread blocks on it, or the message carries no callback.
LEMMA QueueFrame ==
    ASSUME IInv, NEW c \in Client, thread[c].state \in {"put0", "got"},
           NEW h \in Worker, thread[c].handle = h,
           NEW b \in Blue, thread[c].target = b,
           NEW m \in WorkerMessage, NEW t \in Thread, Continue(c, t), Holds(t),
           Becomes(h, [worker[h] EXCEPT !.message_queue = Append(@, m)]),
           m.callback # NoClient => /\ m.callback = c
                                    /\ t.state = "wait"
                                    /\ t.answer = "none"
                                    /\ t.handle = h,
           m.type = "STOP" => \/ AboutToPop(t, b)
                              \/ m.callback = c /\ AwaitsStop(t, b),
           UNCHANGED <<db, infra, stray, used, worker_collection, requests, crashes>>
    PROVE  IInv'
<1> USE DEF IInv
<1>1. /\ worker[h] \in BlueprintWorker /\ worker[h].state # "unborn"
      /\ worker[h].blueprint = b
  BY DEF HoldsInv, Holds, TypeOK
<1>2. PICK r \in BlueprintWorker :
         /\ Becomes(h, r)
         /\ r.state = worker[h].state /\ r.blueprint = worker[h].blueprint
         /\ r.received = worker[h].received
         /\ r.message_queue = Append(worker[h].message_queue, m)
  <2> DEFINE s == [worker[h] EXCEPT !.message_queue = Append(@, m)]
  <2>1. /\ s \in BlueprintWorker
        /\ s.state = worker[h].state /\ s.blueprint = worker[h].blueprint
        /\ s.received = worker[h].received
        /\ s.message_queue = Append(worker[h].message_queue, m)
    BY <1>1, AppendFact
  <2>2. Becomes(h, s)
    OBVIOUS
  <2> HIDE DEF s
  <2>3. QED
    BY <2>1, <2>2
<1>3. /\ worker' \in [Worker -> BlueprintWorker]
      /\ worker'[h] = r
      /\ \A v \in Worker : v # h => worker'[v] = worker[v]
  BY <1>2, BecomesFact
<1>4. /\ thread' \in [Client -> Thread]
      /\ thread'[c] = t
      /\ \A d \in Client : d # c => thread'[d] = thread[d]
  BY ContinueFact
<1>5. PICK q \in Seq(WorkerMessage) :
         /\ worker[h].message_queue = q
         /\ \A i \in 1..Len(q) : q[i] \in WorkerMessage
  BY QueueTypes
<1>6. /\ worker'[h].message_queue = Append(q, m)
      /\ Len(q) \in Nat
      /\ Len(Append(q, m)) = Len(q) + 1
      /\ Append(q, m)[Len(q) + 1] = m
      /\ \A i \in 1..Len(q) : Append(q, m)[i] = q[i]
  BY <1>2, <1>3, <1>5
<1>7. /\ worker'[h].state = worker[h].state
      /\ worker'[h].received = worker[h].received
  BY <1>2, <1>3
<1>8. WorkersStay
  BY <1>1, <1>2, <1>3 DEF WorkersStay
<1>9. HoldsInv'
  <2>1. Holds(thread[c])'
    BY <1>4, <1>8 DEF Holds, WorkersStay
  <2>2. QED
    BY <1>4, <1>8, <2>1, HoldsFrame
<1>10. WorkerInv'
  BY <1>1, <1>2, <1>3, <1>8, WorkerFrame
<1>11. CallbackReachesItsCaller'
  <2>1. \A v \in Worker, d \in Client : BlockedOn(d, v) => d # c /\ BlockedOn(d, v)'
    BY <1>4 DEF BlockedOn
  <2>2. \A v \in Worker : v # h =>
           /\ worker'[v].message_queue = worker[v].message_queue
           /\ Owes(v)' => Owes(v) /\ worker'[v].received = worker[v].received
    BY <1>3 DEF Owes
  <2>3. HoldsCallbacks(h) /\ (Owes(h)' <=> Owes(h))
    BY <1>7 DEF CallbackReachesItsCaller, Owes
  <2>4. ASSUME NEW i \in 1..Len(q), q[i].callback # NoClient
        PROVE  /\ q[i].callback # c
               /\ BlockedOn(q[i].callback, h)'
               /\ \A j \in 1..Len(q) : q[j].callback = q[i].callback => i = j
               /\ ~(Owes(h) /\ worker[h].received.callback = q[i].callback)
    <3>1. q[i].callback \in Client
      BY <1>5, <2>4 DEF WorkerMessage
    <3>2. BlockedOn(q[i].callback, h)
      BY <1>5, <2>3, <2>4 DEF HoldsCallbacks
    <3>3. QED
      BY <1>5, <2>1, <2>3, <2>4, <3>1, <3>2 DEF HoldsCallbacks
  <2>5. ASSUME Owes(h), worker[h].received.callback # NoClient
        PROVE  /\ worker[h].received.callback # c
               /\ BlockedOn(worker[h].received.callback, h)
               /\ worker[h].received.callback \in Client
    <3>1. worker[h].received.callback \in Client
      BY <2>5, QueueTypes DEF WorkerMessage
    <3>2. BlockedOn(worker[h].received.callback, h)
      BY <2>3, <2>5 DEF HoldsCallbacks
    <3>3. QED
      BY <2>1, <3>1, <3>2
  <2>6. m.callback # NoClient => m.callback = c /\ BlockedOn(c, h)'
    BY <1>4 DEF BlockedOn
  <2>7. ASSUME NEW i \in 1..Len(q) + 1, Append(q, m)[i].callback # NoClient
        PROVE  /\ BlockedOn(Append(q, m)[i].callback, h)'
               /\ \A j \in 1..Len(q) + 1 :
                     Append(q, m)[j].callback = Append(q, m)[i].callback => i = j
               /\ ~(Owes(h) /\ worker[h].received.callback = Append(q, m)[i].callback)
    <3>1. CASE i = Len(q) + 1
      BY <1>6, <2>4, <2>5, <2>6, <2>7, <3>1
    <3>2. CASE i \in 1..Len(q)
      BY <1>6, <2>4, <2>6, <2>7, <3>2
    <3>3. QED
      BY <1>6, <3>1, <3>2
  <2>8. Owes(h)' /\ worker'[h].received.callback # NoClient
           => BlockedOn(worker[h].received.callback, h)'
    <3> SUFFICES ASSUME Owes(h)', worker'[h].received.callback # NoClient
                 PROVE  BlockedOn(worker[h].received.callback, h)'
      OBVIOUS
    <3>1. PICK d \in Client : d = worker[h].received.callback /\ BlockedOn(d, h)
      BY <1>7, <2>3, <2>5
    <3>2. BlockedOn(d, h)'
      BY <2>1, <3>1
    <3>3. QED
      BY <1>7, <3>1, <3>2
  <2>9. HoldsCallbacks(h)'
    BY <1>6, <1>7, <2>3, <2>7, <2>8 DEF HoldsCallbacks
  <2>10. QED
    BY <2>1, <2>2, <2>9, CallbackFrame
<1>12. StopInv'
  <2>1. \A a \in Blue : PopsStay(a)
    BY <1>4 DEF PopsStay, AboutToPop, AwaitsStop
  <2>2. ASSUME NEW a \in Blue, worker_collection[a] = h
        PROVE  StopsAnnounced(a, h)'
    <3>1. StopsAnnounced(a, h) /\ a = b
      BY <1>1, <2>2 DEF StopInv, WorkerInv
    <3>2. ASSUME NEW d PROVE PopFollows(b, d) => PopFollows(b, d)'
      BY <2>1 DEF PopFollows, PopsStay
    <3>3. (\E d \in Client : AboutToPop(thread[d], b))
             => (\E d \in Client : AboutToPop(thread[d], b))'
      BY <2>1 DEF PopsStay
    <3>4. m.type = "STOP" => PopFollows(b, m.callback)'
      BY <1>4 DEF PopFollows
    <3>5. ASSUME NEW i \in 1..Len(q) + 1, Append(q, m)[i].type = "STOP"
          PROVE  PopFollows(b, Append(q, m)[i].callback)'
      <4>1. CASE i = Len(q) + 1
        BY <1>6, <3>4, <3>5, <4>1
      <4>2. CASE i \in 1..Len(q)
        <5>1. PopFollows(b, q[i].callback)
          BY <1>5, <1>6, <3>1, <3>5, <4>2 DEF StopsAnnounced
        <5>2. QED
          BY <1>6, <3>2, <4>2, <5>1
      <4>3. QED
        BY <1>6, <4>1, <4>2
    <3>6. QED
      BY <1>6, <1>7, <3>1, <3>2, <3>3, <3>5 DEF StopsAnnounced
  <2>3. QED
    BY <1>3, <2>1, <2>2, StopFrame
<1>13. TypeOK'
  BY <1>3, <1>4 DEF TypeOK
<1>14. QED
  BY <1>9, <1>10, <1>11, <1>12, <1>13

\* put_message by a thread that holds a worker, blocking or going on as next says.
LEMMA PutFrame ==
    ASSUME IInv, NEW c \in Client, thread[c].state \in {"put0", "got"},
           NEW type \in MessageType, NEW next \in Thread, Holds(next),
           put_message(c, type, next),
           type = "STOP" => /\ thread[c].request \in DeleteRequests
                            /\ AboutToPop(next, thread[c].target),
           UNCHANGED <<db, infra, stray, used, worker_collection, requests, crashes>>
    PROVE  IInv'
<1>1. /\ thread[c] \in Thread
      /\ Holds(thread[c])
  BY DEF IInv, TypeOK, HoldsInv
<1>2. PICK h \in Worker, b \in Blue : thread[c].handle = h /\ thread[c].target = b
  BY <1>1 DEF Holds
<1>3. CASE Waits(thread[c].request)
  <2> DEFINE m == [type |-> type, callback |-> c]
             t == [thread[c] EXCEPT !.state = "wait"]
  <2>1. m \in WorkerMessage /\ m.type = type /\ m.callback = c
    BY DEF WorkerMessage
  <2>2. /\ t \in Thread /\ t.state = "wait" /\ t.target = b /\ t.handle = h
        /\ t.request = thread[c].request /\ t.answer = thread[c].answer
    BY <1>1, <1>2 DEF Thread, ThreadState
  <2>3. /\ Becomes(h, [worker[h] EXCEPT !.message_queue = Append(@, m)])
        /\ Continue(c, t)
    BY <1>2, <1>3 DEF put_message
  <2> HIDE DEF m, t
  <2>4. Holds(t) /\ t.answer = "none"
    BY <1>1, <1>2, <2>2 DEF Holds
  <2>5. m.type = "STOP" => AwaitsStop(t, b)
    BY <1>2, <2>1, <2>2 DEF AwaitsStop
  <2>6. QED
    BY <1>2, <2>1, <2>2, <2>3, <2>4, <2>5, QueueFrame
<1>4. CASE ~Waits(thread[c].request)
  <2> DEFINE m == [type |-> type, callback |-> NoClient]
  <2>1. m \in WorkerMessage /\ m.type = type /\ m.callback = NoClient
    BY DEF WorkerMessage
  <2>2. /\ Becomes(h, [worker[h] EXCEPT !.message_queue = Append(@, m)])
        /\ Continue(c, next)
    BY <1>2, <1>4 DEF put_message
  <2> HIDE DEF m
  <2>3. QED
    BY <1>2, <2>1, <2>2, QueueFrame
<1>5. QED
  BY <1>3, <1>4

\* callback_function fills namespace["msg"] of the thread and nothing else.
LEMMA AnswerFact ==
    ASSUME TypeOK, NEW c \in Client, NEW status \in {"OK", "ERROR"},
           Continue(c, [thread[c] EXCEPT !.answer = status])
    PROVE  /\ thread' \in [Client -> Thread]
           /\ \A d \in Client : d # c => thread'[d] = thread[d]
           /\ thread'[c].answer = status
           /\ thread'[c].state = thread[c].state
           /\ thread'[c].request = thread[c].request
           /\ thread'[c].target = thread[c].target
           /\ thread'[c].handle = thread[c].handle
<1> DEFINE t == [thread[c] EXCEPT !.answer = status]
<1>1. thread[c] \in Thread
  BY DEF TypeOK
<1>2. /\ t \in Thread /\ t.answer = status /\ t.state = thread[c].state
      /\ t.request = thread[c].request /\ t.target = thread[c].target
      /\ t.handle = thread[c].handle
  BY <1>1 DEF Thread
<1> HIDE DEF t
<1>3. Continue(c, t)
  BY DEF t
<1>4. QED
  BY <1>2, <1>3, ContinueFact

\* A worker goes on without touching its queue; it answers nobody, or the thread
\* whose callback it holds, which it owes that answer or answers a second time.
LEMMA ListenFrame ==
    ASSUME IInv, NEW w \in Worker, NEW r \in BlueprintWorker, Becomes(w, r),
           worker[w].state # "unborn", r.state # "unborn",
           r.blueprint = worker[w].blueprint,
           r.message_queue = worker[w].message_queue,
           r.state \in Owing => /\ worker[w].state \in Owing
                                /\ r.received = worker[w].received,
           r.state \in Stopping => worker[w].state \in Stopping,
           r.state = "stopped" => worker[w].state = "destroyed",
           NEW client, client = worker[w].received.callback,
           \/ /\ UNCHANGED thread
              /\ r.state = "stopped" => client = NoClient
           \/ /\ client \in Client
              /\ \E status \in {"OK", "ERROR"} :
                    Continue(client, [thread[client] EXCEPT !.answer = status])
              /\ thread[client].state = "wait"
              /\ \/ Owes(w) /\ r.state \notin Owing
                 \/ thread[client].answer # "none",
           UNCHANGED worker_collection
    PROVE  /\ worker' \in [Worker -> BlueprintWorker]
           /\ thread' \in [Client -> Thread]
           /\ HoldsInv' /\ WorkerInv' /\ CallbackReachesItsCaller' /\ StopInv'
<1> USE DEF IInv
<1>1. /\ worker' \in [Worker -> BlueprintWorker]
      /\ worker'[w] = r
      /\ \A v \in Worker : v # w => worker'[v] = worker[v]
  BY BecomesFact
<1> DEFINE Answers ==
        /\ thread' \in [Client -> Thread]
        /\ \A d \in Client : /\ thread'[d].state = thread[d].state
                             /\ thread'[d].request = thread[d].request
                             /\ thread'[d].target = thread[d].target
                             /\ thread'[d].handle = thread[d].handle
                             /\ \/ thread'[d] = thread[d]
                                \/ /\ d = client
                                   /\ thread'[d].answer # "none"
                                   /\ thread[d].state = "wait"
<1>2. Answers
  <2>1. CASE UNCHANGED thread
    BY <2>1 DEF TypeOK
  <2>2. ASSUME client \in Client, thread[client].state = "wait",
               NEW status \in {"OK", "ERROR"},
               Continue(client, [thread[client] EXCEPT !.answer = status])
        PROVE  Answers
    BY <2>2, AnswerFact
  <2>3. QED
    BY <2>1, <2>2
<1>3. WorkersStay
  BY <1>1 DEF WorkersStay
<1>4. HoldsInv'
  <2>1. ASSUME NEW d \in Client PROVE Holds(thread[d])'
    <3>1. Holds(thread[d])
      BY DEF HoldsInv
    <3>2. QED
      BY <1>2, <1>3, <3>1 DEF Holds, WorkersStay
  <2>2. QED
    BY <2>1 DEF HoldsInv
<1>5. WorkerInv'
  <2>1. r.blueprint \in Blue
    BY DEF WorkerInv
  <2>2. QED
    BY <1>1, <1>3, <2>1, WorkerFrame
<1>6. \A v \in Worker : /\ worker'[v].message_queue = worker[v].message_queue
                        /\ Owes(v)' => /\ Owes(v)
                                       /\ worker'[v].received = worker[v].received
  BY <1>1 DEF Owes
<1>7. CallbackReachesItsCaller'
  <2>1. ASSUME NEW v \in Worker, NEW d \in Client, BlockedOn(d, v), Referenced(d, v)',
               d = client, Owes(w), r.state \notin Owing
        PROVE  FALSE
    <3>1. HoldsCallbacks(w) /\ client # NoClient
      BY <2>1, NullAssumption DEF CallbackReachesItsCaller
    <3>2. BlockedOn(d, w)
      BY <2>1, <3>1 DEF HoldsCallbacks
    <3>3. v = w
      BY <2>1, <3>2 DEF BlockedOn
    <3>4. ~Owes(w)'
      BY <1>1, <2>1 DEF Owes
    <3>5. PICK i \in 1..Len(worker[w].message_queue) :
             worker[w].message_queue[i].callback = d
      BY <1>6, <2>1, <3>3, <3>4 DEF Referenced
    <3>6. QED
      BY <2>1, <3>1, <3>5 DEF HoldsCallbacks
  <2>2. ASSUME NEW v \in Worker, NEW d \in Client, BlockedOn(d, v), Referenced(d, v)'
        PROVE  BlockedOn(d, v)'
    <3>1. CASE thread'[d] = thread[d]
      BY <2>2, <3>1 DEF BlockedOn
    <3>2. CASE d = client /\ Owes(w) /\ r.state \notin Owing
      BY <2>1, <2>2, <3>2
    <3>3. CASE d = client /\ thread[client].answer # "none"
      BY <2>2, <3>3 DEF BlockedOn
    <3>4. QED
      BY <1>2, <3>1, <3>2, <3>3
  <2>3. QED
    BY <1>6, <2>2, CallbackFrame
<1>8. StopInv'
  <2>1. \A b \in Blue : PopsStay(b)
    BY <1>2 DEF PopsStay, AboutToPop, AwaitsStop
  <2>2. ASSUME NEW b \in Blue, worker_collection[b] = w, r.state = "stopped"
        PROVE  StopsAnnounced(b, w)'
    <3>1. StopsAnnounced(b, w) /\ PopFollows(b, client)
      BY <2>2 DEF StopInv, StopsAnnounced, Stopping
    <3>2. (\E d \in Client : AboutToPop(thread[d], b))'
      <4>1. CASE \E d \in Client : AboutToPop(thread[d], b)
        BY <2>1, <4>1 DEF PopsStay
      <4>2. CASE client \in Client /\ AwaitsStop(thread[client], b)
        <5>1. thread'[client].answer # "none"
          <6>1. PICK status \in {"OK", "ERROR"} :
                   Continue(client, [thread[client] EXCEPT !.answer = status])
            BY <2>2, <4>2, NullAssumption
          <6>2. thread'[client].answer = status
            BY <4>2, <6>1, AnswerFact
          <6>3. QED
            BY <6>2
        <5>2. AboutToPop(thread[client], b)'
          BY <1>2, <4>2, <5>1 DEF AwaitsStop, AboutToPop
        <5>3. QED
          BY <4>2, <5>2
      <4>3. QED
        BY <3>1, <4>1, <4>2 DEF PopFollows
    <3>3. ASSUME NEW d PROVE PopFollows(b, d) => PopFollows(b, d)'
      BY <2>1 DEF PopFollows, PopsStay
    <3>4. QED
      BY <1>1, <2>2, <3>1, <3>2, <3>3 DEF StopsAnnounced, Stopping
  <2>3. r.state \in Stopping => r.received = worker[w].received
    BY DEF Stopping, Owing
  <2>4. QED
    BY <1>1, <2>1, <2>2, <2>3, StopFrame
<1>9. QED
  BY <1>1, <1>2, <1>4, <1>5, <1>7, <1>8

\* The worker a message turns w into, with the fields the invariant looks at.
LEMMA ReceiveFact ==
    ASSUME TypeOK, NEW w \in Worker, receive(w)
    PROVE  LET q == worker[w].message_queue IN
           \E r \in BlueprintWorker :
               /\ Becomes(w, r)
               /\ r.state = IF Head(q).type = "STOP" THEN "destroying" ELSE "started"
               /\ r.blueprint = worker[w].blueprint
               /\ r.message_queue = Tail(q)
               /\ r.received = Head(q)
<1> DEFINE q    == worker[w].message_queue
           m    == Head(q)
           blue == [worker[w].base_model EXCEPT
                       !.operation = StartedStatus(m.type), !.error = FALSE]
           r    == [worker[w] EXCEPT
                       !.state = IF m.type = "STOP" THEN "destroying" ELSE "started",
                       !.received = m,
                       !.message_queue = Tail(@),
                       !.base_model = blue,
                       !.buffer = IF m.type = "STOP" THEN @ ELSE blue]
<1>1. worker[w] \in BlueprintWorker
  BY DEF TypeOK
<1>2. q \in Seq(WorkerMessage) /\ worker[w].base_model \in Record
  BY <1>1 DEF BlueprintWorker
<1>3. m \in WorkerMessage /\ Tail(q) \in Seq(WorkerMessage)
  BY <1>2 DEF receive
<1>4. StartedStatus(m.type) \in CurrentOperation
  BY <1>3 DEF StartedStatus, WorkerMessage, MessageType, CurrentOperation
<1>5. blue \in Record
  BY <1>2, <1>4 DEF Record
<1>6. Becomes(w, r)
  BY DEF receive
<1> HIDE DEF m, blue
<1>7. /\ r \in BlueprintWorker
      /\ r.state = IF m.type = "STOP" THEN "destroying" ELSE "started"
      /\ r.blueprint = worker[w].blueprint
      /\ r.message_queue = Tail(q)
      /\ r.received = m
  BY <1>1, <1>3, <1>5 DEF BlueprintWorker, WorkerState
<1> HIDE DEF r, q
<1>8. QED
  BY <1>6, <1>7 DEF m, q

\* A worker takes the first message of its queue.
LEMMA ReceiveKeeps ==
    ASSUME IInv, NEW w \in Worker, receive(w)
    PROVE  IInv'
<1> USE DEF IInv
<1>1. PICK q \in Seq(WorkerMessage) :
         /\ worker[w].message_queue = q
         /\ \A i \in 1..Len(q) : q[i] \in WorkerMessage
  BY QueueTypes
<1>2. PICK r \in BlueprintWorker :
         /\ Becomes(w, r)
         /\ r.state = IF Head(q).type = "STOP" THEN "destroying" ELSE "started"
         /\ r.blueprint = worker[w].blueprint
         /\ r.message_queue = Tail(q)
         /\ r.received = Head(q)
  BY <1>1, ReceiveFact
<1>3. /\ worker' \in [Worker -> BlueprintWorker]
      /\ worker'[w] = r
      /\ \A v \in Worker : v # w => worker'[v] = worker[v]
  BY <1>2, BecomesFact
<1>4. /\ worker[w].state = "idle"
      /\ UNCHANGED <<db, infra, stray, used, worker_collection, thread, requests, crashes>>
  BY DEF receive, storeVars
<1>5. /\ Len(q) \in Nat /\ Len(q) > 0
      /\ Head(q) = q[1]
      /\ Len(Tail(q)) = Len(q) - 1
      /\ \A i \in 1..Len(q) - 1 : Tail(q)[i] = q[i + 1]
  BY <1>1 DEF receive
<1>6. WorkersStay
  BY <1>2, <1>3, <1>4 DEF WorkersStay
<1>7. HoldsInv'
  BY <1>4, <1>6, HoldsFrame
<1>8. WorkerInv'
  <2>1. r.blueprint \in Blue /\ r.state # "unborn"
    BY <1>2, <1>4 DEF WorkerInv
  <2>2. QED
    BY <1>3, <1>4, <1>6, <2>1, WorkerFrame
<1>9. CallbackReachesItsCaller'
  <2>1. HoldsCallbacks(w)
    BY DEF CallbackReachesItsCaller
  <2>2. \A v \in Worker, d \in Client : BlockedOn(d, v) => BlockedOn(d, v)'
    BY <1>4 DEF BlockedOn
  <2>3. ASSUME NEW i \in 1..Len(q), q[i].callback # NoClient
        PROVE  /\ BlockedOn(q[i].callback, w)'
               /\ \A j \in 1..Len(q) : q[j].callback = q[i].callback => i = j
    <3>1. q[i].callback \in Client
      BY <1>1, <2>3 DEF WorkerMessage
    <3>2. BlockedOn(q[i].callback, w)
      BY <1>1, <2>1, <2>3 DEF HoldsCallbacks
    <3>3. QED
      BY <1>1, <2>1, <2>2, <2>3, <3>1, <3>2 DEF HoldsCallbacks
  <2>4. ASSUME NEW i \in 1..Len(q) - 1, Tail(q)[i].callback # NoClient
        PROVE  /\ BlockedOn(Tail(q)[i].callback, w)'
               /\ \A j \in 1..Len(q) - 1 :
                     Tail(q)[j].callback = Tail(q)[i].callback => i = j
               /\ q[1].callback # Tail(q)[i].callback
    <3>1. /\ i + 1 \in 1..Len(q) /\ 1 \in 1..Len(q) /\ i + 1 # 1
          /\ Tail(q)[i] = q[i + 1]
      BY <1>5
    <3>2. /\ BlockedOn(q[i + 1].callback, w)'
          /\ \A j \in 1..Len(q) : q[j].callback = q[i + 1].callback => i + 1 = j
      BY <2>3, <2>4, <3>1
    <3>3. ASSUME NEW j \in 1..Len(q) - 1, Tail(q)[j].callback = Tail(q)[i].callback
          PROVE  i = j
      <4>1. j + 1 \in 1..Len(q) /\ Tail(q)[j] = q[j + 1]
        BY <1>5
      <4>2. i + 1 = j + 1
        BY <3>1, <3>2, <3>3, <4>1
      <4>3. QED
        BY <4>2
    <3>4. QED
      BY <3>1, <3>2, <3>3
  <2>5. q[1].callback # NoClient => BlockedOn(q[1].callback, w)'
    BY <1>5, <2>3
  <2>6. /\ worker'[w].message_queue = Tail(q)
        /\ worker'[w].received = q[1]
    BY <1>2, <1>3, <1>5
  <2>7. HoldsCallbacks(w)'
    BY <1>5, <2>4, <2>5, <2>6 DEF HoldsCallbacks
  <2>8. \A v \in Worker : v # w =>
           /\ worker'[v].message_queue = worker[v].message_queue
           /\ Owes(v)' => Owes(v) /\ worker'[v].received = worker[v].received
    BY <1>3 DEF Owes
  <2>9. QED
    BY <2>2, <2>7, <2>8, CallbackFrame
<1>10. StopInv'
  <2>1. \A b \in Blue : PopsStay(b)
    BY <1>4 DEF PopsStay, AboutToPop, AwaitsStop
  <2>2. ASSUME NEW b \in Blue, worker_collection[b] = w
        PROVE  StopsAnnounced(b, w)'
    <3>1. StopsAnnounced(b, w)
      BY <2>2 DEF StopInv
    <3>2. ASSUME NEW i \in 1..Len(q), q[i].type = "STOP"
          PROVE  PopFollows(b, q[i].callback)'
      <4>1. PopFollows(b, q[i].callback)
        BY <1>1, <3>1, <3>2 DEF StopsAnnounced
      <4>2. QED
        BY <1>4, <4>1 DEF PopFollows, AboutToPop, AwaitsStop
    <3>3. ASSUME NEW i \in 1..Len(q) - 1, Tail(q)[i].type = "STOP"
          PROVE  PopFollows(b, Tail(q)[i].callback)'
      <4>1. i + 1 \in 1..Len(q) /\ Tail(q)[i] = q[i + 1]
        BY <1>5
      <4>2. QED
        BY <3>2, <3>3, <4>1
    <3>4. /\ worker'[w].message_queue = Tail(q)
          /\ worker'[w].received = q[1]
          /\ worker'[w].state \in Stopping => q[1].type = "STOP"
          /\ worker'[w].state # "stopped"
      BY <1>2, <1>3, <1>5 DEF Stopping
    <3>5. worker'[w].state \in Stopping => PopFollows(b, q[1].callback)'
      BY <1>5, <3>2, <3>4
    <3>6. QED
      BY <1>5, <3>3, <3>4, <3>5 DEF StopsAnnounced
  <2>3. QED
    BY <1>3, <1>4, <2>1, <2>2, StopFrame
<1>11. TypeOK'
  BY <1>3, <1>4 DEF TypeOK
<1>12. QED
  BY <1>7, <1>8, <1>9, <1>10, <1>11

-----------------------------------------------------------------------------
(***************************************************************************)
(* The steps of the specification.                                         *)
(***************************************************************************)

\* A request that arrives.
LEMMA CallerStepKeeps ==
    ASSUME IInv, NEW c \in Client, CallerStep(c)
    PROVE  IInv'
<1> USE ConstantTypes
<1>1. ASSUME NEW r \in CreateRequests, NEW b \in Blue, create_blueprint(c, r, b)
      PROVE  IInv'
  <2> DEFINE t == [Free EXCEPT !.state = "created", !.request = r, !.target = b]
  <2>1. r \in RestRequests \cup OwnerRequests
    BY DEF CreateRequests, RestRequests, OwnerRequests
  <2>2. t \in Thread /\ t.state = "created" /\ t.target = b /\ t.answer = "none"
    BY <2>1 DEF Free, Thread, ThreadState
  <2>3. Continue(c, t) /\ thread[c].state = "idle"
        /\ UNCHANGED <<worker, worker_collection>>
    BY <1>1 DEF create_blueprint
  <2> HIDE DEF t
  <2>4. Holds(t)
    BY <2>2 DEF Holds
  <2>5. \A a \in Blue : ~AboutToPop(thread[c], a) /\ ~AwaitsStop(thread[c], a)
    BY <2>3 DEF AboutToPop, AwaitsStop
  <2>6. /\ thread' \in [Client -> Thread]
        /\ HoldsInv' /\ WorkerInv' /\ CallbackReachesItsCaller' /\ StopInv'
    BY <2>2, <2>3, <2>4, <2>5, CallerFrame
  <2>7. TypeOK'
    BY <1>1, <2>6, BoundAssumption DEF IInv, TypeOK, create_blueprint, Arrives
  <2>8. QED
    BY <2>6, <2>7 DEF IInv
<1>2. ASSUME NEW r \in RestRequests \cup OwnerRequests, NEW b \in Blue,
             begin_request(c, r, b)
      PROVE  IInv'
  <2> DEFINE t == [Free EXCEPT !.state = "lookup", !.request = r, !.target = b]
  <2>1. t \in Thread /\ t.state = "lookup" /\ t.target = b /\ t.answer = "none"
    BY DEF Free, Thread, ThreadState
  <2>2. Continue(c, t) /\ thread[c].state = "idle"
        /\ UNCHANGED <<db, infra, stray, used, worker_collection, worker, crashes>>
    BY <1>2 DEF begin_request, storeVars
  <2> HIDE DEF t
  <2>3. Holds(t)
    BY <2>1 DEF Holds
  <2>4. requests' \in 0..MaxRequests
    BY <1>2, BoundAssumption DEF IInv, TypeOK, begin_request, Arrives
  <2>5. QED
    BY <2>1, <2>2, <2>3, <2>4, CallerOnly
<1>3. ASSUME begin_delete_all(c)
      PROVE  IInv'
  <2> DEFINE s == {b \in Blue : db[b] # NoRecord}
             t == [Free EXCEPT !.state = "next", !.request = "delete_all", !.todo = s]
  <2>1. Continue(c, t) /\ thread[c].state = "idle"
        /\ UNCHANGED <<db, infra, stray, used, worker_collection, worker, crashes>>
    BY <1>3 DEF begin_delete_all, storeVars
  <2>2. s \in SUBSET Blue
    OBVIOUS
  <2> HIDE DEF s
  <2>3. t \in Thread /\ t.state = "next" /\ t.answer = "none"
    BY <2>2 DEF Free, Thread, ThreadState, RestRequests
  <2> HIDE DEF t
  <2>4. Holds(t)
    BY <2>3 DEF Holds
  <2>5. requests' \in 0..MaxRequests
    BY <1>3, BoundAssumption DEF IInv, TypeOK, begin_delete_all, Arrives
  <2>6. QED
    BY <2>1, <2>3, <2>4, <2>5, CallerOnly
<1>4. QED
  BY <1>1, <1>2, <1>3 DEF CallerStep

\* EndRequest and EndDelete leave the thread holding nothing.
LEMMA EndFact ==
    ASSUME TypeOK, NEW c \in Client, EndRequest(c) \/ EndDelete(c)
    PROVE  \E t \in Thread : Continue(c, t) /\ Holds(t)
<1> USE ConstantTypes
<1>1. Holds(Free)
  BY DEF Holds, Free
<1>2. CASE Continue(c, Free)
  BY <1>1, <1>2
<1>3. CASE Continue(c, [Free EXCEPT !.state = "next", !.request = "delete_all",
                                    !.todo = thread[c].todo])
  <2> DEFINE t == [Free EXCEPT !.state = "next", !.request = "delete_all",
                               !.todo = thread[c].todo]
  <2>1. thread[c].todo \in SUBSET Blue
    BY DEF TypeOK, Thread
  <2>2. t \in Thread /\ t.state = "next" /\ t.answer = "none"
    BY <2>1 DEF Free, Thread, ThreadState, RestRequests
  <2>3. Continue(c, t)
    BY <1>3
  <2> HIDE DEF t
  <2>4. Holds(t)
    BY <2>2 DEF Holds
  <2>5. QED
    BY <2>2, <2>3, <2>4
<1>4. QED
  BY <1>2, <1>3 DEF EndRequest, EndDelete

\* The steps of a thread inside create_blueprint, delete_all_blueprints, get_worker,
\* delete_blueprint and protect_blueprint that neither queue a message nor start a
\* worker.
LEMMA LookupKeeps ==
    ASSUME IInv, NEW c \in Client,
           \/ next_delete(c) \/ get_worker_loaded(c) \/ get_worker_from_db(c)
           \/ delete_refused(c) \/ create_worker_raises(c)
    PROVE  IInv'
<1>1. thread[c] \in Thread /\ Holds(thread[c])
  BY DEF IInv, TypeOK, HoldsInv
<1>2. /\ UNCHANGED <<db, infra, stray, used, worker_collection, worker, crashes>>
      /\ requests' \in 0..MaxRequests
      /\ thread[c].state \notin {"wait", "pop"}
  BY DEF IInv, TypeOK, next_delete, get_worker_loaded, get_worker_from_db,
         delete_refused, create_worker_raises, storeVars
<1>3. \E t \in Thread : Continue(c, t) /\ Holds(t)
  <2>1. CASE EndRequest(c) \/ EndDelete(c)
    BY <2>1, EndFact DEF IInv
  <2>2. ASSUME NEW b \in thread[c].todo, thread[c].state = "next",
               Continue(c, [thread[c] EXCEPT !.state = "lookup", !.target = b,
                                             !.todo = @ \ {b}])
        PROVE  \E t \in Thread : Continue(c, t) /\ Holds(t)
    <3> DEFINE t == [thread[c] EXCEPT !.state = "lookup", !.target = b,
                                      !.todo = @ \ {b}]
    <3>1. /\ t \in Thread /\ t.state = "lookup" /\ t.target = b /\ b \in Blue
          /\ t.answer = thread[c].answer
      BY <1>1 DEF Thread, ThreadState
    <3>2. Holds(t)
      BY <1>1, <2>2, <3>1 DEF Holds
    <3>3. QED
      BY <2>2, <3>1, <3>2
  <2>3. CASE get_worker_loaded(c)
    <3> DEFINE h == worker_collection[thread[c].target]
               t == [thread[c] EXCEPT !.state = "got", !.handle = h]
    <3>1. thread[c].state = "lookup" /\ h # NoWorker /\ Continue(c, t)
      BY <2>3 DEF get_worker_loaded
    <3>2. thread[c].target \in Blue /\ h \in Worker
      BY <1>1, <3>1 DEF Holds, IInv, TypeOK
    <3>3. worker[h].state # "unborn" /\ worker[h].blueprint = thread[c].target
      BY <3>2 DEF IInv, WorkerInv
    <3> HIDE DEF h
    <3>4. /\ t \in Thread /\ t.state = "got" /\ t.handle = h
          /\ t.target = thread[c].target /\ t.answer = thread[c].answer
      BY <1>1, <3>2 DEF Thread, ThreadState
    <3> HIDE DEF t
    <3>5. Holds(t)
      BY <1>1, <3>1, <3>2, <3>3, <3>4 DEF Holds
    <3>6. QED
      BY <3>1, <3>4, <3>5
  <2>4. ASSUME thread[c].state = "lookup", db[thread[c].target] # NoRecord,
               Continue(c, [thread[c] EXCEPT !.state = "loaded",
                                             !.buffer = db[thread[c].target]])
        PROVE  \E t \in Thread : Continue(c, t) /\ Holds(t)
    <3> DEFINE m == db[thread[c].target]
               t == [thread[c] EXCEPT !.state = "loaded", !.buffer = m]
    <3>1. thread[c].target \in Blue /\ m \in Record
      BY <1>1, <2>4 DEF Holds, IInv, TypeOK
    <3> HIDE DEF m
    <3>2. /\ t \in Thread /\ t.state = "loaded"
          /\ t.target = thread[c].target /\ t.answer = thread[c].answer
      BY <1>1, <3>1 DEF Thread, ThreadState
    <3>3. Continue(c, t)
      BY <2>4 DEF m
    <3> HIDE DEF t
    <3>4. Holds(t)
      BY <1>1, <2>4, <3>1, <3>2 DEF Holds
    <3>5. QED
      BY <3>2, <3>3, <3>4
  <2>5. QED
    BY <2>1, <2>2, <2>3, <2>4 DEF next_delete, get_worker_from_db, delete_refused, create_worker_raises
<1>4. QED
  BY <1>2, <1>3, CallerOnly

\* create_blueprint and get_worker start a worker.
LEMMA StartKeeps ==
    ASSUME IInv, NEW c \in Client, NEW w \in Worker,
           create_worker(c, w) \/ get_worker_start(c, w)
    PROVE  IInv'
<1>1. thread[c] \in Thread /\ Holds(thread[c])
  BY DEF IInv, TypeOK, HoldsInv
<1>2. CASE create_worker(c, w)
  <2> DEFINE t == [thread[c] EXCEPT !.state = "put0", !.handle = w]
  <2>1. /\ thread[c].state = "created" /\ Continue(c, t)
        /\ StartWorker(w, thread[c].target, FreshRecord)
        /\ UNCHANGED <<db, infra, stray, used, requests, crashes>>
    BY <1>2 DEF create_worker, storeVars
  <2>2. /\ t \in Thread /\ t.state = "put0" /\ t.handle = w
        /\ t.target = thread[c].target /\ t.answer = thread[c].answer
    BY <1>1 DEF Thread, ThreadState
  <2> HIDE DEF t
  <2>3. thread[c].target \in Blue /\ thread[c].answer = "none"
    BY <1>1, <2>1 DEF Holds
  <2>4. QED
    BY <2>1, <2>2, <2>3, ConstantTypes, StartFrame
<1>3. CASE get_worker_start(c, w)
  <2> DEFINE t == [thread[c] EXCEPT !.state = "got", !.handle = w,
                                    !.buffer = FreshRecord]
  <2>1. /\ thread[c].state = "loaded" /\ Continue(c, t)
        /\ StartWorker(w, thread[c].target, thread[c].buffer)
        /\ UNCHANGED <<db, infra, stray, used, requests, crashes>>
    BY <1>3 DEF get_worker_start, storeVars
  <2>2. /\ t \in Thread /\ t.state = "got" /\ t.handle = w
        /\ t.target = thread[c].target /\ t.answer = thread[c].answer
    BY <1>1, ConstantTypes DEF Thread, ThreadState
  <2>3. thread[c].buffer \in Record
    BY <1>1 DEF Thread
  <2> HIDE DEF t
  <2>4. thread[c].target \in Blue /\ thread[c].answer = "none"
    BY <1>1, <2>1 DEF Holds
  <2>5. QED
    BY <2>1, <2>2, <2>3, <2>4, StartFrame
<1>4. QED
  BY <1>2, <1>3

\* The messages DAY0, DAY2 and STOP are queued.
LEMMA PutKeeps ==
    ASSUME IInv, NEW c \in Client, put_day0(c) \/ put_day2(c) \/ put_stop(c)
    PROVE  IInv'
<1>1. thread[c] \in Thread /\ Holds(thread[c]) /\ Free \in Thread /\ Holds(Free)
  BY ConstantTypes DEF IInv, TypeOK, HoldsInv, Holds, Free
<1>2. CASE put_day0(c)
  BY <1>1, <1>2, PutFrame DEF put_day0, MessageType, storeVars
<1>3. CASE put_day2(c)
  BY <1>1, <1>3, PutFrame DEF put_day2, MessageType, storeVars
<1>4. CASE put_stop(c)
  <2> DEFINE t == [thread[c] EXCEPT !.state = "pop"]
  <2>1. /\ thread[c].state = "got" /\ thread[c].request \in DeleteRequests
        /\ put_message(c, "STOP", t)
        /\ UNCHANGED <<db, infra, stray, used, worker_collection, requests, crashes>>
    BY <1>4 DEF put_stop, storeVars
  <2>2. t \in Thread /\ t.state = "pop" /\ t.target = thread[c].target
    BY <1>1 DEF Thread, ThreadState
  <2> HIDE DEF t
  <2>3. Holds(t) /\ AboutToPop(t, thread[c].target)
    BY <1>1, <2>1, <2>2 DEF Holds, AboutToPop
  <2>4. QED
    BY <2>1, <2>2, <2>3, PutFrame DEF MessageType
<1>5. QED
  BY <1>2, <1>3, <1>4

\* delete_blueprint pops the entry.
LEMMA PopKeeps ==
    ASSUME IInv, NEW c \in Client, pop_worker(c)
    PROVE  IInv'
<1>1. /\ thread[c].state = "pop" /\ thread[c].target \in Blue
      /\ UNCHANGED <<db, infra, stray, used, worker, requests, crashes>>
  BY DEF pop_worker, storeVars, IInv, HoldsInv, Holds
<1>2. PICK t \in Thread : Continue(c, t) /\ Holds(t)
  BY EndFact DEF IInv, pop_worker
<1>3. /\ worker_collection' \in [Blue -> Worker \cup {NoWorker}]
      /\ worker_collection'[thread[c].target] = NoWorker
      /\ \A b \in Blue : b # thread[c].target =>
            worker_collection'[b] = worker_collection[b]
  BY <1>1 DEF pop_worker, IInv, TypeOK
<1>4. \A b \in Blue : /\ AboutToPop(thread[c], b) => b = thread[c].target
                      /\ ~AwaitsStop(thread[c], b)
  BY <1>1 DEF AboutToPop, AwaitsStop
<1>5. /\ thread' \in [Client -> Thread]
      /\ HoldsInv' /\ WorkerInv' /\ CallbackReachesItsCaller' /\ StopInv'
  BY <1>1, <1>2, <1>3, <1>4, CallerFrame
<1>6. TypeOK'
  BY <1>1, <1>3, <1>5 DEF IInv, TypeOK
<1>7. QED
  BY <1>5, <1>6 DEF IInv

\* A blocked thread goes on.
LEMMA WakeKeeps ==
    ASSUME IInv, NEW c \in Client, wake_up(c)
    PROVE  IInv'
<1>1. /\ thread[c].state = "wait" /\ thread[c].answer # "none"
      /\ UNCHANGED <<db, infra, stray, used, worker_collection, worker, requests, crashes>>
  BY DEF wake_up, storeVars
<1>2. thread[c] \in Thread /\ Holds(thread[c])
  BY DEF IInv, TypeOK, HoldsInv
<1>3. \E t \in Thread :
         /\ Continue(c, t) /\ Holds(t)
         /\ \A b \in Blue : AboutToPop(thread[c], b) \/ AwaitsStop(thread[c], b)
                               => AboutToPop(t, b)
  <2>1. CASE thread[c].request \in DeleteRequests
    <3> DEFINE t == [thread[c] EXCEPT !.state = "pop"]
    <3>1. t \in Thread /\ t.state = "pop" /\ t.target = thread[c].target
      BY <1>2 DEF Thread, ThreadState
    <3>2. Continue(c, t)
      BY <2>1 DEF wake_up
    <3> HIDE DEF t
    <3>3. Holds(t)
      BY <1>1, <1>2, <3>1 DEF Holds
    <3>4. QED
      BY <3>1, <3>2, <3>3 DEF AboutToPop, AwaitsStop
  <2>2. CASE thread[c].request \notin DeleteRequests
    <3>1. PICK t \in Thread : Continue(c, t) /\ Holds(t)
      BY <2>2, EndFact DEF wake_up, IInv
    <3>2. QED
      BY <1>1, <2>2, <3>1 DEF AboutToPop, AwaitsStop
  <2>3. QED
    BY <2>1, <2>2
<1>4. /\ thread' \in [Client -> Thread]
      /\ HoldsInv' /\ WorkerInv' /\ CallbackReachesItsCaller' /\ StopInv'
  BY <1>1, <1>3, CallerFrame
<1>5. TypeOK'
  BY <1>1, <1>4 DEF IInv, TypeOK
<1>6. QED
  BY <1>4, <1>5 DEF IInv

\* protect_blueprint and its to_db.
LEMMA ProtectKeeps ==
    ASSUME IInv, NEW c \in Client, protect_blueprint(c) \/ protect_to_db(c)
    PROVE  IInv'
<1>1. thread[c] \in Thread /\ Holds(thread[c])
  BY DEF IInv, TypeOK, HoldsInv
<1>2. CASE protect_blueprint(c)
  <2>1. PICK w \in Worker : thread[c].handle = w /\ thread[c].target \in Blue
                            /\ worker[w].state # "unborn" /\ thread[c].answer = "none"
    BY <1>1, <1>2 DEF protect_blueprint, Holds
  <2> DEFINE m == [worker[w].base_model EXCEPT
                      !.protected = (thread[c].request = "protect")]
             r == [worker[w] EXCEPT !.base_model = m]
             t == [thread[c] EXCEPT !.state = "save", !.buffer = m]
  <2>2. /\ thread[c].state = "got" /\ Becomes(w, r) /\ Continue(c, t)
        /\ UNCHANGED <<db, infra, stray, used, worker_collection, requests, crashes>>
    BY <1>2, <2>1 DEF protect_blueprint, storeVars
  <2>3. worker[w] \in BlueprintWorker
    BY DEF IInv, TypeOK
  <2>4. worker[w].base_model \in Record
    BY <2>3 DEF BlueprintWorker
  <2>5. m \in Record
    BY <2>4 DEF Record
  <2> HIDE DEF m
  <2>6. /\ r \in BlueprintWorker /\ r.state = worker[w].state
        /\ r.blueprint = worker[w].blueprint
        /\ r.message_queue = worker[w].message_queue
        /\ r.received = worker[w].received
    BY <2>3, <2>5 DEF BlueprintWorker
  <2>7. /\ t \in Thread /\ t.state = "save" /\ t.target = thread[c].target
        /\ t.answer = thread[c].answer
    BY <1>1, <2>5 DEF Thread, ThreadState
  <2> HIDE DEF r, t
  <2>8. Holds(t)
    BY <2>1, <2>7 DEF Holds
  <2>9. /\ worker' \in [Worker -> BlueprintWorker]
        /\ worker'[w] = r
        /\ \A v \in Worker : v # w => worker'[v] = worker[v]
    BY <2>2, <2>6, BecomesFact DEF IInv
  <2>10. \A b \in Blue : ~AboutToPop(thread[c], b) /\ ~AwaitsStop(thread[c], b)
    BY <2>2 DEF AboutToPop, AwaitsStop
  <2>11. \A v \in Worker : \/ worker'[v] = worker[v]
                           \/ /\ worker[v].state # "unborn"
                              /\ worker'[v].state = worker[v].state
                              /\ worker'[v].blueprint = worker[v].blueprint
                              /\ worker'[v].message_queue = worker[v].message_queue
                              /\ worker'[v].received = worker[v].received
    BY <2>1, <2>6, <2>9
  <2>12. /\ thread' \in [Client -> Thread]
         /\ HoldsInv' /\ WorkerInv' /\ CallbackReachesItsCaller' /\ StopInv'
    BY <2>2, <2>7, <2>8, <2>10, <2>11, CallerFrame
  <2>13. TypeOK'
    BY <2>2, <2>9, <2>12 DEF IInv, TypeOK
  <2>14. QED
    BY <2>12, <2>13 DEF IInv
<1>3. CASE protect_to_db(c)
  <2>1. /\ thread[c].state = "save" /\ EndRequest(c)
        /\ db' = [db EXCEPT ![thread[c].target] = thread[c].buffer]
        /\ UNCHANGED <<infra, stray, used, worker_collection, worker, requests, crashes>>
    BY <1>3 DEF protect_to_db
  <2>2. thread[c].buffer \in Record
    BY <1>1 DEF Thread
  <2>3. PICK t \in Thread : Continue(c, t) /\ Holds(t)
    BY <2>1, EndFact DEF IInv
  <2>4. \A b \in Blue : ~AboutToPop(thread[c], b) /\ ~AwaitsStop(thread[c], b)
    BY <2>1 DEF AboutToPop, AwaitsStop
  <2>5. /\ thread' \in [Client -> Thread]
        /\ HoldsInv' /\ WorkerInv' /\ CallbackReachesItsCaller' /\ StopInv'
    BY <2>1, <2>3, <2>4, CallerFrame
  <2>6. TypeOK'
    BY <2>1, <2>2, <2>5 DEF IInv, TypeOK
  <2>7. QED
    BY <2>5, <2>6 DEF IInv
<1>4. QED
  BY <1>2, <1>3

\* The manager's code in the calling thread.
LEMMA ManagerStepKeeps ==
    ASSUME IInv, NEW c \in Client, ManagerStep(c)
    PROVE  IInv'
  BY StartKeeps, PutKeeps, LookupKeeps, PopKeeps, WakeKeeps, ProtectKeeps
     DEF ManagerStep

\* w goes on in state s with its message, its queue and its blueprint.
Moved(w, s) ==
    \E r \in BlueprintWorker : /\ Becomes(w, r)
                               /\ r.state = s
                               /\ r.blueprint = worker[w].blueprint
                               /\ r.message_queue = worker[w].message_queue
                               /\ r.received = worker[w].received

\* Goto moves the worker.
LEMMA GotoFact ==
    ASSUME NEW w \in Worker, worker[w] \in BlueprintWorker,
           NEW s \in WorkerState,
           Goto(w, s)
    PROVE  Moved(w, s)
<1> DEFINE r == [worker[w] EXCEPT !.state = s]
<1>1. /\ r \in BlueprintWorker
      /\ r.state = s
      /\ r.blueprint = worker[w].blueprint
      /\ r.message_queue = worker[w].message_queue
      /\ r.received = worker[w].received
  BY DEF BlueprintWorker
<1>2. Becomes(w, r)
  BY DEF Goto
<1> HIDE DEF r
<1>3. QED
  BY <1>1, <1>2 DEF Moved

\* Serialise moves the worker.
LEMMA SerialiseFact ==
    ASSUME NEW w \in Worker, worker[w] \in BlueprintWorker,
           NEW s \in WorkerState, NEW m \in Record,
           Serialise(w, s, m)
    PROVE  Moved(w, s)
<1> DEFINE r == [worker[w] EXCEPT !.state = s, !.base_model = m, !.buffer = m]
<1>1. /\ r \in BlueprintWorker
      /\ r.state = s
      /\ r.blueprint = worker[w].blueprint
      /\ r.message_queue = worker[w].message_queue
      /\ r.received = worker[w].received
  BY DEF BlueprintWorker
<1>2. Becomes(w, r)
  BY DEF Serialise
<1> HIDE DEF r
<1>3. QED
  BY <1>1, <1>2 DEF Moved

\* The to_db at the start of an operation moves the worker.
LEMMA SaveFact ==
    ASSUME NEW w \in Worker, worker[w] \in BlueprintWorker,
           NEW s \in WorkerState, NEW m \in Record,
           Becomes(w, [worker[w] EXCEPT !.state = s, !.buffer = m])
    PROVE  Moved(w, s)
<1> DEFINE r == [worker[w] EXCEPT !.state = s, !.buffer = m]
<1>1. /\ r \in BlueprintWorker
      /\ r.state = s
      /\ r.blueprint = worker[w].blueprint
      /\ r.message_queue = worker[w].message_queue
      /\ r.received = worker[w].received
  BY DEF BlueprintWorker
<1>2. Becomes(w, r)
  OBVIOUS
<1> HIDE DEF r
<1>3. QED
  BY <1>1, <1>2 DEF Moved

\* The save_to_db of a provider moves the worker.
LEMMA ModelFact ==
    ASSUME NEW w \in Worker, worker[w] \in BlueprintWorker,
           NEW s \in WorkerState, NEW m \in Record,
           Becomes(w, [worker[w] EXCEPT !.state = s, !.base_model = m])
    PROVE  Moved(w, s)
<1> DEFINE r == [worker[w] EXCEPT !.state = s, !.base_model = m]
<1>1. /\ r \in BlueprintWorker
      /\ r.state = s
      /\ r.blueprint = worker[w].blueprint
      /\ r.message_queue = worker[w].message_queue
      /\ r.received = worker[w].received
  BY DEF BlueprintWorker
<1>2. Becomes(w, r)
  OBVIOUS
<1> HIDE DEF r
<1>3. QED
  BY <1>1, <1>2 DEF Moved

\* The worker that Forget leaves.
LEMMA ForgetFact ==
    ASSUME NEW w \in Worker, worker[w] \in BlueprintWorker,
           NEW s \in WorkerState, Forget(w, s)
    PROVE  \E r \in BlueprintWorker :
              /\ Becomes(w, r)
              /\ r.state = s
              /\ r.blueprint = worker[w].blueprint
              /\ r.message_queue = worker[w].message_queue
<1> DEFINE r == [worker[w] EXCEPT !.state = s, !.received = NoMessage,
                                  !.buffer = FreshRecord]
<1>1. FreshRecord \in Record /\ NoMessage \in WorkerMessage
  BY ConstantTypes
<1>2. /\ r \in BlueprintWorker
      /\ r.state = s
      /\ r.blueprint = worker[w].blueprint
      /\ r.message_queue = worker[w].message_queue
  BY <1>1 DEF BlueprintWorker
<1>3. Becomes(w, r)
  BY DEF Forget
<1> HIDE DEF r
<1>4. QED
  BY <1>2, <1>3

\* A worker that is in a state of _listen, and the parts of it.
LEMMA WorkerParts ==
    ASSUME IInv, NEW w \in Worker, worker[w].state # "unborn"
    PROVE  /\ worker[w] \in BlueprintWorker
           /\ worker[w].base_model \in Record
           /\ worker[w].buffer \in Record
           /\ worker[w].blueprint \in Blue
           /\ worker[w].received.callback \in Client \cup {NoClient}
<1>1. worker[w] \in BlueprintWorker
  BY DEF IInv, TypeOK
<1>2. /\ worker[w].base_model \in Record
      /\ worker[w].buffer \in Record
      /\ worker[w].received \in WorkerMessage
  BY <1>1 DEF BlueprintWorker
<1>3. worker[w].received.callback \in Client \cup {NoClient}
  BY <1>2 DEF WorkerMessage
<1>4. QED
  BY <1>1, <1>2, <1>3 DEF IInv, WorkerInv

\* The worker steps that call nobody back.
LEMMA QuietKeeps ==
    ASSUME IInv, NEW w \in Worker,
           \/ save_started(w) \/ create_server(w) \/ save_to_db(w) \/ set_idle(w)
           \/ save_ended(w)
           \/ destroy_resources(w) \/ final_cleanup(w) \/ destroy_ng_blue(w) \/ die(w)
    PROVE  IInv'
<1>1. /\ worker[w].state # "unborn"
      /\ UNCHANGED <<stray, used, worker_collection, thread, requests, crashes>>
  BY DEF save_started, create_server, save_to_db, set_idle, save_ended,
         destroy_resources, final_cleanup, destroy_ng_blue, die, storeVars
<1>2. /\ worker[w] \in BlueprintWorker
      /\ worker[w].base_model \in Record
      /\ worker[w].buffer \in Record
      /\ worker[w].blueprint \in Blue
  BY <1>1, WorkerParts
<1>3. PICK r \in BlueprintWorker :
         /\ Becomes(w, r)
         /\ r.blueprint = worker[w].blueprint
         /\ r.message_queue = worker[w].message_queue
         /\ r.state \notin {"unborn", "stopped"}
         /\ r.state \in Owing => /\ worker[w].state \in Owing
                                 /\ r.received = worker[w].received
         /\ r.state \in Stopping => worker[w].state \in Stopping
  <2> DEFINE Quiet(r) == /\ Becomes(w, r)
                         /\ r.blueprint = worker[w].blueprint
                         /\ r.message_queue = worker[w].message_queue
  <2>1. CASE save_started(w)
    <3>1. Moved(w, "running")
      BY <1>2, <2>1, ConstantTypes, SaveFact DEF save_started, WorkerState
    <3>2. QED
      BY <2>1, <3>1 DEF Moved, save_started, Owing, Stopping
  <2>2. CASE save_to_db(w)
    <3> DEFINE m == [worker[w].base_model EXCEPT !.resources = TRUE]
    <3>1. m \in Record
      BY <1>2 DEF Record
    <3>2. /\ Becomes(w, [worker[w] EXCEPT !.state = "running", !.base_model = m])
          /\ worker[w].state = "creating"
      BY <2>2 DEF save_to_db
    <3> HIDE DEF m
    <3>3. Moved(w, "running")
      BY <1>2, <3>1, <3>2, ModelFact DEF WorkerState
    <3>4. QED
      BY <3>2, <3>3 DEF Moved, Owing, Stopping
  <2>3. CASE set_idle(w)
    <3> DEFINE m == [worker[w].base_model EXCEPT !.operation = "idle",
                                                 !.error = FALSE]
    <3>1. m \in Record
      BY <1>2 DEF Record, CurrentOperation
    <3>2. Serialise(w, "ending", m)
      BY <2>3 DEF set_idle
    <3> HIDE DEF m
    <3>3. Moved(w, "ending")
      BY <1>2, <3>1, <3>2, SerialiseFact DEF WorkerState
    <3>4. QED
      BY <3>3 DEF Moved, Owing, Stopping
  <2>4. CASE save_ended(w)
    <3>1. PICK r \in BlueprintWorker : Quiet(r) /\ r.state = "idle"
      BY <1>2, <2>4, ForgetFact DEF save_ended, WorkerState
    <3>2. QED
      BY <3>1 DEF Owing, Stopping
  <2>5. CASE destroy_resources(w) \/ final_cleanup(w) \/ destroy_ng_blue(w) \/ die(w)
    <3>1. PICK s \in {"torn_down", "cleaned", "destroyed", "dead"} :
             /\ Goto(w, s)
             /\ s # "dead" => worker[w].state \in Stopping
      BY <2>5 DEF destroy_resources, final_cleanup, destroy_ng_blue, die, Stopping
    <3>2. Moved(w, s)
      BY <1>2, <3>1, GotoFact DEF WorkerState
    <3>3. QED
      BY <3>1, <3>2 DEF Moved, Owing, Stopping
  <2>6. CASE create_server(w)
    <3>1. Moved(w, "creating") /\ worker[w].state = "running"
      BY <1>2, <2>6, GotoFact DEF create_server, WorkerState
    <3>2. QED
      BY <3>1 DEF Moved, Owing, Stopping
  <2>7. QED
    BY <2>1, <2>2, <2>3, <2>4, <2>5, <2>6
<1>4. /\ worker' \in [Worker -> BlueprintWorker]
      /\ thread' \in [Client -> Thread]
      /\ HoldsInv' /\ WorkerInv' /\ CallbackReachesItsCaller' /\ StopInv'
  BY <1>1, <1>3, ListenFrame
<1>5. db' \in [Blue -> Record \cup {NoRecord}] /\ infra' \in [Blue -> BOOLEAN]
  <2>1. CASE save_to_db(w)
    <3> DEFINE m == [worker[w].base_model EXCEPT !.resources = TRUE]
    <3>1. m \in Record
      BY <1>2 DEF Record
    <3>2. /\ db' = [db EXCEPT ![worker[w].blueprint] = m]
          /\ infra' = [infra EXCEPT ![worker[w].blueprint] = TRUE]
      BY <2>1 DEF save_to_db
    <3> HIDE DEF m
    <3>3. QED
      BY <3>1, <3>2 DEF IInv, TypeOK
  <2>2. CASE save_started(w) \/ save_ended(w) \/ final_cleanup(w)
    BY <1>2, <2>2 DEF IInv, TypeOK, save_started, save_ended, final_cleanup
  <2>3. CASE destroy_resources(w)
    <3>1. worker[w].base_model.resources \in BOOLEAN
      BY <1>2 DEF Record
    <3>2. QED
      BY <1>2, <2>3, <3>1 DEF IInv, TypeOK, destroy_resources
  <2>4. CASE create_server(w) \/ set_idle(w) \/ destroy_ng_blue(w) \/ die(w)
    BY <2>4 DEF IInv, TypeOK, create_server, set_idle, destroy_ng_blue, die, storeVars
  <2>5. QED
    BY <2>1, <2>2, <2>3, <2>4
<1>6. TypeOK'
  BY <1>1, <1>4, <1>5 DEF IInv, TypeOK
<1>7. QED
  BY <1>4, <1>6 DEF IInv

\* The worker steps that may call a blocked thread back.
LEMMA AnswerKeeps ==
    ASSUME IInv, NEW w \in Worker,
           \/ operation_ok(w) \/ operation_error(w) \/ create_failed(w)
           \/ event_error(w) \/ stop(w)
    PROVE  IInv'
<1>1. /\ worker[w].state # "unborn"
      /\ UNCHANGED <<db, infra, used, worker_collection, requests, crashes>>
  BY DEF operation_ok, operation_error, create_failed, event_error, stop, storeVars
<1>2. worker[w] \in BlueprintWorker /\ worker[w].base_model \in Record
  BY <1>1, WorkerParts
<1>3. PICK client \in Client \cup {NoClient} : client = worker[w].received.callback
  BY <1>1, WorkerParts
<1> DEFINE Left(r) == /\ Becomes(w, r)
                      /\ r.blueprint = worker[w].blueprint
                      /\ r.message_queue = worker[w].message_queue
                      /\ r.state \in {"answered", "ending", "stopped"}
                      /\ r.state = "stopped" => worker[w].state = "destroyed"
<1>4. PICK r \in BlueprintWorker : Left(r)
  <2>1. CASE operation_ok(w)
    <3>1. Moved(w, "answered")
      BY <1>2, <2>1, GotoFact DEF operation_ok, WorkerState
    <3>2. QED
      BY <3>1 DEF Moved
  <2>2. ASSUME NEW m \in Record, Serialise(w, "ending", m)
        PROVE  \E r \in BlueprintWorker : Left(r)
    <3>1. Moved(w, "ending")
      BY <1>2, <2>2, SerialiseFact DEF WorkerState
    <3>2. QED
      BY <3>1 DEF Moved
  <2>3. CASE operation_error(w) \/ create_failed(w)
    <3>1. [worker[w].base_model EXCEPT !.error = TRUE] \in Record
      BY <1>2 DEF Record
    <3>2. QED
      BY <2>2, <2>3, <3>1 DEF operation_error, create_failed
  <2>4. CASE event_error(w)
    <3>1. [worker[w].base_model EXCEPT !.operation = "idle", !.error = TRUE] \in Record
      BY <1>2 DEF Record, CurrentOperation
    <3>2. QED
      BY <2>2, <2>4, <3>1 DEF event_error
  <2>5. CASE stop(w)
    <3>1. PICK r \in BlueprintWorker : /\ Becomes(w, r)
                                       /\ r.state = "stopped"
                                       /\ r.blueprint = worker[w].blueprint
                                       /\ r.message_queue = worker[w].message_queue
      BY <1>2, <2>5, ForgetFact DEF stop, WorkerState
    <3>2. QED
      BY <2>5, <3>1 DEF stop
  <2>6. QED
    BY <2>1, <2>3, <2>4, <2>5
<1> DEFINE Answered ==
        \/ /\ UNCHANGED thread
           /\ r.state = "stopped" => client = NoClient
        \/ /\ client \in Client
           /\ \E status \in {"OK", "ERROR"} :
                 Continue(client, [thread[client] EXCEPT !.answer = status])
           /\ thread[client].state = "wait"
           /\ \/ Owes(w) /\ r.state \notin Owing
              \/ thread[client].answer # "none"
<1>5. r.state \notin Owing /\ r.state \notin Stopping /\ r.state # "unborn"
  BY <1>4 DEF Owing, Stopping
<1>6. Answered
  <2>1. CASE event_error(w)
    <3>1. r.state # "stopped"
      BY <1>4, <2>1 DEF event_error
    <3>2. \/ UNCHANGED thread
          \/ /\ client # NoClient /\ thread[client].state = "wait"
             /\ thread[client].answer # "none"
             /\ callback(w, "ERROR")
      BY <1>3, <2>1 DEF event_error
    <3>3. QED
      BY <1>3, <3>1, <3>2 DEF callback
  <2>2. ASSUME NEW status \in {"OK", "ERROR"}, callback(w, status), Owes(w)
        PROVE  Answered
    <3>1. CASE client = NoClient
      BY <1>3, <2>2, <3>1 DEF callback
    <3>2. CASE client # NoClient
      <4>1. client \in Client
        BY <1>3, <3>2
      <4>2. BlockedOn(client, w)
        BY <1>3, <2>2, <3>2 DEF IInv, CallbackReachesItsCaller, HoldsCallbacks
      <4>3. Continue(client, [thread[client] EXCEPT !.answer = status])
        BY <1>3, <2>2, <3>2 DEF callback
      <4>4. QED
        BY <1>5, <2>2, <4>1, <4>2, <4>3 DEF BlockedOn
    <3>3. QED
      BY <3>1, <3>2
  <2>3. CASE operation_ok(w) \/ operation_error(w) \/ create_failed(w) \/ stop(w)
    <3>1. Owes(w) /\ (callback(w, "OK") \/ callback(w, "ERROR"))
      BY <2>3 DEF operation_ok, operation_error, create_failed, stop, Owes, Owing
    <3>2. QED
      BY <2>2, <3>1
  <2>4. QED
    BY <2>1, <2>3
<1>7. /\ worker' \in [Worker -> BlueprintWorker]
      /\ thread' \in [Client -> Thread]
      /\ HoldsInv' /\ WorkerInv' /\ CallbackReachesItsCaller' /\ StopInv'
  BY <1>1, <1>3, <1>4, <1>5, <1>6, ListenFrame
<1>8. stray' \in [Blue -> BOOLEAN]
  BY DEF operation_ok, operation_error, create_failed, event_error, stop, storeVars,
         IInv, TypeOK
<1>9. TypeOK'
  BY <1>1, <1>7, <1>8 DEF IInv, TypeOK
<1>10. QED
  BY <1>7, <1>9 DEF IInv

\* A kill: nothing is loaded and nobody calls.
LEMMA KillKeeps ==
    ASSUME IInv, kill
    PROVE  IInv'
<1>1. /\ \A w \in Worker : worker'[w] = Unborn
      /\ \A c \in Client : thread'[c] = Free
      /\ \A b \in Blue : worker_collection'[b] = NoWorker
  BY DEF kill
<1>2. TypeOK'
  BY ConstantTypes, BoundAssumption DEF kill, IInv, TypeOK
<1>3. HoldsInv'
  BY <1>1 DEF HoldsInv, Holds, Free
<1>4. WorkerInv'
  BY <1>1, NullAssumption DEF WorkerInv, Unborn
<1>5. CallbackReachesItsCaller'
  BY <1>1 DEF CallbackReachesItsCaller, HoldsCallbacks, Owes, Owing, Unborn
<1>6. StopInv'
  BY <1>1, NullAssumption DEF StopInv
<1>7. QED
  BY <1>2, <1>3, <1>4, <1>5, <1>6 DEF IInv

\* The initial states.
LEMMA InitKeeps == Init => IInv
<1> SUFFICES ASSUME Init PROVE IInv
  OBVIOUS
<1>1. TypeOK
  BY ConstantTypes, BoundAssumption DEF Init, TypeOK
<1>2. HoldsInv
  BY DEF Init, HoldsInv, Holds, Free
<1>3. WorkerInv
  BY NullAssumption DEF Init, WorkerInv, Unborn
<1>4. CallbackReachesItsCaller
  BY DEF Init, CallbackReachesItsCaller, HoldsCallbacks, Owes, Owing, Unborn
<1>5. StopInv
  BY NullAssumption DEF Init, StopInv
<1>6. QED
  BY <1>1, <1>2, <1>3, <1>4, <1>5 DEF IInv

\* A stuttering step.
LEMMA StutterKeeps ==
    ASSUME IInv, UNCHANGED vars
    PROVE  IInv'
<1> USE DEF IInv, vars, storeVars
<1>1. TypeOK'
  BY DEF TypeOK
<1>2. HoldsInv'
  BY DEF HoldsInv, Holds
<1>3. WorkerInv'
  BY DEF WorkerInv
<1>4. CallbackReachesItsCaller'
  BY DEF CallbackReachesItsCaller, HoldsCallbacks, BlockedOn, Owes
<1>5. StopInv'
  BY DEF StopInv, StopsAnnounced, PopFollows, AboutToPop, AwaitsStop
<1>6. QED
  BY <1>1, <1>2, <1>3, <1>4, <1>5

-----------------------------------------------------------------------------
(***************************************************************************)
(* The theorems.                                                           *)
(***************************************************************************)

\* IInv holds in every state, whatever requests arrive, wherever a thread dies
\* and whenever the process is killed.
THEOREM Invariance == Spec => []IInv
<1>1. Init => IInv
  BY InitKeeps
<1>2. IInv /\ [Next]_vars => IInv'
  <2> SUFFICES ASSUME IInv, [Next]_vars PROVE IInv'
    OBVIOUS
  <2>1. ASSUME NEW c \in Client, CallerStep(c) PROVE IInv'
    BY <2>1, CallerStepKeeps
  <2>2. ASSUME NEW c \in Client, ManagerStep(c) PROVE IInv'
    BY <2>2, ManagerStepKeeps
  <2>3. ASSUME NEW w \in Worker, Listen(w) \/ die(w) PROVE IInv'
    BY <2>3, ReceiveKeeps, QuietKeeps, AnswerKeeps DEF Listen
  <2>4. CASE kill
    BY <2>4, KillKeeps
  <2>5. CASE UNCHANGED vars
    BY <2>5, StutterKeeps
  <2>6. QED
    BY <2>1, <2>2, <2>3, <2>4, <2>5 DEF Next
<1>3. QED
  BY <1>1, <1>2, PTL DEF Spec

\* The manager, its workers and the database keep their types: the manager never
\* looks up the collection with a missing identifier nor uses a missing worker.
THEOREM TypeCorrect == Spec => []TypeOK
<1>1. IInv => TypeOK
  BY DEF IInv
<1>2. QED
  BY <1>1, Invariance, PTL

\* put_message_sync and _listen: a callback is only ever held for the thread that
\* is blocked on it.
THEOREM CallbacksReachTheirCallers == Spec => []CallbackReachesItsCaller
<1>1. IInv => CallbackReachesItsCaller
  BY DEF IInv
<1>2. QED
  BY <1>1, Invariance, PTL

\* delete_blueprint and _listen: an entry of worker_collection whose worker has
\* stopped is about to be popped.
THEOREM StoppedWorkersArePopped == Spec => []StoppedWorkerIsBeingPopped
<1>1. IInv => StoppedWorkerIsBeingPopped
  BY DEF IInv, StopInv, StopsAnnounced, StoppedWorkerIsBeingPopped
<1>2. QED
  BY <1>1, Invariance, PTL

=============================================================================
