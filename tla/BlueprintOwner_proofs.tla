----------------------- MODULE BlueprintOwner_proofs ------------------------
(***************************************************************************)
(* Blueprints that only their parent uses: every caller of the manager is  *)
(* the thread of a parent blueprint, and no two parents address the same   *)
(* child (a BlueprintProvider only calls the children it has created, and  *)
(* generate_blueprint_id does not return an identifier twice).  Then the   *)
(* manager keeps what REST clients can break, for every number of parents, *)
(* children, workers, requests and kills of the process.                   *)
(***************************************************************************)
EXTENDS BlueprintLCM_proofs

OwnersOnly ==
    /\ Rest = {}
    /\ \A c, d \in Owner : c # d => Scope[c] \cap Scope[d] = {}

-----------------------------------------------------------------------------
(***************************************************************************)
(* The inductive invariant, on top of IInv of BlueprintLCM_proofs.  A      *)
(* parent waits for every call, so a worker has work only while its parent *)
(* is blocked on it, and the message tells what the parent asked for.      *)
(***************************************************************************)

AskedFor(type) == CASE type = "DAY0" -> "create_sync"
                    [] type = "DAY2" -> "day2_sync"
                    [] type = "STOP" -> "delete_sync"

\* The message m comes from a call that one of the threads th is in.
Asked(th, m) == m.callback \in Client /\ th[m.callback].request = AskedFor(m.type)

\* The states of a worker that the collection has to know, and those in which
\* it may still write its blueprint.
Present == WorkerState \ {"unborn", "stopped"}
Writing == Present \ {"dead", "destroyed"}

WorkerMessages(w) ==
    /\ \A i \in 1..Len(worker[w].message_queue) : Asked(thread, worker[w].message_queue[i])
    /\ Owes(w) => Asked(thread, worker[w].received)
    /\ worker[w].state \in {"started", "running", "creating"} => worker[w].received.type # "STOP"
    /\ worker[w].state \in Stopping => worker[w].received.type = "STOP"

\* What the database and the VIMs hold for the blueprint of w.
WorkerStores(w) ==
    LET r == worker[w]  b == worker[w].blueprint
    IN  /\ r.state # "unborn" => b \in used
        /\ r.state = "idle" => db[b] = r.base_model
        /\ r.state \in {"started", "ending"} => r.buffer = r.base_model
        /\ r.state \in Writing => db[b] # NoRecord /\ (infra[b] => r.base_model.resources)
        /\ r.state \in {"torn_down", "cleaned", "destroyed"} => ~infra[b]

\* The collection knows every worker whose thread has not been stopped.
WorkerKnown(w) == worker[w].state \in Present => worker_collection[worker[w].blueprint] = w

WorkerOk(w) == WorkerMessages(w) /\ WorkerStores(w) /\ WorkerKnown(w)

\* A parent uses its own children only, one call after the other.
ThreadOwns(c) ==
    /\ thread[c].state # "idle" =>
          thread[c].request \in OwnerRequests /\ thread[c].target \in Scope[c] /\ thread[c].state \notin {"next", "save"}
    /\ thread[c].state \in {"created", "put0"} => thread[c].request = "create_sync"

\* Between looking at the collection and starting a worker, nobody else does.
ThreadStarts(c) ==
    /\ thread[c].state \in {"created", "loaded"} => worker_collection[thread[c].target] = NoWorker
    /\ thread[c].state = "created" => db[thread[c].target] = FreshRecord
    /\ thread[c].state = "loaded" => db[thread[c].target] = thread[c].buffer
    /\ thread[c].state \in {"put0", "got", "wait", "pop"} => worker_collection[thread[c].target] = thread[c].handle

\* A thread in state t has been told that the worker has stopped.
ToldStopped(t) == \/ t.state = "pop"
                  \/ t.state = "wait" /\ t.request = "delete_sync" /\ t.answer # "none"

\* The answer to a deletion comes from a worker that has ended.
ThreadAnswered(c) ==
    ToldStopped(thread[c]) => thread[c].handle \in Worker /\ worker[thread[c].handle].state = "stopped"

ThreadOk(c) == ThreadOwns(c) /\ ThreadStarts(c) /\ ThreadAnswered(c)

StoreOk(b) ==
    /\ db[b] # NoRecord => b \in used
    /\ infra[b] => db[b] # NoRecord /\ db[b].resources

Own == /\ \A w \in Worker : WorkerOk(w)
       /\ \A c \in Client : ThreadOk(c)
       /\ \A b \in Blue : StoreOk(b)

-----------------------------------------------------------------------------
(***************************************************************************)
(* Frame lemmas: what a step has to leave alone.                           *)
(***************************************************************************)

LEMMA ClientsAreOwners ==
    ASSUME OwnersOnly
    PROVE  Client = Owner /\ \A c \in Client : RequestsOf(c) = OwnerRequests
  BY DEF OwnersOnly, Client, RequestsOf

\* Two threads that are busy with the same blueprint are one.
LEMMA OneOwner ==
    ASSUME OwnersOnly, Own, NEW c \in Client, NEW d \in Client,
           thread[c].state # "idle", thread[d].state # "idle", thread[c].target = thread[d].target
    PROVE  c = d
<1>1. thread[c].target \in Scope[c] \cap Scope[d]
  BY DEF Own, ThreadOk, ThreadOwns
<1>. QED
  BY <1>1, ClientsAreOwners DEF OwnersOnly

\* The threads blocked in a call stay in it.
CallsStay ==
    \A d \in Client : thread[d].state = "wait" /\ thread[d].answer = "none"
                         => thread'[d].request = thread[d].request

\* The messages a worker holds come from threads blocked on it.
LEMMA CallersBlocked ==
    ASSUME IInv, Own, NEW w \in Worker
    PROVE  /\ \A i \in 1..Len(worker[w].message_queue) :
                 /\ Asked(thread, worker[w].message_queue[i])
                 /\ BlockedOn(worker[w].message_queue[i].callback, w)
           /\ Owes(w) => Asked(thread, worker[w].received) /\ BlockedOn(worker[w].received.callback, w)
<1>1. HoldsCallbacks(w) /\ WorkerMessages(w)
  BY DEF IInv, CallbackReachesItsCaller, Own, WorkerOk
<1>. QED
  BY <1>1, NullAssumption DEF HoldsCallbacks, WorkerMessages, Asked

LEMMA AskedFrame ==
    ASSUME IInv, Own, CallsStay, NEW w \in Worker
    PROVE  /\ \A i \in 1..Len(worker[w].message_queue) : Asked(thread', worker[w].message_queue[i])
           /\ Owes(w) => Asked(thread', worker[w].received)
  BY CallersBlocked DEF CallsStay, BlockedOn, Asked

\* The worker that has the parent of its blueprint waiting for the answer.
LEMMA OwedTo ==
    ASSUME OwnersOnly, IInv, Own, NEW w \in Worker, Owes(w), NEW d \in Client,
           thread[d].state # "idle", thread[d].target = worker[w].blueprint
    PROVE  /\ d = worker[w].received.callback /\ thread[d].state = "wait" /\ thread[d].answer = "none"
           /\ thread[d].handle = w /\ thread[d].request = AskedFor(worker[w].received.type)
<1>1. PICK c : c = worker[w].received.callback
  OBVIOUS
<1>2. c \in Client /\ BlockedOn(c, w) /\ thread[c].request = AskedFor(worker[w].received.type)
  BY <1>1, CallersBlocked DEF Asked
<1>3. thread[c].target = worker[w].blueprint
  BY <1>2 DEF IInv, HoldsInv, Holds, BlockedOn
<1>4. c = d
  BY <1>2, <1>3, OneOwner DEF BlockedOn
<1>. QED
  BY <1>1, <1>2, <1>4 DEF BlockedOn

\* A thread that is about to pop has no worker left that could run.
LEMMA NotTold ==
    ASSUME IInv, Own, NEW w \in Worker, worker[w].state \in Present, NEW d \in Client,
           thread[d].target = worker[w].blueprint
    PROVE  /\ ~ToldStopped(thread[d]) /\ thread[d].state \notin {"created", "loaded"}
           /\ thread[d].state \in {"put0", "got", "wait"} => thread[d].handle = w
<1>1. worker_collection[thread[d].target] = w
  BY DEF Own, WorkerOk, WorkerKnown
<1>2. ThreadStarts(d) /\ ThreadAnswered(d)
  BY DEF Own, ThreadOk
<1>. QED
  BY <1>1, <1>2, NullAssumption DEF ThreadStarts, ThreadAnswered, ToldStopped, Present

\* A step of worker w: it changes its own blueprint only, and of the threads at
\* most the answer of those that use this blueprint.
LEMMA ListenOwn ==
    ASSUME OwnersOnly, IInv, IInv', Own, NEW w \in Worker, worker[w].state \in Present,
           NEW b \in Blue, worker[w].blueprint = b,
           \A v \in Worker : v # w => worker'[v] = worker[v],
           UNCHANGED <<used, worker_collection>>,
           \A a \in Blue : a # b => db'[a] = db[a] /\ infra'[a] = infra[a],
           \A d \in Client : /\ thread'[d].state = thread[d].state /\ thread'[d].request = thread[d].request
                             /\ thread'[d].target = thread[d].target /\ thread'[d].handle = thread[d].handle
                             /\ thread'[d].buffer = thread[d].buffer
                             /\ thread[d].target # b => thread'[d] = thread[d],
           WorkerOk(w)', StoreOk(b)',
           \A d \in Client : thread[d].state # "idle" /\ thread[d].target = b => ThreadAnswered(d)'
    PROVE  Own'
<1>1. worker_collection[b] = w
  BY DEF Own, WorkerOk, WorkerKnown
<1>2. CallsStay
  BY DEF CallsStay
<1>3. ASSUME NEW v \in Worker, v # w PROVE WorkerOk(v)'
  <2>1. worker'[v] = worker[v] /\ WorkerOk(v)
    BY <1>3 DEF Own
  <2>2. WorkerMessages(v)'
    BY <1>2, <2>1, AskedFrame DEF WorkerOk, WorkerMessages, Owes
  <2>3. WorkerKnown(v)'
    BY <2>1 DEF WorkerOk, WorkerKnown
  <2>4. WorkerStores(v)'
    <3>1. CASE worker[v].state \in Present
      <4>1. worker[v].blueprint \in Blue /\ worker[v].blueprint # b
        BY <1>1, <1>3, <2>1, <3>1 DEF WorkerOk, WorkerKnown, IInv, WorkerInv, Present
      <4>. QED
        BY <2>1, <4>1 DEF WorkerOk, WorkerStores
    <3>2. CASE worker[v].state \notin Present
      <4>1. worker[v].state \in {"unborn", "stopped"}
        BY <3>2 DEF IInv, TypeOK, BlueprintWorker, Present
      <4>. QED
        BY <2>1, <4>1 DEF WorkerOk, WorkerStores, Writing, Present
    <3>. QED
      BY <3>1, <3>2
  <2>. QED
    BY <2>2, <2>3, <2>4 DEF WorkerOk
<1>4. ASSUME NEW d \in Client PROVE ThreadOk(d)'
  <2>1. ThreadOk(d) /\ Holds(thread[d])
    BY DEF Own, IInv, HoldsInv
  <2>2. ThreadOwns(d)'
    BY <2>1 DEF ThreadOk, ThreadOwns
  <2>3. ThreadStarts(d)'
    <3>1. thread[d].state \in {"created", "loaded"} => thread[d].target \in Blue /\ thread[d].target # b
      BY <2>1, <1>1, NullAssumption DEF ThreadOk, ThreadStarts, Holds
    <3>. QED
      BY <2>1, <3>1 DEF ThreadOk, ThreadStarts
  <2>4. ThreadAnswered(d)'
    <3>1. CASE thread[d].state = "idle"
      BY <3>1 DEF ThreadAnswered, ToldStopped
    <3>2. CASE thread[d].state # "idle" /\ thread[d].target # b
      <4>1. thread'[d] = thread[d] /\ ThreadAnswered(d)
        BY <2>1, <3>2 DEF ThreadOk
      <4>2. thread[d].state \in {"put0", "wait"} =>
               thread[d].handle \in Worker /\ worker'[thread[d].handle] = worker[thread[d].handle] /\ thread[d].target \in Blue
        BY <2>1, <3>2 DEF Holds
      <4>3. thread[d].state = "pop" =>
               thread[d].handle \in Worker /\ worker'[thread[d].handle] = worker[thread[d].handle]
        BY <4>1 DEF ThreadAnswered, ToldStopped, Present
      <4>4. thread[d].state = "wait" \/ thread[d].state = "put0" => infra'[thread[d].target] = infra[thread[d].target]
        BY <3>2, <4>2
      <4>. QED
        BY <4>1, <4>2, <4>3, <4>4 DEF ThreadAnswered, ToldStopped
    <3>. QED
      BY <3>1, <3>2
  <2>. QED
    BY <2>2, <2>3, <2>4 DEF ThreadOk
<1>5. ASSUME NEW a \in Blue PROVE StoreOk(a)'
  BY DEF Own, StoreOk
<1>. QED
  BY <1>3, <1>4, <1>5 DEF Own

\* A step of worker w that answers nobody and takes nothing down: the new worker
\* r, the record k and the deployment i of its blueprint.
LEMMA QuietOwn ==
    ASSUME OwnersOnly, IInv, IInv', Own, NEW w \in Worker, worker[w].state \in Present,
           NEW b \in Blue, worker[w].blueprint = b,
           \A v \in Worker : v # w => worker'[v] = worker[v],
           UNCHANGED <<used, worker_collection, thread>>,
           \A a \in Blue : a # b => db'[a] = db[a] /\ infra'[a] = infra[a],
           WorkerOk(w)', StoreOk(b)'
    PROVE  Own'
<1>1. ASSUME NEW d \in Client, thread[d].state # "idle", thread[d].target = b PROVE ThreadAnswered(d)'
  <2>1. ThreadAnswered(d)
    BY DEF Own, ThreadOk
  <2>2. ~ToldStopped(thread[d]) /\ (thread[d].state \in {"put0", "got", "wait"} => thread[d].handle = w)
    BY <1>1, NotTold
  <2>. QED
    BY <1>1, <2>1, <2>2 DEF ThreadAnswered
<1>. QED
  BY <1>1, ListenOwn

\* What the messages of w need when its queue and the message it processes stay.
LEMMA MessagesFrame ==
    ASSUME IInv, Own, CallsStay, NEW w \in Worker, NEW r, worker'[w] = r,
           r.message_queue = worker[w].message_queue,
           r.state \in Owing => worker[w].state \in Owing /\ r.received = worker[w].received,
           r.state \in {"started", "running", "creating"} => worker[w].state \in {"started", "running", "creating"},
           r.state \in Stopping => worker[w].state \in Stopping
    PROVE  WorkerMessages(w)'
<1>1. WorkerMessages(w)
  BY DEF Own, WorkerOk
<1>2. {"started", "running", "creating"} \subseteq Owing /\ Stopping \subseteq Owing
  BY DEF Owing, Stopping
<1>. QED
  BY <1>1, <1>2, AskedFrame DEF WorkerMessages, Owes

\* The worker w of blueprint b goes on as r.
Goes(w, b, r) ==
    /\ worker'[w] = r /\ r.blueprint = b
    /\ \A v \in Worker : v # w => worker'[v] = worker[v]
    /\ \A a \in Blue : a # b => db'[a] = db[a] /\ infra'[a] = infra[a]
    /\ UNCHANGED <<used, worker_collection>>

\* The stores fit the worker r of blueprint b.
Fits(b, r) ==
    /\ r.state = "idle" => db'[b] = r.base_model
    /\ r.state \in {"started", "ending"} => r.buffer = r.base_model
    /\ r.state \in Writing => db'[b] # NoRecord /\ (infra'[b] => r.base_model.resources)
    /\ r.state \in {"torn_down", "cleaned", "destroyed"} => ~infra'[b]
    /\ infra'[b] => db'[b] # NoRecord /\ db'[b].resources

LEMMA GoesOk ==
    ASSUME IInv, Own, CallsStay, NEW w \in Worker, worker[w].state \in Present, NEW b \in Blue,
           worker[w].blueprint = b, NEW r, Goes(w, b, r), Fits(b, r),
           r.message_queue = worker[w].message_queue,
           r.state \in Owing => worker[w].state \in Owing /\ r.received = worker[w].received,
           r.state \in {"started", "running", "creating"} => worker[w].state \in {"started", "running", "creating"},
           r.state \in Stopping => worker[w].state \in Stopping
    PROVE  WorkerOk(w)' /\ StoreOk(b)'
<1>1. worker'[w] = r /\ r.blueprint = b /\ UNCHANGED <<used, worker_collection>>
  BY DEF Goes
<1>2. WorkerMessages(w)'
  BY <1>1, MessagesFrame
<1>3. b \in used /\ worker_collection[b] = w
  BY DEF Own, WorkerOk, WorkerStores, WorkerKnown, Present
<1>4. WorkerStores(w)'
  BY <1>1, <1>3 DEF WorkerStores, Fits
<1>5. WorkerKnown(w)'
  BY <1>1, <1>3 DEF WorkerKnown
<1>6. StoreOk(b)'
  BY <1>1, <1>3 DEF StoreOk, Fits
<1>. QED
  BY <1>2, <1>4, <1>5, <1>6 DEF WorkerOk

\* A step of a worker that keeps its queue, answers nobody and takes nothing down.
LEMMA QuietGoes ==
    ASSUME OwnersOnly, IInv, IInv', Own, NEW w \in Worker, worker[w].state \in Present, NEW b \in Blue,
           worker[w].blueprint = b, NEW r, Goes(w, b, r), Fits(b, r), UNCHANGED thread,
           r.message_queue = worker[w].message_queue,
           r.state \in Owing => worker[w].state \in Owing /\ r.received = worker[w].received,
           r.state \in {"started", "running", "creating"} => worker[w].state \in {"started", "running", "creating"},
           r.state \in Stopping => worker[w].state \in Stopping,
           infra[b] => infra'[b],
           r.base_model.resources => worker[w].base_model.resources \/ infra'[b]
    PROVE  Own'
<1>1. CallsStay
  BY DEF CallsStay
<1>2. WorkerOk(w)' /\ StoreOk(b)'
  BY <1>1, GoesOk
<1>. QED
  BY <1>2, QuietOwn DEF Goes

\* What is known of a worker in a state of _listen.
LEMMA ListenParts ==
    ASSUME IInv, Own, NEW w \in Worker, worker[w].state \in Present
    PROVE  /\ worker[w] \in BlueprintWorker /\ worker[w].blueprint \in Blue /\ worker[w].base_model \in Record
           /\ WorkerStores(w) /\ StoreOk(worker[w].blueprint)
           /\ db[worker[w].blueprint] \in Record \cup {NoRecord} /\ infra[worker[w].blueprint] \in BOOLEAN
<1>1. worker[w] \in BlueprintWorker /\ worker[w].blueprint \in Blue
  BY DEF IInv, TypeOK, WorkerInv, Present
<1>. QED
  BY <1>1 DEF Own, WorkerOk, IInv, TypeOK, BlueprintWorker

LEMMA SaveStartedOwn ==
    ASSUME OwnersOnly, IInv, IInv', Own, NEW w \in Worker, save_started(w)
    PROVE  Own'
<1>1. worker[w].state = "started" /\ worker[w].state \in Present
  BY DEF save_started, Present, WorkerState
<1>2. PICK o \in BlueprintWorker, b \in Blue : o = worker[w] /\ b = o.blueprint
  BY <1>1, ListenParts
<1>3. PICK r : r = [o EXCEPT !.state = "running", !.buffer = FreshRecord]
  OBVIOUS
<1>4. /\ worker' = [worker EXCEPT ![w] = r] /\ db' = [db EXCEPT ![b] = o.buffer]
      /\ UNCHANGED <<infra, used, worker_collection, thread>>
  BY <1>2, <1>3 DEF save_started, Becomes
<1>5. /\ r.state = "running" /\ r.blueprint = b /\ r.message_queue = o.message_queue /\ r.received = o.received
      /\ r.base_model = o.base_model
  BY <1>2, <1>3 DEF BlueprintWorker
<1>6. Goes(w, b, r) /\ db'[b] = o.buffer
  BY <1>4, <1>5 DEF IInv, TypeOK, Goes
<1>7. Fits(b, r)
  <2>1. o.buffer = o.base_model /\ o.base_model \in Record /\ (infra[b] => o.base_model.resources)
    BY <1>1, <1>2, ListenParts DEF WorkerStores, Writing, Present
  <2>. QED
    BY <1>4, <1>5, <1>6, <2>1, NullAssumption DEF Fits
<1>. QED
  BY <1>1, <1>2, <1>4, <1>5, <1>6, <1>7, QuietGoes DEF Owing, Stopping

LEMMA CreateServerOwn ==
    ASSUME OwnersOnly, IInv, IInv', Own, NEW w \in Worker, create_server(w)
    PROVE  Own'
<1>1. worker[w].state = "running" /\ worker[w].state \in Present
  BY DEF create_server, Present, WorkerState
<1>2. PICK o \in BlueprintWorker, b \in Blue : o = worker[w] /\ b = o.blueprint
  BY <1>1, ListenParts
<1>3. PICK r : r = [o EXCEPT !.state = "creating"]
  OBVIOUS
<1>4. worker' = [worker EXCEPT ![w] = r] /\ UNCHANGED <<db, infra, used, worker_collection, thread>>
  BY <1>2, <1>3 DEF create_server, Goto, Becomes, storeVars
<1>5. /\ r.state = "creating" /\ r.blueprint = b /\ r.message_queue = o.message_queue /\ r.received = o.received
      /\ r.base_model = o.base_model
  BY <1>2, <1>3 DEF BlueprintWorker
<1>6. Goes(w, b, r)
  BY <1>4, <1>5 DEF IInv, TypeOK, Goes
<1>7. Fits(b, r)
  BY <1>1, <1>2, <1>4, <1>5, ListenParts DEF Fits, WorkerStores, StoreOk, Writing, Present
<1>. QED
  BY <1>1, <1>2, <1>4, <1>5, <1>6, <1>7, QuietGoes DEF Owing, Stopping

LEMMA SaveToDbOwn ==
    ASSUME OwnersOnly, IInv, IInv', Own, NEW w \in Worker, save_to_db(w)
    PROVE  Own'
<1>1. worker[w].state = "creating" /\ worker[w].state \in Present
  BY DEF save_to_db, Present, WorkerState
<1>2. PICK o \in BlueprintWorker, b \in Blue : o = worker[w] /\ b = o.blueprint
  BY <1>1, ListenParts
<1>3. PICK m : m = [o.base_model EXCEPT !.resources = TRUE]
  OBVIOUS
<1>4. PICK r : r = [o EXCEPT !.state = "running", !.base_model = m]
  OBVIOUS
<1>5. /\ worker' = [worker EXCEPT ![w] = r] /\ db' = [db EXCEPT ![b] = m] /\ infra' = [infra EXCEPT ![b] = TRUE]
      /\ UNCHANGED <<used, worker_collection, thread>>
  BY <1>2, <1>3, <1>4 DEF save_to_db, Becomes
<1>6. /\ r.state = "running" /\ r.blueprint = b /\ r.message_queue = o.message_queue /\ r.received = o.received
      /\ r.base_model = m
  BY <1>2, <1>4 DEF BlueprintWorker
<1>7. m \in Record /\ m.resources = TRUE
  BY <1>3 DEF BlueprintWorker, Record
<1>8. Goes(w, b, r) /\ db'[b] = m /\ infra'[b]
  BY <1>5, <1>6 DEF IInv, TypeOK, Goes
<1>9. Fits(b, r)
  BY <1>6, <1>7, <1>8, NullAssumption DEF Fits
<1>. QED
  BY <1>1, <1>2, <1>5, <1>6, <1>8, <1>9, QuietGoes DEF Owing, Stopping

LEMMA SetIdleOwn ==
    ASSUME OwnersOnly, IInv, IInv', Own, NEW w \in Worker, NEW e \in BOOLEAN, worker[w].state = "answered",
           Serialise(w, "ending", [worker[w].base_model EXCEPT !.operation = "idle", !.error = e]),
           UNCHANGED <<storeVars, worker_collection, thread>>
    PROVE  Own'
<1>1. worker[w].state \in Present
  BY DEF Present, WorkerState
<1>2. PICK o \in BlueprintWorker, b \in Blue : o = worker[w] /\ b = o.blueprint
  BY <1>1, ListenParts
<1>3. PICK m : m = [o.base_model EXCEPT !.operation = "idle", !.error = e]
  OBVIOUS
<1>4. PICK r : r = [o EXCEPT !.state = "ending", !.base_model = m, !.buffer = m]
  OBVIOUS
<1>5. worker' = [worker EXCEPT ![w] = r] /\ UNCHANGED <<db, infra, used, worker_collection, thread>>
  BY <1>2, <1>3, <1>4 DEF Serialise, Becomes, storeVars
<1>6. /\ r.state = "ending" /\ r.blueprint = b /\ r.message_queue = o.message_queue /\ r.received = o.received
      /\ r.base_model = m /\ r.buffer = m
  BY <1>2, <1>4 DEF BlueprintWorker
<1>7. m.resources = o.base_model.resources
  BY <1>3 DEF BlueprintWorker, Record
<1>8. Goes(w, b, r)
  BY <1>5, <1>6 DEF IInv, TypeOK, Goes
<1>9. Fits(b, r)
  BY <1>1, <1>2, <1>5, <1>6, <1>7, ListenParts DEF Fits, WorkerStores, StoreOk, Writing, Present
<1>. QED
  BY <1>1, <1>2, <1>5, <1>6, <1>7, <1>8, <1>9, QuietGoes DEF Owing, Stopping

LEMMA SaveEndedOwn ==
    ASSUME OwnersOnly, IInv, IInv', Own, NEW w \in Worker, save_ended(w)
    PROVE  Own'
<1>1. worker[w].state = "ending" /\ worker[w].state \in Present
  BY DEF save_ended, Present, WorkerState
<1>2. PICK o \in BlueprintWorker, b \in Blue : o = worker[w] /\ b = o.blueprint
  BY <1>1, ListenParts
<1>3. PICK r : r = [o EXCEPT !.state = "idle", !.received = NoMessage, !.buffer = FreshRecord]
  OBVIOUS
<1>4. /\ worker' = [worker EXCEPT ![w] = r] /\ db' = [db EXCEPT ![b] = o.buffer]
      /\ UNCHANGED <<infra, used, worker_collection, thread>>
  BY <1>2, <1>3 DEF save_ended, Forget, Becomes
<1>5. /\ r.state = "idle" /\ r.blueprint = b /\ r.message_queue = o.message_queue
      /\ r.base_model = o.base_model
  BY <1>2, <1>3 DEF BlueprintWorker
<1>6. Goes(w, b, r) /\ db'[b] = o.buffer
  BY <1>4, <1>5 DEF IInv, TypeOK, Goes
<1>7. Fits(b, r)
  <2>1. o.buffer = o.base_model /\ o.base_model \in Record /\ (infra[b] => o.base_model.resources)
    BY <1>1, <1>2, ListenParts DEF WorkerStores, Writing, Present
  <2>. QED
    BY <1>4, <1>5, <1>6, <2>1, NullAssumption DEF Fits
<1>. QED
  BY <1>1, <1>2, <1>4, <1>5, <1>6, <1>7, QuietGoes DEF Owing, Stopping

\* The worker of a deletion: nobody waits for the creation of its blueprint.
LEMMA StoppingAnswers ==
    ASSUME OwnersOnly, IInv, Own, NEW w \in Worker, worker[w].state \in Stopping, NEW d \in Client,
           thread[d].state # "idle", thread[d].target = worker[w].blueprint
    PROVE  ~ToldStopped(thread[d]) /\ thread[d].request = "delete_sync"
<1>1. Owes(w) /\ worker[w].received.type = "STOP"
  BY DEF Owes, Owing, Stopping, Own, WorkerOk, WorkerMessages
<1>2. thread[d].state = "wait" /\ thread[d].answer = "none" /\ thread[d].request = "delete_sync"
  BY <1>1, OwedTo DEF AskedFor
<1>. QED
  BY <1>2 DEF ToldStopped

\* The steps of BlueprintNG.destroy.
LEMMA DestroyGoes ==
    ASSUME OwnersOnly, IInv, IInv', Own, NEW w \in Worker, worker[w].state \in Stopping, NEW b \in Blue,
           worker[w].blueprint = b, NEW r, Goes(w, b, r), Fits(b, r), UNCHANGED thread,
           r.message_queue = worker[w].message_queue, r.received = worker[w].received,
           r.state \in {"torn_down", "cleaned", "destroyed"}
    PROVE  Own'
<1>1. worker[w].state \in Present /\ worker[w].state \in Owing /\ r.state \notin {"started", "running", "creating"}
  BY DEF Stopping, Present, WorkerState, Owing
<1>2. CallsStay
  BY DEF CallsStay
<1>3. WorkerOk(w)' /\ StoreOk(b)'
  BY <1>1, <1>2, GoesOk
<1>4. ASSUME NEW d \in Client, thread[d].state # "idle", thread[d].target = b PROVE ThreadAnswered(d)'
  <2>1. ~ToldStopped(thread[d]) /\ thread[d].request = "delete_sync"
    BY <1>4, StoppingAnswers
  <2>. QED
    BY <2>1 DEF ThreadAnswered
<1>. QED
  BY <1>1, <1>3, <1>4, ListenOwn DEF Goes

LEMMA DestroyOwn ==
    ASSUME OwnersOnly, IInv, IInv', Own, NEW w \in Worker,
           destroy_resources(w) \/ final_cleanup(w) \/ destroy_ng_blue(w)
    PROVE  Own'
<1>1. worker[w].state \in {"destroying", "torn_down", "cleaned"}
  BY DEF destroy_resources, final_cleanup, destroy_ng_blue
<1>2. worker[w].state \in Stopping /\ worker[w].state \in Present
  BY <1>1 DEF Stopping, Present, WorkerState
<1>3. PICK o \in BlueprintWorker, b \in Blue : o = worker[w] /\ b = o.blueprint
  BY <1>2, ListenParts
<1>4. PICK s : /\ s \in {"torn_down", "cleaned", "destroyed"} /\ Goto(w, s)
               /\ UNCHANGED <<used, worker_collection, thread>>
               /\ s = "torn_down" => destroy_resources(w)
               /\ s = "cleaned" => final_cleanup(w)
               /\ s = "destroyed" => destroy_ng_blue(w)
  BY DEF destroy_resources, final_cleanup, destroy_ng_blue
<1>5. PICK r : r = [o EXCEPT !.state = s]
  OBVIOUS
<1>6. /\ r.state = s /\ r.blueprint = b /\ r.message_queue = o.message_queue /\ r.received = o.received
      /\ r.base_model = o.base_model
  BY <1>3, <1>5 DEF BlueprintWorker
<1>7. worker' = [worker EXCEPT ![w] = r]
  BY <1>3, <1>4, <1>5 DEF Goto, Becomes
<1>8. WorkerStores(w) /\ StoreOk(b) /\ o.base_model \in Record /\ infra[b] \in BOOLEAN
  BY <1>2, <1>3, ListenParts
<1>9. CASE s = "torn_down"
  <2>1. infra' = [infra EXCEPT ![b] = infra[b] /\ ~o.base_model.resources] /\ UNCHANGED db /\ o.state = "destroying"
    BY <1>3, <1>4, <1>9 DEF destroy_resources
  <2>2. db[b] # NoRecord /\ (infra[b] => o.base_model.resources)
    BY <1>3, <1>8, <2>1 DEF WorkerStores, Writing, Present, WorkerState
  <2>3. Goes(w, b, r) /\ ~infra'[b]
    BY <1>4, <1>6, <1>7, <2>1, <2>2 DEF Goes, IInv, TypeOK
  <2>4. Fits(b, r)
    BY <1>6, <1>9, <2>1, <2>2, <2>3 DEF Fits
  <2>. QED
    BY <1>2, <1>3, <1>4, <1>6, <2>3, <2>4, DestroyGoes
<1>10. CASE s = "cleaned"
  <2>1. db' = [db EXCEPT ![b] = o.base_model] /\ UNCHANGED infra /\ o.state = "torn_down"
    BY <1>3, <1>4, <1>10 DEF final_cleanup
  <2>2. ~infra[b]
    BY <1>3, <1>8, <2>1 DEF WorkerStores
  <2>3. Goes(w, b, r) /\ db'[b] = o.base_model
    BY <1>4, <1>6, <1>7, <2>1 DEF Goes, IInv, TypeOK
  <2>4. Fits(b, r)
    BY <1>6, <1>8, <1>10, <2>1, <2>2, <2>3, NullAssumption DEF Fits
  <2>. QED
    BY <1>2, <1>3, <1>4, <1>6, <2>3, <2>4, DestroyGoes
<1>11. CASE s = "destroyed"
  <2>1. db' = [db EXCEPT ![b] = NoRecord] /\ UNCHANGED infra /\ o.state = "cleaned"
    BY <1>3, <1>4, <1>11 DEF destroy_ng_blue
  <2>2. ~infra[b]
    BY <1>3, <1>8, <2>1 DEF WorkerStores
  <2>3. Goes(w, b, r)
    BY <1>4, <1>6, <1>7, <2>1 DEF Goes, IInv, TypeOK
  <2>4. Fits(b, r)
    BY <1>6, <1>11, <2>1, <2>2 DEF Fits, Writing
  <2>. QED
    BY <1>2, <1>3, <1>4, <1>6, <2>3, <2>4, DestroyGoes
<1>. QED
  BY <1>4, <1>9, <1>10, <1>11

LEMMA DieOwn ==
    ASSUME OwnersOnly, IInv, IInv', Own, NEW w \in Worker, die(w)
    PROVE  Own'
<1>1. worker[w].state \in Present
  BY DEF die, Present, WorkerState
<1>2. PICK o \in BlueprintWorker, b \in Blue : o = worker[w] /\ b = o.blueprint
  BY <1>1, ListenParts
<1>3. PICK r : r = [o EXCEPT !.state = "dead"]
  OBVIOUS
<1>4. worker' = [worker EXCEPT ![w] = r] /\ UNCHANGED <<db, infra, used, worker_collection, thread>>
  BY <1>2, <1>3 DEF die, Goto, Becomes, storeVars
<1>5. r.state = "dead" /\ r.blueprint = b /\ r.message_queue = o.message_queue /\ r.base_model = o.base_model
  BY <1>2, <1>3 DEF BlueprintWorker
<1>6. Goes(w, b, r)
  BY <1>4, <1>5 DEF IInv, TypeOK, Goes
<1>7. Fits(b, r)
  BY <1>1, <1>2, <1>4, <1>5, ListenParts DEF Fits, StoreOk, Writing
<1>. QED
  BY <1>1, <1>2, <1>4, <1>5, <1>6, <1>7, QuietGoes DEF Owing, Stopping

LEMMA ReceiveOwn ==
    ASSUME OwnersOnly, IInv, IInv', Own, NEW w \in Worker, receive(w)
    PROVE  Own'
<1>1. worker[w].state = "idle" /\ worker[w].state \in Present
  BY DEF receive, Present, WorkerState
<1>2. PICK o \in BlueprintWorker, b \in Blue : o = worker[w] /\ b = o.blueprint
  BY <1>1, ListenParts
<1>3. PICK q \in Seq(WorkerMessage) : q = o.message_queue /\ q # <<>>
  BY <1>2 DEF receive, BlueprintWorker
<1>4. PICK m : m = Head(q)
  OBVIOUS
<1>5. PICK k : k = [o.base_model EXCEPT !.operation = StartedStatus(m.type), !.error = FALSE]
  OBVIOUS
<1>6. PICK s, u : s = (IF m.type = "STOP" THEN "destroying" ELSE "started") /\ u = (IF m.type = "STOP" THEN o.buffer ELSE k)
  OBVIOUS
<1>7. PICK r : r = [o EXCEPT !.state = s, !.received = m, !.message_queue = Tail(q), !.base_model = k, !.buffer = u]
  OBVIOUS
<1>8. worker' = [worker EXCEPT ![w] = r] /\ UNCHANGED <<db, infra, used, worker_collection, thread>>
  BY <1>2, <1>3, <1>4, <1>5, <1>6, <1>7 DEF receive, Becomes, storeVars
<1>9. /\ r.state = s /\ r.blueprint = b /\ r.message_queue = Tail(q) /\ r.received = m
      /\ r.base_model = k /\ r.buffer = u
  BY <1>2, <1>7 DEF BlueprintWorker
<1>10. k.resources = o.base_model.resources
  BY <1>5 DEF BlueprintWorker, Record
<1>11. worker'[w] = r /\ Goes(w, b, r)
  BY <1>8, <1>9 DEF IInv, TypeOK, Goes
<1>12. /\ m = q[1] /\ 1 \in 1..Len(q)
       /\ \A i \in 1..Len(Tail(q)) : i + 1 \in 1..Len(q) /\ Tail(q)[i] = q[i + 1]
  BY <1>3, <1>4
<1>13. \A i \in 1..Len(q) : Asked(thread, q[i])
  BY <1>2, <1>3, CallersBlocked
<1>14. WorkerMessages(w)'
  <2>1. s \in {"destroying", "started"} /\ (s = "destroying" <=> m.type = "STOP")
    BY <1>6
  <2>. QED
    BY <1>8, <1>9, <1>11, <1>12, <1>13, <2>1 DEF WorkerMessages, Stopping
<1>15. /\ b \in used /\ worker_collection[b] = w /\ db[b] = o.base_model /\ o.base_model \in Record
       /\ (infra[b] => o.base_model.resources) /\ StoreOk(b)
  BY <1>1, <1>2, ListenParts DEF Own, WorkerOk, WorkerStores, WorkerKnown, Writing, Present
<1>16. WorkerStores(w)'
  BY <1>6, <1>8, <1>9, <1>10, <1>11, <1>15, NullAssumption DEF WorkerStores, Writing, Present
<1>17. WorkerKnown(w)' /\ StoreOk(b)'
  BY <1>8, <1>9, <1>11, <1>15 DEF WorkerKnown, StoreOk
<1>. QED
  BY <1>1, <1>2, <1>8, <1>9, <1>10, <1>11, <1>14, <1>16, <1>17, QuietOwn DEF WorkerOk, Goes

\* What callback_function changes of the threads.
LEMMA AnswerParts ==
    ASSUME IInv, NEW c \in Client, NEW status, Continue(c, [thread[c] EXCEPT !.answer = status])
    PROVE  /\ \A d \in Client : d # c => thread'[d] = thread[d]
           /\ thread'[c].answer = status /\ thread'[c].state = thread[c].state
           /\ thread'[c].request = thread[c].request /\ thread'[c].target = thread[c].target
           /\ thread'[c].handle = thread[c].handle /\ thread'[c].buffer = thread[c].buffer
<1>1. PICK t \in Thread : t = thread[c]
  BY DEF IInv, TypeOK
<1>2. PICK u : u = [t EXCEPT !.answer = status]
  OBVIOUS
<1>3. /\ u.answer = status /\ u.state = t.state /\ u.request = t.request /\ u.target = t.target
      /\ u.handle = t.handle /\ u.buffer = t.buffer
  BY <1>2 DEF Thread
<1>4. thread' = [thread EXCEPT ![c] = u] /\ thread \in [Client -> Thread]
  BY <1>1, <1>2 DEF Continue, IInv, TypeOK
<1>. QED
  BY <1>1, <1>3, <1>4

\* A worker answers the call it has taken.
LEMMA AnswerOwn ==
    ASSUME OwnersOnly, IInv, IInv', Own, NEW w \in Worker, Owes(w), NEW b \in Blue,
           worker[w].blueprint = b, NEW r, Goes(w, b, r), Fits(b, r),
           r.message_queue = worker[w].message_queue, r.state \in {"answered", "ending", "stopped"},
           worker[w].received.type = "STOP" <=> r.state = "stopped",
           NEW status \in {"OK", "ERROR"}, callback(w, status)
    PROVE  Own'
<1>1. worker[w].state \in Present
  BY DEF Owes, Owing, Present, WorkerState
<1>2. PICK c : c = worker[w].received.callback
  OBVIOUS
<1>3. c \in Client /\ BlockedOn(c, w) /\ thread[c].request = AskedFor(worker[w].received.type)
  BY <1>2, CallersBlocked DEF Asked
<1>4. thread[c].target = b
  BY <1>3 DEF IInv, HoldsInv, Holds, BlockedOn
<1>5. Continue(c, [thread[c] EXCEPT !.answer = status])
  BY <1>2, <1>3, NullAssumption DEF callback
<1>6. /\ \A d \in Client : d # c => thread'[d] = thread[d]
      /\ thread'[c].answer = status /\ thread'[c].state = thread[c].state
      /\ thread'[c].request = thread[c].request /\ thread'[c].target = thread[c].target
      /\ thread'[c].handle = thread[c].handle /\ thread'[c].buffer = thread[c].buffer
  BY <1>3, <1>5, AnswerParts
<1>7. CallsStay
  BY <1>3, <1>6 DEF CallsStay
<1>8. WorkerOk(w)' /\ StoreOk(b)'
  BY <1>1, <1>7, GoesOk DEF Owing, Stopping
<1>9. ASSUME NEW d \in Client, thread[d].state # "idle", thread[d].target = b PROVE ThreadAnswered(d)'
  <2>1. d = c
    BY <1>2, <1>9, OwedTo
  <2>2. thread[c].state = "wait" /\ thread[c].handle = w
    BY <1>3 DEF BlockedOn
  <2>3. worker[w].received.type \in MessageType
    BY <1>1, ListenParts DEF BlueprintWorker, WorkerMessage
  <2>4. CASE worker[w].received.type = "STOP"
    <3>1. worker'[w].state = "stopped" /\ thread[c].request = "delete_sync"
      BY <1>3, <2>4 DEF Goes, AskedFor
    <3>. QED
      BY <1>6, <2>1, <2>2, <3>1 DEF ThreadAnswered
  <2>5. CASE worker[w].received.type # "STOP"
    <3>1. thread[c].request # "delete_sync" /\ (thread[c].request = "create_sync" => worker[w].received.type = "DAY0")
      BY <1>3, <2>3, <2>5 DEF AskedFor, MessageType
    <3>. QED
      BY <1>4, <1>6, <2>1, <2>2, <3>1 DEF ThreadAnswered, ToldStopped
  <2>. QED
    BY <2>4, <2>5
<1>. QED
  BY <1>1, <1>3, <1>4, <1>6, <1>8, <1>9, ListenOwn DEF Goes

LEMMA OperationOkOwn ==
    ASSUME OwnersOnly, IInv, IInv', Own, NEW w \in Worker, operation_ok(w)
    PROVE  Own'
<1>1. worker[w].state = "running" /\ worker[w].state \in Present /\ Owes(w)
  BY DEF operation_ok, Present, WorkerState, Owes, Owing
<1>2. PICK o \in BlueprintWorker, b \in Blue : o = worker[w] /\ b = o.blueprint
  BY <1>1, ListenParts
<1>3. PICK r : r = [o EXCEPT !.state = "answered"]
  OBVIOUS
<1>4. worker' = [worker EXCEPT ![w] = r] /\ UNCHANGED <<db, infra, used, worker_collection>> /\ callback(w, "OK")
  BY <1>2, <1>3 DEF operation_ok, Goto, Becomes, storeVars
<1>5. r.state = "answered" /\ r.blueprint = b /\ r.message_queue = o.message_queue /\ r.base_model = o.base_model
  BY <1>2, <1>3 DEF BlueprintWorker
<1>6. Goes(w, b, r)
  BY <1>4, <1>5 DEF IInv, TypeOK, Goes
<1>7. Fits(b, r)
  BY <1>1, <1>2, <1>4, <1>5, ListenParts DEF Fits, WorkerStores, StoreOk, Writing, Present
<1>8. o.received.type # "STOP"
  BY <1>1, <1>2 DEF Own, WorkerOk, WorkerMessages
<1>. QED
  BY <1>1, <1>2, <1>4, <1>5, <1>6, <1>7, <1>8, AnswerOwn

LEMMA OperationErrorOwn ==
    ASSUME OwnersOnly, IInv, IInv', Own, NEW w \in Worker, operation_error(w) \/ create_failed(w)
    PROVE  Own'
<1>1. worker[w].state \in {"running", "creating"} /\ worker[w].state \in Present /\ Owes(w)
  BY DEF operation_error, create_failed, Present, WorkerState, Owes, Owing
<1>2. PICK o \in BlueprintWorker, b \in Blue : o = worker[w] /\ b = o.blueprint
  BY <1>1, ListenParts
<1>3. PICK m : m = [o.base_model EXCEPT !.error = TRUE]
  OBVIOUS
<1>4. PICK r : r = [o EXCEPT !.state = "ending", !.base_model = m, !.buffer = m]
  OBVIOUS
<1>5. worker' = [worker EXCEPT ![w] = r] /\ UNCHANGED <<db, infra, used, worker_collection>> /\ callback(w, "ERROR")
  BY <1>2, <1>3, <1>4 DEF operation_error, create_failed, Serialise, Becomes, storeVars
<1>6. /\ r.state = "ending" /\ r.blueprint = b /\ r.message_queue = o.message_queue
      /\ r.base_model = m /\ r.buffer = m
  BY <1>2, <1>4 DEF BlueprintWorker
<1>7. m.resources = o.base_model.resources
  BY <1>3 DEF BlueprintWorker, Record
<1>8. Goes(w, b, r)
  BY <1>5, <1>6 DEF IInv, TypeOK, Goes
<1>9. Fits(b, r)
  BY <1>1, <1>2, <1>5, <1>6, <1>7, ListenParts DEF Fits, WorkerStores, StoreOk, Writing, Present
<1>10. o.received.type # "STOP"
  BY <1>1, <1>2 DEF Own, WorkerOk, WorkerMessages
<1>. QED
  BY <1>1, <1>2, <1>5, <1>6, <1>8, <1>9, <1>10, AnswerOwn

LEMMA StopOwn ==
    ASSUME OwnersOnly, IInv, IInv', Own, NEW w \in Worker, stop(w)
    PROVE  Own'
<1>1. worker[w].state = "destroyed" /\ worker[w].state \in Present /\ Owes(w)
  BY DEF stop, Present, WorkerState, Owes, Owing
<1>2. PICK o \in BlueprintWorker, b \in Blue : o = worker[w] /\ b = o.blueprint
  BY <1>1, ListenParts
<1>3. PICK r : r = [o EXCEPT !.state = "stopped", !.received = NoMessage, !.buffer = FreshRecord]
  OBVIOUS
<1>4. worker' = [worker EXCEPT ![w] = r] /\ UNCHANGED <<db, infra, used, worker_collection>> /\ callback(w, "OK")
  BY <1>2, <1>3 DEF stop, Forget, Becomes, storeVars
<1>5. r.state = "stopped" /\ r.blueprint = b /\ r.message_queue = o.message_queue
  BY <1>2, <1>3 DEF BlueprintWorker
<1>6. Goes(w, b, r)
  BY <1>4, <1>5 DEF IInv, TypeOK, Goes
<1>7. Fits(b, r)
  BY <1>1, <1>2, <1>4, <1>5, ListenParts DEF Fits, StoreOk, Writing, Present
<1>8. o.received.type = "STOP"
  BY <1>1, <1>2 DEF Own, WorkerOk, WorkerMessages, Stopping
<1>. QED
  BY <1>1, <1>2, <1>4, <1>5, <1>6, <1>7, <1>8, AnswerOwn

\* The second answer to a call: its thread has not woken up yet.
LEMMA EventErrorOwn ==
    ASSUME OwnersOnly, IInv, IInv', Own, NEW w \in Worker, event_error(w)
    PROVE  Own'
<1>1. worker[w].state = "answered" /\ worker[w].state \in Present
  BY DEF event_error, Present, WorkerState
<1>2. CASE UNCHANGED thread
  BY <1>1, <1>2, SetIdleOwn DEF event_error
<1>3. PICK c : c = worker[w].received.callback
  OBVIOUS
<1>4. CASE c # NoClient /\ thread[c].state = "wait" /\ thread[c].handle = w /\ thread[c].answer # "none" /\ callback(w, "ERROR")
  <2>1. PICK o \in BlueprintWorker, b \in Blue : o = worker[w] /\ b = o.blueprint
    BY <1>1, ListenParts
  <2>2. c \in Client
    BY <1>3, <1>4, <2>1 DEF BlueprintWorker, WorkerMessage
  <2>3. PICK m : m = [o.base_model EXCEPT !.operation = "idle", !.error = TRUE]
    OBVIOUS
  <2>4. PICK r : r = [o EXCEPT !.state = "ending", !.base_model = m, !.buffer = m]
    OBVIOUS
  <2>5. worker' = [worker EXCEPT ![w] = r] /\ UNCHANGED <<db, infra, used, worker_collection>>
    BY <2>1, <2>3, <2>4 DEF event_error, Serialise, Becomes, storeVars
  <2>6. /\ r.state = "ending" /\ r.blueprint = b /\ r.message_queue = o.message_queue
        /\ r.base_model = m /\ r.buffer = m
    BY <2>1, <2>4 DEF BlueprintWorker
  <2>7. m.resources = o.base_model.resources
    BY <2>3 DEF BlueprintWorker, Record
  <2>8. Goes(w, b, r)
    BY <2>5, <2>6 DEF IInv, TypeOK, Goes
  <2>9. Fits(b, r)
    BY <1>1, <2>1, <2>5, <2>6, <2>7, ListenParts DEF Fits, WorkerStores, StoreOk, Writing, Present
  <2>10. Continue(c, [thread[c] EXCEPT !.answer = "ERROR"])
    BY <1>3, <1>4 DEF callback
  <2>11. /\ \A d \in Client : d # c => thread'[d] = thread[d]
         /\ thread'[c].answer = "ERROR" /\ thread'[c].state = thread[c].state
         /\ thread'[c].request = thread[c].request /\ thread'[c].target = thread[c].target
         /\ thread'[c].handle = thread[c].handle /\ thread'[c].buffer = thread[c].buffer
    BY <2>2, <2>10, AnswerParts
  <2>12. CallsStay
    BY <2>2, <2>11 DEF CallsStay
  <2>13. WorkerOk(w)' /\ StoreOk(b)'
    BY <1>1, <2>1, <2>6, <2>8, <2>9, <2>12, GoesOk DEF Owing, Stopping
  <2>14. thread[c].target = b
    BY <1>4, <2>1, <2>2 DEF IInv, HoldsInv, Holds
  <2>15. ASSUME NEW d \in Client, thread[d].state # "idle", thread[d].target = b PROVE ThreadAnswered(d)'
    <3>1. d = c
      BY <1>4, <2>2, <2>14, <2>15, OneOwner
    <3>2. thread[c].request # "delete_sync"
      BY <1>1, <1>4, <2>1, <2>2, <2>14, NotTold DEF ToldStopped
    <3>. QED
      BY <1>4, <2>11, <3>1, <3>2 DEF ThreadAnswered, ToldStopped
  <2>. QED
    BY <1>1, <2>1, <2>2, <2>8, <2>11, <2>13, <2>14, <2>15, ListenOwn DEF Goes
<1>. QED
  BY <1>2, <1>3, <1>4 DEF event_error

-----------------------------------------------------------------------------
(***************************************************************************)
(* The steps of the parents.                                               *)
(***************************************************************************)

\* A thread that is not blocked goes on as t, and nothing else changes.
LEMMA CallerOwn ==
    ASSUME IInv, Own, NEW c \in Client, NEW t, Continue(c, t),
           ~(thread[c].state = "wait" /\ thread[c].answer = "none"),
           UNCHANGED <<db, infra, used, worker_collection, worker>>,
           ThreadOk(c)'
    PROVE  Own'
<1>1. \A d \in Client : d # c => thread'[d] = thread[d]
  BY DEF Continue, IInv, TypeOK
<1>2. CallsStay
  BY <1>1 DEF CallsStay
<1>3. ASSUME NEW w \in Worker PROVE WorkerOk(w)'
  <2>1. WorkerOk(w)
    BY DEF Own
  <2>2. WorkerMessages(w)'
    BY <1>2, <2>1, AskedFrame DEF WorkerOk, WorkerMessages, Owes
  <2>. QED
    BY <2>1, <2>2 DEF WorkerOk, WorkerStores, WorkerKnown
<1>4. ASSUME NEW d \in Client, d # c PROVE ThreadOk(d)'
  BY <1>1, <1>4 DEF Own, ThreadOk, ThreadOwns, ThreadStarts, ThreadAnswered
<1>5. ASSUME NEW b \in Blue PROVE StoreOk(b)'
  BY DEF Own, StoreOk
<1>. QED
  BY <1>3, <1>4, <1>5 DEF Own

LEMMA FreeOk ==
    ASSUME NEW c \in Client, thread'[c] = Free
    PROVE  ThreadOk(c)'
<1>1. Free.state = "idle"
  BY DEF Free
<1>. QED
  BY <1>1 DEF ThreadOk, ThreadOwns, ThreadStarts, ThreadAnswered, ToldStopped

\* A request ends.
LEMMA EndOwn ==
    ASSUME IInv, Own, NEW c \in Client, EndRequest(c),
           ~(thread[c].state = "wait" /\ thread[c].answer = "none"),
           UNCHANGED <<db, infra, used, worker_collection, worker>>
    PROVE  Own'
<1>1. Continue(c, Free) /\ thread'[c] = Free
  BY DEF EndRequest, Continue, IInv, TypeOK
<1>2. ThreadOk(c)'
  BY <1>1, FreeOk
<1>. QED
  BY <1>1, <1>2, CallerOwn

LEMMA CreateOwn ==
    ASSUME OwnersOnly, IInv, IInv', Own, NEW c \in Client, NEW q \in CreateRequests, NEW b \in Blue,
           create_blueprint(c, q, b)
    PROVE  Own'
<1>1. q = "create_sync" /\ b \in Scope[c] /\ b \notin used /\ db[b] = NoRecord /\ thread[c].state = "idle"
  BY ClientsAreOwners DEF create_blueprint, CreateRequests, OwnerRequests
<1>2. PICK t : t = [Free EXCEPT !.state = "created", !.request = q, !.target = b]
  OBVIOUS
<1>3. t.state = "created" /\ t.request = q /\ t.target = b
  BY <1>2 DEF Free
<1>4. /\ thread'[c] = t /\ \A d \in Client : d # c => thread'[d] = thread[d]
      /\ db'[b] = FreshRecord /\ \A a \in Blue : a # b => db'[a] = db[a]
      /\ used' = used \cup {b} /\ UNCHANGED <<infra, worker_collection, worker>>
  BY <1>2 DEF create_blueprint, Continue, IInv, TypeOK
<1>5. CallsStay
  BY <1>1, <1>4 DEF CallsStay
<1>6. FreshRecord \in Record /\ ~infra[b]
  BY <1>1, ConstantTypes DEF Own, StoreOk
<1>7. ASSUME NEW w \in Worker PROVE worker[w].state # "unborn" => worker[w].blueprint # b /\ worker[w].blueprint \in Blue
  BY <1>1 DEF Own, WorkerOk, WorkerStores, IInv, WorkerInv
<1>8. ASSUME NEW w \in Worker PROVE WorkerOk(w)'
  <2>1. WorkerOk(w)
    BY DEF Own
  <2>2. WorkerMessages(w)'
    BY <1>4, <1>5, <2>1, AskedFrame DEF WorkerOk, WorkerMessages, Owes
  <2>3. WorkerStores(w)'
    <3>1. CASE worker[w].state # "unborn"
      BY <1>4, <1>7, <2>1, <3>1 DEF WorkerOk, WorkerStores
    <3>2. CASE worker[w].state = "unborn"
      BY <1>4, <3>2 DEF WorkerStores, Writing, Present
    <3>. QED
      BY <3>1, <3>2
  <2>. QED
    BY <1>4, <2>1, <2>2, <2>3 DEF WorkerOk, WorkerKnown
<1>9. ASSUME NEW d \in Client, d # c PROVE ThreadOk(d)'
  <2>1. ThreadOk(d) /\ Holds(thread[d]) /\ thread[d] \in Thread
    BY DEF Own, IInv, HoldsInv, TypeOK
  <2>2. thread[d].state \in {"created", "loaded"} => thread[d].target \in Blue /\ db[thread[d].target] \in Record
    BY <2>1, ConstantTypes DEF ThreadOk, ThreadStarts, Holds, Thread
  <2>3. thread[d].state \in {"created", "loaded"} => thread[d].target # b
    BY <1>1, <2>2, NullAssumption
  <2>. QED
    BY <1>4, <1>9, <2>1, <2>2, <2>3 DEF ThreadOk, ThreadOwns, ThreadStarts, ThreadAnswered
<1>10. ThreadOk(c)'
  <2>1. worker_collection[b] = NoWorker
    <3>1. ASSUME NEW w \in Worker PROVE worker_collection[b] # w
      BY <1>7 DEF IInv, WorkerInv
    <3>. QED
      BY <3>1 DEF IInv, TypeOK
  <2>. QED
    BY <1>1, <1>3, <1>4, <2>1
       DEF ThreadOk, ThreadOwns, ThreadStarts, ThreadAnswered, ToldStopped, OwnerRequests
<1>11. ASSUME NEW a \in Blue PROVE StoreOk(a)'
  BY <1>4, <1>6 DEF Own, StoreOk
<1>. QED
  BY <1>8, <1>9, <1>10, <1>11 DEF Own

LEMMA BeginOwn ==
    ASSUME OwnersOnly, IInv, IInv', Own, NEW c \in Client, NEW q, NEW b, begin_request(c, q, b)
    PROVE  Own'
<1>1. q \in OwnerRequests /\ b \in Scope[c] /\ thread[c].state = "idle"
  BY ClientsAreOwners DEF begin_request
<1>2. PICK t : t = [Free EXCEPT !.state = "lookup", !.request = q, !.target = b]
  OBVIOUS
<1>3. t.state = "lookup" /\ t.request = q /\ t.target = b
  BY <1>2 DEF Free
<1>4. Continue(c, t) /\ thread'[c] = t /\ UNCHANGED <<db, infra, used, worker_collection, worker>>
  BY <1>2 DEF begin_request, Continue, IInv, TypeOK, storeVars
<1>5. ThreadOk(c)'
  BY <1>1, <1>3, <1>4 DEF ThreadOk, ThreadOwns, ThreadStarts, ThreadAnswered, ToldStopped
<1>. QED
  BY <1>1, <1>4, <1>5, CallerOwn

\* No parent calls delete_all_blueprints.
LEMMA NoDeleteAll ==
    ASSUME OwnersOnly, Own, NEW c \in Client
    PROVE  /\ ~begin_delete_all(c) /\ ~next_delete(c) /\ ~protect_blueprint(c) /\ ~protect_to_db(c)
           /\ thread[c].state # "idle" => thread[c].request \in OwnerRequests
<1>1. ThreadOwns(c)
  BY DEF Own, ThreadOk
<1>2. "delete_all" \notin RequestsOf(c)
  BY ClientsAreOwners DEF OwnerRequests
<1>. QED
  BY <1>1, <1>2 DEF ThreadOwns, begin_delete_all, next_delete, protect_blueprint, protect_to_db, OwnerRequests

LEMMA GetLoadedOwn ==
    ASSUME OwnersOnly, IInv, IInv', Own, NEW c \in Client, get_worker_loaded(c)
    PROVE  Own'
<1>1. PICK o \in Thread : o = thread[c]
  BY DEF IInv, TypeOK
<1>2. PICK t : t = [o EXCEPT !.state = "got", !.handle = worker_collection[o.target]]
  OBVIOUS
<1>3. /\ o.state = "lookup" /\ t.state = "got" /\ t.request = o.request /\ t.target = o.target
      /\ t.handle = worker_collection[o.target]
  BY <1>1, <1>2 DEF get_worker_loaded, Thread
<1>4. Continue(c, t) /\ thread'[c] = t /\ UNCHANGED <<db, infra, used, worker_collection, worker>>
  BY <1>1, <1>2 DEF get_worker_loaded, Continue, IInv, TypeOK, storeVars
<1>5. ThreadOwns(c)
  BY DEF Own, ThreadOk
<1>6. ThreadOk(c)'
  BY <1>1, <1>3, <1>4, <1>5 DEF ThreadOk, ThreadOwns, ThreadStarts, ThreadAnswered, ToldStopped
<1>. QED
  BY <1>1, <1>3, <1>4, <1>6, CallerOwn

LEMMA GetFromDbOwn ==
    ASSUME OwnersOnly, IInv, IInv', Own, NEW c \in Client, get_worker_from_db(c)
    PROVE  Own'
<1>1. PICK o \in Thread : o = thread[c]
  BY DEF IInv, TypeOK
<1>2. /\ o.state = "lookup" /\ UNCHANGED <<db, infra, used, worker_collection, worker>>
      /\ worker_collection[o.target] = NoWorker
  BY <1>1 DEF get_worker_from_db, storeVars
<1>3. CASE EndRequest(c)
  BY <1>1, <1>2, <1>3, EndOwn
<1>4. PICK t : t = [o EXCEPT !.state = "loaded", !.buffer = db[o.target]]
  OBVIOUS
<1>5. CASE Continue(c, t)
  <2>1. t.state = "loaded" /\ t.request = o.request /\ t.target = o.target /\ t.buffer = db[o.target]
    BY <1>4 DEF Thread
  <2>2. thread'[c] = t
    BY <1>5 DEF Continue, IInv, TypeOK
  <2>3. ThreadOwns(c)
    BY DEF Own, ThreadOk
  <2>4. ThreadOk(c)'
    BY <1>1, <1>2, <2>1, <2>2, <2>3 DEF ThreadOk, ThreadOwns, ThreadStarts, ThreadAnswered, ToldStopped
  <2>. QED
    BY <1>1, <1>2, <1>5, <2>4, CallerOwn
<1>. QED
  BY <1>1, <1>3, <1>4, <1>5 DEF get_worker_from_db

LEMMA RefusedOwn ==
    ASSUME OwnersOnly, IInv, IInv', Own, NEW c \in Client, delete_refused(c)
    PROVE  Own'
<1>1. thread[c].state = "got" /\ UNCHANGED <<db, infra, used, worker_collection, worker>>
  BY DEF delete_refused, storeVars
<1>2. thread[c].request # "delete_all"
  BY <1>1, NoDeleteAll DEF OwnerRequests
<1>3. EndRequest(c)
  BY <1>2 DEF delete_refused, EndDelete, EndRequest
<1>. QED
  BY <1>1, <1>3, EndOwn

LEMMA CreateRaisesOwn ==
    ASSUME OwnersOnly, IInv, IInv', Own, NEW c \in Client, create_worker_raises(c)
    PROVE  Own'
<1>1. thread[c].state = "created" /\ UNCHANGED <<db, infra, used, worker_collection, worker>> /\ EndRequest(c)
  BY DEF create_worker_raises, storeVars
<1>. QED
  BY <1>1, EndOwn

LEMMA WakeOwn ==
    ASSUME OwnersOnly, IInv, IInv', Own, NEW c \in Client, wake_up(c)
    PROVE  Own'
<1>1. PICK o \in Thread : o = thread[c]
  BY DEF IInv, TypeOK
<1>2. o.state = "wait" /\ o.answer # "none" /\ UNCHANGED <<db, infra, used, worker_collection, worker>>
  BY <1>1 DEF wake_up, storeVars
<1>3. CASE EndRequest(c)
  BY <1>1, <1>2, <1>3, EndOwn
<1>4. PICK t : t = [o EXCEPT !.state = "pop"]
  OBVIOUS
<1>5. CASE o.request \in DeleteRequests /\ Continue(c, t)
  <2>1. t.state = "pop" /\ t.request = o.request /\ t.target = o.target /\ t.handle = o.handle
    BY <1>4 DEF Thread
  <2>2. thread'[c] = t
    BY <1>5 DEF Continue, IInv, TypeOK
  <2>3. ThreadOk(c)
    BY DEF Own
  <2>4. o.request = "delete_sync"
    BY <1>1, <1>2, <1>5, NoDeleteAll DEF OwnerRequests, DeleteRequests
  <2>5. ToldStopped(o)
    BY <1>2, <2>4 DEF ToldStopped
  <2>6. ThreadOk(c)'
    BY <1>1, <1>2, <2>1, <2>2, <2>3, <2>5 DEF ThreadOk, ThreadOwns, ThreadStarts, ThreadAnswered
  <2>. QED
    BY <1>1, <1>2, <1>5, <2>6, CallerOwn
<1>. QED
  BY <1>1, <1>3, <1>4, <1>5 DEF wake_up

\* A parent that has created its child, or read its record, starts the worker.
LEMMA StartOwn ==
    ASSUME OwnersOnly, IInv, IInv', Own, NEW c \in Client, NEW w \in Worker, NEW b \in Blue, NEW m \in Record,
           thread[c].state \in {"created", "loaded"}, thread[c].target = b, db[b] = m,
           StartWorker(w, b, m), UNCHANGED <<db, infra, used>>,
           NEW t, Continue(c, t), t.target = b, t.handle = w, t.request = thread[c].request,
           \/ t.state = "got"
           \/ t.state = "put0" /\ t.request = "create_sync" /\ m.resources = FALSE
    PROVE  Own'
<1>1. PICK r : r = [Unborn EXCEPT !.state = "idle", !.blueprint = b, !.base_model = m]
  OBVIOUS
<1>2. r.state = "idle" /\ r.blueprint = b /\ r.base_model = m /\ r.message_queue = <<>>
  BY <1>1 DEF Unborn
<1>3. /\ worker'[w] = r /\ \A v \in Worker : v # w => worker'[v] = worker[v]
      /\ worker_collection'[b] = w /\ \A a \in Blue : a # b => worker_collection'[a] = worker_collection[a]
      /\ worker[w].state = "unborn"
  BY <1>1 DEF StartWorker, Becomes, IInv, TypeOK
<1>4. thread'[c] = t /\ \A d \in Client : d # c => thread'[d] = thread[d]
  BY DEF Continue, IInv, TypeOK
<1>5. CallsStay
  BY <1>4 DEF CallsStay
<1>6. worker_collection[b] = NoWorker
  BY DEF Own, ThreadOk, ThreadStarts
<1>7. b \in used /\ (infra[b] => m.resources)
  BY NullAssumption DEF Own, StoreOk
<1>8. WorkerOk(w)'
  <2>1. WorkerMessages(w)'
    BY <1>2, <1>3 DEF WorkerMessages, Owes, Owing, Stopping
  <2>2. WorkerStores(w)'
    BY <1>2, <1>3, <1>7, NullAssumption DEF WorkerStores
  <2>. QED
    BY <1>2, <1>3, <2>1, <2>2 DEF WorkerOk, WorkerKnown
<1>9. ASSUME NEW v \in Worker, v # w PROVE WorkerOk(v)'
  <2>1. WorkerOk(v) /\ worker'[v] = worker[v]
    BY <1>3, <1>9 DEF Own
  <2>2. WorkerMessages(v)'
    BY <1>5, <2>1, AskedFrame DEF WorkerOk, WorkerMessages, Owes
  <2>3. WorkerStores(v)'
    BY <2>1 DEF WorkerOk, WorkerStores
  <2>4. worker[v].state \in Present => worker[v].blueprint \in Blue /\ worker[v].blueprint # b
    BY <1>6, <2>1, NullAssumption DEF WorkerOk, WorkerKnown, IInv, WorkerInv, Present
  <2>5. WorkerKnown(v)'
    BY <1>3, <2>1, <2>4 DEF WorkerOk, WorkerKnown
  <2>. QED
    BY <2>2, <2>3, <2>5 DEF WorkerOk
<1>10. ThreadOk(c)'
  <2>1. ThreadOwns(c)
    BY DEF Own, ThreadOk
  <2>2. ThreadOwns(c)'
    BY <1>4, <2>1 DEF ThreadOwns
  <2>. QED
    BY <1>2, <1>3, <1>4, <2>2 DEF ThreadOk, ThreadStarts, ThreadAnswered, ToldStopped
<1>11. ASSUME NEW d \in Client, d # c PROVE ThreadOk(d)'
  <2>1. ThreadOk(d) /\ Holds(thread[d]) /\ thread'[d] = thread[d]
    BY <1>4, <1>11 DEF Own, IInv, HoldsInv
  <2>2. thread[d].state # "idle" => thread[d].target # b
    BY <1>11, OneOwner
  <2>3. thread[d].state \in {"created", "loaded", "put0", "got", "wait", "pop"} =>
           thread[d].target \in Blue /\ worker_collection'[thread[d].target] = worker_collection[thread[d].target]
    BY <1>3, <2>1, <2>2 DEF Holds
  <2>4. thread[d].state \in {"put0", "wait"} \/ ToldStopped(thread[d]) =>
           thread[d].handle \in Worker /\ worker'[thread[d].handle] = worker[thread[d].handle]
    BY <1>3, <2>1 DEF Holds, ThreadOk, ThreadAnswered
  <2>5. ThreadOwns(d)' /\ ThreadStarts(d)'
    BY <2>1, <2>3 DEF ThreadOk, ThreadOwns, ThreadStarts
  <2>6. ThreadAnswered(d)'
    BY <2>1, <2>4 DEF ThreadOk, ThreadAnswered
  <2>. QED
    BY <2>5, <2>6 DEF ThreadOk
<1>12. ASSUME NEW a \in Blue PROVE StoreOk(a)'
  BY DEF Own, StoreOk
<1>. QED
  BY <1>8, <1>9, <1>10, <1>11, <1>12 DEF Own

LEMMA StartsOwn ==
    ASSUME OwnersOnly, IInv, IInv', Own, NEW c \in Client, NEW w \in Worker,
           create_worker(c, w) \/ get_worker_start(c, w)
    PROVE  Own'
<1>1. PICK o \in Thread : o = thread[c]
  BY DEF IInv, TypeOK
<1>2. o.state \in {"created", "loaded"}
  BY <1>1 DEF create_worker, get_worker_start
<1>3. PICK b \in Blue : o.target = b
  BY <1>1, <1>2 DEF IInv, HoldsInv, Holds
<1>4. ThreadOwns(c) /\ ThreadStarts(c)
  BY DEF Own, ThreadOk
<1>5. CASE create_worker(c, w)
  <2>1. PICK t : t = [o EXCEPT !.state = "put0", !.handle = w]
    OBVIOUS
  <2>2. t.state = "put0" /\ t.handle = w /\ t.target = b /\ t.request = o.request
    BY <1>3, <2>1 DEF Thread
  <2>3. o.state = "created" /\ StartWorker(w, b, FreshRecord) /\ Continue(c, t) /\ UNCHANGED <<db, infra, used>>
    BY <1>1, <1>3, <1>5, <2>1 DEF create_worker, storeVars
  <2>4. o.request = "create_sync" /\ db[b] = FreshRecord
    BY <1>1, <1>3, <1>4, <2>3 DEF ThreadOwns, ThreadStarts
  <2>5. FreshRecord \in Record /\ FreshRecord.resources = FALSE
    BY ConstantTypes DEF FreshRecord
  <2>6. PICK m \in Record : m = FreshRecord
    BY <2>5
  <2>. QED
    BY <1>1, <1>2, <1>3, <2>2, <2>3, <2>4, <2>5, <2>6, StartOwn
<1>6. CASE get_worker_start(c, w)
  <2>1. PICK t : t = [o EXCEPT !.state = "got", !.handle = w, !.buffer = FreshRecord]
    OBVIOUS
  <2>2. t.state = "got" /\ t.handle = w /\ t.target = b /\ t.request = o.request
    BY <1>3, <2>1 DEF Thread
  <2>3. PICK m \in Record : m = o.buffer
    BY DEF Thread
  <2>4. o.state = "loaded" /\ StartWorker(w, b, m) /\ Continue(c, t) /\ UNCHANGED <<db, infra, used>>
    BY <1>1, <1>3, <1>6, <2>1, <2>3 DEF get_worker_start, storeVars
  <2>5. db[b] = m
    BY <1>1, <1>3, <1>4, <2>3, <2>4 DEF ThreadStarts
  <2>. QED
    BY <1>1, <1>2, <1>3, <2>2, <2>4, <2>5, StartOwn
<1>. QED
  BY <1>5, <1>6

\* A parent queues its message and blocks.
LEMMA PutOwn ==
    ASSUME OwnersOnly, IInv, IInv', Own, NEW c \in Client, NEW type \in MessageType, NEW next,
           put_message(c, type, next), thread[c].state \in {"put0", "got"},
           thread[c].request = AskedFor(type), thread[c].request = "create_sync" => thread[c].state = "put0",
           UNCHANGED <<db, infra, used, worker_collection>>
    PROVE  Own'
<1>1. PICK o \in Thread : o = thread[c]
  BY DEF IInv, TypeOK
<1>2. PICK h \in Worker : h = o.handle /\ worker[h].state # "unborn" /\ worker[h].blueprint = o.target /\ o.answer = "none"
  BY <1>1 DEF IInv, HoldsInv, Holds
<1>3. Waits(o.request)
  BY <1>1 DEF AskedFor, Waits, MessageType
<1>4. PICK m : m = [type |-> type, callback |-> c]
  OBVIOUS
<1>5. PICK t : t = [o EXCEPT !.state = "wait"]
  OBVIOUS
<1>6. t.state = "wait" /\ t.handle = h /\ t.target = o.target /\ t.request = o.request /\ t.answer = "none"
  BY <1>2, <1>5 DEF Thread
<1>7. PICK p \in BlueprintWorker : p = worker[h]
  BY DEF IInv, TypeOK
<1>8. PICK q \in Seq(WorkerMessage) : q = p.message_queue
  BY DEF BlueprintWorker
<1>9. PICK r : r = [p EXCEPT !.message_queue = Append(q, m)]
  OBVIOUS
<1>10. /\ r.state = p.state /\ r.blueprint = p.blueprint /\ r.base_model = p.base_model /\ r.received = p.received
       /\ r.buffer = p.buffer /\ r.message_queue = Append(q, m)
  BY <1>9 DEF BlueprintWorker
<1>11. worker' = [worker EXCEPT ![h] = r] /\ thread' = [thread EXCEPT ![c] = t]
  BY <1>1, <1>2, <1>3, <1>4, <1>5, <1>7, <1>8, <1>9 DEF put_message, Becomes, Continue
<1>12. /\ worker'[h] = r /\ \A v \in Worker : v # h => worker'[v] = worker[v]
       /\ thread'[c] = t /\ \A d \in Client : d # c => thread'[d] = thread[d]
  BY <1>11 DEF IInv, TypeOK
<1>13. CallsStay
  BY <1>1, <1>6, <1>12 DEF CallsStay
<1>14. m \in WorkerMessage /\ Asked(thread', m)
  BY <1>1, <1>4, <1>6, <1>12 DEF Asked, WorkerMessage
<1>15. ASSUME NEW i \in 1..Len(Append(q, m)) PROVE Asked(thread', Append(q, m)[i])
  <2>1. Len(q) \in Nat /\ Len(Append(q, m)) = Len(q) + 1
    BY <1>14
  <2>2. CASE i \in 1..Len(q)
    <3>1. Append(q, m)[i] = q[i]
      BY <1>14, <2>2
    <3>. QED
      BY <1>7, <1>8, <1>13, <2>2, <3>1, AskedFrame
  <2>3. CASE i = Len(q) + 1
    <3>1. Append(q, m)[i] = m
      BY <1>14, <2>3
    <3>. QED
      BY <1>14, <3>1
  <2>. QED
    BY <2>1, <2>2, <2>3
<1>16. WorkerOk(h)'
  <2>1. WorkerOk(h)
    BY DEF Own
  <2>2. WorkerMessages(h)'
    BY <1>7, <1>10, <1>12, <1>13, <1>15, <2>1, AskedFrame DEF WorkerOk, WorkerMessages, Owes
  <2>3. WorkerStores(h)' /\ WorkerKnown(h)'
    BY <1>7, <1>10, <1>12, <2>1 DEF WorkerOk, WorkerStores, WorkerKnown
  <2>. QED
    BY <2>2, <2>3 DEF WorkerOk
<1>17. ASSUME NEW v \in Worker, v # h PROVE WorkerOk(v)'
  <2>1. WorkerOk(v) /\ worker'[v] = worker[v]
    BY <1>12, <1>17 DEF Own
  <2>2. WorkerMessages(v)'
    BY <1>13, <2>1, AskedFrame DEF WorkerOk, WorkerMessages, Owes
  <2>. QED
    BY <2>1, <2>2 DEF WorkerOk, WorkerStores, WorkerKnown
<1>18. \A v \in Worker : worker'[v].state = worker[v].state /\ worker'[v].base_model = worker[v].base_model
  BY <1>7, <1>10, <1>12
<1>19. ThreadOk(c)'
  <2>1. ThreadOk(c)
    BY DEF Own
  <2>2. ThreadOwns(c)' /\ ThreadStarts(c)'
    BY <1>1, <1>2, <1>6, <1>12, <2>1 DEF ThreadOk, ThreadOwns, ThreadStarts
  <2>4. ThreadAnswered(c)'
    BY <1>1, <1>2, <1>6, <1>12, <1>18, <2>1 DEF ThreadOk, ThreadAnswered, ToldStopped
  <2>. QED
    BY <2>2, <2>4 DEF ThreadOk
<1>20. ASSUME NEW d \in Client, d # c PROVE ThreadOk(d)'
  <2>1. ThreadOk(d) /\ Holds(thread[d]) /\ thread'[d] = thread[d]
    BY <1>12, <1>20 DEF Own, IInv, HoldsInv
  <2>2. ThreadOwns(d)' /\ ThreadStarts(d)'
    BY <2>1 DEF ThreadOk, ThreadOwns, ThreadStarts
  <2>4. ThreadAnswered(d)'
    BY <1>18, <2>1 DEF ThreadOk, ThreadAnswered
  <2>. QED
    BY <2>2, <2>4 DEF ThreadOk
<1>21. ASSUME NEW a \in Blue PROVE StoreOk(a)'
  BY DEF Own, StoreOk
<1>. QED
  BY <1>16, <1>17, <1>19, <1>20, <1>21 DEF Own

LEMMA PutsOwn ==
    ASSUME OwnersOnly, IInv, IInv', Own, NEW c \in Client, put_day0(c) \/ put_day2(c) \/ put_stop(c)
    PROVE  Own'
<1>1. ThreadOwns(c) /\ (thread[c].state # "idle" => thread[c].request \in OwnerRequests)
  BY NoDeleteAll DEF Own, ThreadOk
<1>2. CASE put_day0(c)
  <2>1. thread[c].state = "put0" /\ put_message(c, "DAY0", Free) /\ UNCHANGED <<db, infra, used, worker_collection>>
    BY <1>2 DEF put_day0, storeVars
  <2>2. thread[c].request = AskedFor("DAY0")
    BY <1>1, <2>1 DEF ThreadOwns, AskedFor
  <2>. QED
    BY <2>1, <2>2, PutOwn DEF MessageType
<1>3. CASE put_day2(c)
  <2>1. /\ thread[c].state = "got" /\ put_message(c, "DAY2", Free) /\ UNCHANGED <<db, infra, used, worker_collection>>
        /\ thread[c].request \in {"day2", "day2_sync"}
    BY <1>3 DEF put_day2, storeVars
  <2>2. thread[c].request = AskedFor("DAY2") /\ thread[c].request # "create_sync"
    BY <1>1, <2>1 DEF OwnerRequests, AskedFor
  <2>. QED
    BY <2>1, <2>2, PutOwn DEF MessageType
<1>4. CASE put_stop(c)
  <2>1. PICK n : n = [thread[c] EXCEPT !.state = "pop"]
    OBVIOUS
  <2>2. /\ thread[c].state = "got" /\ put_message(c, "STOP", n) /\ UNCHANGED <<db, infra, used, worker_collection>>
        /\ thread[c].request \in DeleteRequests
    BY <1>4, <2>1 DEF put_stop, storeVars
  <2>3. thread[c].request = AskedFor("STOP") /\ thread[c].request # "create_sync"
    BY <1>1, <2>2 DEF OwnerRequests, DeleteRequests, AskedFor
  <2>. QED
    BY <2>2, <2>3, PutOwn DEF MessageType
<1>. QED
  BY <1>2, <1>3, <1>4

LEMMA PopOwn ==
    ASSUME OwnersOnly, IInv, IInv', Own, NEW c \in Client, pop_worker(c)
    PROVE  Own'
<1>1. thread[c].state = "pop" /\ UNCHANGED <<db, infra, used, worker>>
  BY DEF pop_worker, storeVars
<1>2. EndRequest(c)
  BY <1>1, NoDeleteAll DEF pop_worker, EndDelete, EndRequest, OwnerRequests
<1>3. CASE UNCHANGED worker_collection
  BY <1>1, <1>2, <1>3, EndOwn
<1>4. PICK b \in Blue : b = thread[c].target
  BY <1>1 DEF IInv, HoldsInv, Holds
<1>5. CASE worker_collection' = [worker_collection EXCEPT ![b] = NoWorker]
  <2>1. Continue(c, Free) /\ thread'[c] = Free /\ \A d \in Client : d # c => thread'[d] = thread[d]
    BY <1>2 DEF EndRequest, Continue, IInv, TypeOK
  <2>2. \A a \in Blue : a # b => worker_collection'[a] = worker_collection[a]
    BY <1>5 DEF IInv, TypeOK
  <2>3. CallsStay
    BY <1>1, <2>1 DEF CallsStay
  <2>4. PICK h \in Worker : worker_collection[b] = h /\ worker[h].state = "stopped"
    BY <1>1, <1>4 DEF Own, ThreadOk, ThreadStarts, ThreadAnswered, ToldStopped
  <2>5. ASSUME NEW w \in Worker PROVE WorkerOk(w)'
    <3>1. WorkerOk(w)
      BY DEF Own
    <3>2. WorkerMessages(w)'
      BY <1>1, <2>3, <3>1, AskedFrame DEF WorkerOk, WorkerMessages, Owes
    <3>3. worker[w].state \in Present => worker[w].blueprint \in Blue /\ worker[w].blueprint # b
      BY <2>4, <3>1 DEF WorkerOk, WorkerKnown, IInv, WorkerInv, Present
    <3>. QED
      BY <1>1, <2>2, <3>1, <3>2, <3>3 DEF WorkerOk, WorkerStores, WorkerKnown
  <2>6. ASSUME NEW d \in Client, d # c PROVE ThreadOk(d)'
    <3>1. ThreadOk(d) /\ Holds(thread[d]) /\ thread'[d] = thread[d]
      BY <2>1, <2>6 DEF Own, IInv, HoldsInv
    <3>2. thread[d].state # "idle" => thread[d].target # b
      BY <1>1, <1>4, <2>6, OneOwner
    <3>3. thread[d].state \in {"created", "loaded", "put0", "got", "wait", "pop"} =>
             thread[d].target \in Blue /\ worker_collection'[thread[d].target] = worker_collection[thread[d].target]
      BY <2>2, <3>1, <3>2 DEF Holds
    <3>. QED
      BY <1>1, <3>1, <3>3 DEF ThreadOk, ThreadOwns, ThreadStarts, ThreadAnswered
  <2>7. ThreadOk(c)'
    BY <2>1, FreeOk
  <2>8. ASSUME NEW a \in Blue PROVE StoreOk(a)'
    BY <1>1 DEF Own, StoreOk
  <2>. QED
    BY <2>5, <2>6, <2>7, <2>8 DEF Own
<1>. QED
  BY <1>3, <1>4, <1>5 DEF pop_worker

\* A kill leaves the database and the VIMs as they are, and nothing else.
LEMMA KillOwn ==
    ASSUME IInv, Own, kill
    PROVE  Own'
<1>1. /\ \A w \in Worker : worker'[w] = Unborn
      /\ \A c \in Client : thread'[c] = Free
      /\ UNCHANGED <<db, infra, used>>
  BY DEF kill
<1>2. Unborn.state = "unborn" /\ Unborn.message_queue = <<>>
  BY DEF Unborn
<1>3. ASSUME NEW w \in Worker PROVE WorkerOk(w)'
  BY <1>1, <1>2 DEF WorkerOk, WorkerMessages, WorkerStores, WorkerKnown, Owes, Owing, Stopping, Writing, Present
<1>4. ASSUME NEW c \in Client PROVE ThreadOk(c)'
  BY <1>1, FreeOk
<1>5. ASSUME NEW b \in Blue PROVE StoreOk(b)'
  BY <1>1 DEF Own, StoreOk
<1>. QED
  BY <1>3, <1>4, <1>5 DEF Own

LEMMA InitOwn == Init => Own
<1>. SUFFICES ASSUME Init PROVE Own
  OBVIOUS
<1>1. /\ \A w \in Worker : worker[w] = Unborn
      /\ \A c \in Client : thread[c] = Free
      /\ \A b \in Blue : db[b] = NoRecord /\ infra[b] = FALSE
  BY DEF Init
<1>2. Unborn.state = "unborn" /\ Unborn.message_queue = <<>> /\ Free.state = "idle"
  BY DEF Unborn, Free
<1>3. ASSUME NEW w \in Worker PROVE WorkerOk(w)
  BY <1>1, <1>2 DEF WorkerOk, WorkerMessages, WorkerStores, WorkerKnown, Owes, Owing, Stopping, Writing, Present
<1>4. ASSUME NEW c \in Client PROVE ThreadOk(c)
  BY <1>1, <1>2 DEF ThreadOk, ThreadOwns, ThreadStarts, ThreadAnswered, ToldStopped
<1>5. ASSUME NEW b \in Blue PROVE StoreOk(b)
  BY <1>1 DEF StoreOk
<1>. QED
  BY <1>3, <1>4, <1>5 DEF Own

LEMMA StutterOwn == ASSUME Own, UNCHANGED vars PROVE Own'
<1>. USE DEF vars, storeVars
<1>1. ASSUME NEW w \in Worker PROVE WorkerOk(w)'
  <2>1. WorkerOk(w)
    BY DEF Own
  <2>2. WorkerMessages(w)'
    BY <2>1 DEF WorkerOk, WorkerMessages, Owes
  <2>. QED
    BY <2>1, <2>2 DEF WorkerOk, WorkerStores, WorkerKnown
<1>2. ASSUME NEW c \in Client PROVE ThreadOk(c)'
  BY DEF Own, ThreadOk, ThreadOwns, ThreadStarts, ThreadAnswered
<1>3. ASSUME NEW b \in Blue PROVE StoreOk(b)'
  BY DEF Own, StoreOk
<1>. QED
  BY <1>1, <1>2, <1>3 DEF Own

LEMMA StepOwn ==
    ASSUME OwnersOnly, IInv, IInv', Own, [Next]_vars
    PROVE  Own'
<1>1. ASSUME NEW c \in Client, CallerStep(c) PROVE Own'
  BY <1>1, CreateOwn, BeginOwn, NoDeleteAll DEF CallerStep
<1>2. ASSUME NEW c \in Client, ManagerStep(c) PROVE Own'
  BY <1>2, StartsOwn, CreateRaisesOwn, PutsOwn, GetLoadedOwn, GetFromDbOwn, RefusedOwn, PopOwn, WakeOwn, NoDeleteAll DEF ManagerStep
<1>3. ASSUME NEW w \in Worker, set_idle(w) PROVE Own'
  <2>1. /\ worker[w].state = "answered"
        /\ Serialise(w, "ending", [worker[w].base_model EXCEPT !.operation = "idle", !.error = FALSE])
        /\ UNCHANGED <<storeVars, worker_collection, thread>>
    BY <1>3 DEF set_idle
  <2>. QED
    BY <2>1, SetIdleOwn
<1>4. ASSUME NEW w \in Worker, Listen(w) \/ die(w) PROVE Own'
  BY <1>3, <1>4, ReceiveOwn, SaveStartedOwn, CreateServerOwn, SaveToDbOwn, OperationOkOwn, OperationErrorOwn,
     EventErrorOwn, SaveEndedOwn, DestroyOwn, StopOwn, DieOwn DEF Listen
<1>5. CASE kill
  BY <1>5, KillOwn
<1>6. CASE UNCHANGED vars
  BY <1>6, StutterOwn
<1>. QED
  BY <1>1, <1>2, <1>4, <1>5, <1>6 DEF Next

-----------------------------------------------------------------------------
(***************************************************************************)
(* The theorems.                                                           *)
(***************************************************************************)

\* Whatever the parents ask for, wherever a worker dies and whenever the process
\* is killed, a parent and the worker of its child keep to the invariant.
THEOREM OwnerInvariance ==
    ASSUME OwnersOnly
    PROVE  Spec => [](IInv /\ Own)
<1>1. Init => Own
  BY InitOwn
<1>2. IInv /\ IInv' /\ Own /\ [Next]_vars => Own'
  BY StepOwn
<1>. QED
  BY <1>1, <1>2, Invariance, PTL DEF Spec

\* A worker that waits for a message has saved its blueprint (the to_db calls of
\* create_blueprint and _listen).
THEOREM IdleWorkersAreSaved ==
    ASSUME OwnersOnly
    PROVE  Spec => []IdleWorkerIsSaved
<1>1. Own => IdleWorkerIsSaved
  BY DEF Own, WorkerOk, WorkerStores, IdleWorkerIsSaved
<1>. QED
  BY <1>1, OwnerInvariance, PTL

\* Whenever the process is killed, the database knows what is deployed: save_to_db
\* comes with the deployment and destroy_ng_blue after the removal.
THEOREM DeployedIsAlwaysRecorded ==
    ASSUME OwnersOnly
    PROVE  Spec => []DeployedIsRecorded
<1>1. Own => DeployedIsRecorded
  BY DEF Own, StoreOk, DeployedIsRecorded
<1>. QED
  BY <1>1, OwnerInvariance, PTL

-----------------------------------------------------------------------------
(***************************************************************************)
(* The manager implements the life cycle of a blueprint, step by step.     *)
(***************************************************************************)

LifeStep == [Lifecycle!Next]_Lifecycle!vars

\* A step that neither inserts nor removes a record is a stutter.
LEMMA SameLife ==
    ASSUME \A b \in Blue : (db'[b] = NoRecord) <=> (db[b] = NoRecord), UNCHANGED <<used, infra>>
    PROVE  LifeStep
<1>1. UNCHANGED Lifecycle!vars
  BY DEF Lifecycle!vars
<1>. QED
  BY <1>1 DEF LifeStep

LEMMA StoreKeptLife == ASSUME UNCHANGED storeVars PROVE LifeStep
  BY SameLife DEF storeVars

\* A worker that may still write overwrites a record that is there.
LEMMA OverwriteLife ==
    ASSUME IInv, Own, NEW w \in Worker, worker[w].state \in Writing,
           NEW m \in Record, db' = [db EXCEPT ![worker[w].blueprint] = m]
    PROVE  /\ worker[w].blueprint \in Blue /\ db[worker[w].blueprint] # NoRecord
           /\ \A b \in Blue : (db'[b] = NoRecord) <=> (db[b] = NoRecord)
<1>1. db[worker[w].blueprint] # NoRecord
  BY DEF Own, WorkerOk, WorkerStores
<1>2. worker[w].blueprint \in Blue
  BY ListenParts DEF Writing
<1>. QED
  BY <1>1, <1>2, NullAssumption DEF IInv, TypeOK

\* create_blueprint inserts the record of an identifier that is new.
LEMMA CreateLife ==
    ASSUME IInv, NEW c \in Client, NEW r, NEW b \in Blue, create_blueprint(c, r, b)
    PROVE  LifeStep
<1>1. /\ b \notin used /\ db[b] = NoRecord /\ db' = [db EXCEPT ![b] = FreshRecord]
      /\ used' = used \cup {b} /\ infra' = infra
  BY DEF create_blueprint
<1>2. FreshRecord # NoRecord
  <2>1. FreshRecord \in Record
    BY DEF FreshRecord, Record, CurrentOperation
  <2>. QED
    BY <2>1, NullAssumption
<1>3. Lifecycle!Create(b)
  BY <1>1, <1>2 DEF Lifecycle!Create, IInv, TypeOK
<1>. QED
  BY <1>3 DEF LifeStep, Lifecycle!Next

\* The to_db calls of _listen overwrite the record.
LEMMA SaveLife ==
    ASSUME IInv, Own, NEW w \in Worker, save_started(w) \/ save_ended(w) \/ final_cleanup(w)
    PROVE  LifeStep
<1>1. worker[w].state \in Writing /\ worker[w].state \in Present
  BY DEF save_started, save_ended, final_cleanup, Writing, Present, WorkerState
<1>2. worker[w].base_model \in Record /\ worker[w].buffer \in Record
  BY <1>1, ListenParts DEF BlueprintWorker
<1>3. PICK m \in Record : db' = [db EXCEPT ![worker[w].blueprint] = m] /\ UNCHANGED <<infra, used>>
  BY <1>2 DEF save_started, save_ended, final_cleanup
<1>. QED
  BY <1>1, <1>3, OverwriteLife, SameLife

\* save_to_db of a provider deploys.
LEMMA SaveToDbLife ==
    ASSUME IInv, Own, NEW w \in Worker, save_to_db(w)
    PROVE  LifeStep
<1>1. worker[w].state \in Writing /\ worker[w].state \in Present
  BY DEF save_to_db, Writing, Present, WorkerState
<1>2. PICK b \in Blue : b = worker[w].blueprint
  BY <1>1, ListenParts
<1>3. PICK m : m = [worker[w].base_model EXCEPT !.resources = TRUE]
  OBVIOUS
<1>4. m \in Record
  BY <1>1, <1>3, ListenParts DEF Record
<1>5. db' = [db EXCEPT ![b] = m] /\ infra' = [infra EXCEPT ![b] = TRUE] /\ used' = used
  BY <1>2, <1>3 DEF save_to_db
<1>6. db[b] # NoRecord /\ \A x \in Blue : (db'[x] = NoRecord) <=> (db[x] = NoRecord)
  BY <1>1, <1>2, <1>4, <1>5, OverwriteLife
<1>7. Lifecycle!Deploy(b)
  BY <1>2, <1>5, <1>6 DEF Lifecycle!Deploy
<1>. QED
  BY <1>2, <1>7 DEF LifeStep, Lifecycle!Next

\* BlueprintNG.destroy tears down all that is deployed ...
LEMMA DestroyLife ==
    ASSUME IInv, Own, NEW w \in Worker, destroy_resources(w)
    PROVE  LifeStep
<1>1. worker[w].state \in Writing /\ worker[w].state \in Present
  BY DEF destroy_resources, Writing, Present, WorkerState
<1>2. PICK b \in Blue : b = worker[w].blueprint
  BY <1>1, ListenParts
<1>3. /\ infra' = [infra EXCEPT ![b] = infra[b] /\ ~worker[w].base_model.resources] /\ db' = db /\ used' = used
      /\ db[b] # NoRecord /\ (infra[b] => worker[w].base_model.resources)
  BY <1>1, <1>2, ListenParts DEF destroy_resources, WorkerStores, storeVars
<1>4. infra' = [infra EXCEPT ![b] = FALSE]
  BY <1>3
<1>5. Lifecycle!TearDown(b)
  BY <1>2, <1>3, <1>4 DEF Lifecycle!TearDown
<1>. QED
  BY <1>2, <1>5 DEF LifeStep, Lifecycle!Next

\* ... and destroy_ng_blue deletes what has nothing deployed any more.
LEMMA RemoveLife ==
    ASSUME IInv, Own, NEW w \in Worker, destroy_ng_blue(w)
    PROVE  LifeStep
<1>1. worker[w].state \in Writing /\ worker[w].state \in Present
  BY DEF destroy_ng_blue, Writing, Present, WorkerState
<1>2. PICK b \in Blue : b = worker[w].blueprint
  BY <1>1, ListenParts
<1>3. /\ db' = [db EXCEPT ![b] = NoRecord] /\ infra' = infra /\ used' = used
      /\ db[b] # NoRecord /\ ~infra[b] /\ b \in used
  BY <1>1, <1>2, ListenParts DEF destroy_ng_blue, WorkerStores, StoreOk
<1>4. Lifecycle!Delete(b)
  BY <1>2, <1>3 DEF Lifecycle!Delete, IInv, TypeOK
<1>. QED
  BY <1>2, <1>4 DEF LifeStep, Lifecycle!Next

\* Every step of the manager is a step of the life cycle or a stutter.
LEMMA StepLife ==
    ASSUME IInv, Own, [Next]_vars
    PROVE  LifeStep
<1>1. ASSUME NEW c \in Client, CallerStep(c) PROVE LifeStep
  BY <1>1, CreateLife, StoreKeptLife DEF CallerStep, begin_request, begin_delete_all
<1>2. ASSUME NEW c \in Client, ManagerStep(c) PROVE LifeStep
  <2>1. ~protect_to_db(c)
    BY DEF Own, ThreadOk, ThreadOwns, protect_to_db
  <2>2. UNCHANGED storeVars
    BY <1>2, <2>1 DEF ManagerStep, create_worker, create_worker_raises, get_worker_start, put_day0, put_day2, get_worker_loaded,
       get_worker_from_db, delete_refused, put_stop, next_delete, pop_worker, wake_up, protect_blueprint
  <2>. QED
    BY <2>2, StoreKeptLife
<1>3. ASSUME NEW w \in Worker, Listen(w) \/ die(w) PROVE LifeStep
  <2>1. CASE receive(w) \/ create_server(w) \/ operation_ok(w) \/ operation_error(w) \/ set_idle(w)
             \/ event_error(w) \/ stop(w) \/ die(w)
    <3>1. UNCHANGED storeVars
      BY <2>1 DEF receive, create_server, operation_ok, operation_error, set_idle, event_error, stop, die
    <3>. QED
      BY <3>1, StoreKeptLife
  <2>2. CASE create_failed(w)
    BY <2>2, SameLife DEF create_failed
  <2>. QED
    BY <1>3, <2>1, <2>2, SaveLife, SaveToDbLife, DestroyLife, RemoveLife DEF Listen
<1>4. CASE kill
  BY <1>4, SameLife DEF kill
<1>5. CASE UNCHANGED vars
  BY <1>5, StoreKeptLife DEF vars
<1>. QED
  BY <1>1, <1>2, <1>3, <1>4, <1>5 DEF Next

\* For blueprints that only their parent uses, the manager with its workers, its
\* restarts and its dying threads implements the life cycle: created once, deployed
\* only while it exists, deleted for good and with nothing left deployed.
THEOREM OwnersRefineLifecycle ==
    ASSUME OwnersOnly
    PROVE  Spec => LifecycleSpec
<1>1. Init => Lifecycle!Init
  BY DEF Init, Lifecycle!Init
<1>2. IInv /\ Own /\ [Next]_vars => [Lifecycle!Next]_Lifecycle!vars
  BY StepLife DEF LifeStep
<1>. QED
  BY <1>1, <1>2, OwnerInvariance, PTL DEF Spec, LifecycleSpec, Lifecycle!Spec
=============================================================================
