---------------------------- MODULE BlueprintLCM ----------------------------
(***************************************************************************)
(* The life-cycle manager of blueprints: BlueprintManager with its         *)
(* worker_collection, one BlueprintWorker thread per loaded blueprint with *)
(* its message queue, the threads that call the manager (REST handlers run *)
(* in a thread pool, and blueprints that own child blueprints), the        *)
(* "blue-inst-v2" collection in MongoDB, and a kill of the whole process.  *)
(*                                                                         *)
(* A saved blueprint is abstracted to its status, its protected flag and   *)
(* whether it registers any deployed resource.  Redis events, performance  *)
(* records and the day 2 call history are left out, except that a failing  *)
(* redis publish raises where the code does not catch it.                  *)
(***************************************************************************)
EXTENDS Naturals, Sequences, FiniteSets

CONSTANTS
    Blue,       \* blueprint identifiers
    Worker,     \* worker objects the process may create (bound)
    Rest,       \* threads that serve REST requests
    Owner,      \* threads of parent blueprints, calling the manager through
                \* their BlueprintProvider
    Scope,      \* Scope[c]: the blueprints thread c creates and addresses
    MaxRequests, \* bound on the number of requests that arrive
    MaxCrash,   \* bound on the number of kills of the process
    NoRecord, NoWorker, NoBlue, NoClient

Client == Rest \cup Owner

ASSUME ScopeAssumption == Scope \in [Client -> SUBSET Blue]
ASSUME BoundAssumption == MaxRequests \in Nat /\ MaxCrash \in Nat
VARIABLES
    db,                 \* saved blueprints: id -> record or NoRecord
    infra,              \* whether the VIMs host resources the blueprint has
                        \* taken note of (provider data)
    stray,              \* whether they host resources nobody has taken note of
    used,               \* identifiers generate_blueprint_id has returned
    worker_collection,  \* BlueprintManager.worker_collection
    worker,             \* the BlueprintWorker objects
    thread,             \* the threads that call the manager
    requests,           \* requests that have arrived so far
    crashes             \* kills so far

storeVars == <<db, infra, stray, used>>
vars == <<storeVars, worker_collection, worker, thread, requests, crashes>>

(***************************************************************************)
(* Data.                                                                   *)
(***************************************************************************)
CurrentOperation == {"idle", "deploying", "running-day2-op", "destroying"}

Record == [operation : CurrentOperation, error : BOOLEAN,
           protected : BOOLEAN, resources : BOOLEAN]

ASSUME NullAssumption ==
    /\ NoRecord \notin Record
    /\ NoWorker \notin Worker
    /\ NoBlue \notin Blue
    /\ NoClient \notin Client

\* The blueprint as its class constructor leaves it.
FreshRecord == [operation |-> "idle", error |-> FALSE,
                protected |-> FALSE, resources |-> FALSE]

MessageType == {"DAY0", "DAY2", "STOP"}

\* callback is the thread blocked on the message, or NoClient when the
\* callback is absent or posts to a URL (call_callback_url ignores failures).
WorkerMessage == [type : MessageType, callback : Client \cup {NoClient}]

NoMessage == [type |-> "DAY2", callback |-> NoClient]

\* "unborn": not created; "idle": blocked in message_queue.get(); "stopped":
\* left the loop after a STOP; "dead": killed by an uncaught exception.
WorkerState == {"unborn", "idle", "started", "running", "creating", "answered",
                "ending", "destroying", "torn_down", "cleaned", "destroyed", "stopped",
                "dead"}

\* A BlueprintWorker: where its thread is in _listen, the blueprint it was built
\* on, that blueprint in memory, the queue, the message being processed and the
\* serialised blueprint to_db is about to write.
BlueprintWorker == [state : WorkerState, blueprint : Blue \cup {NoBlue},
                    base_model : Record, message_queue : Seq(WorkerMessage),
                    received : WorkerMessage, buffer : Record]

Unborn == [state |-> "unborn", blueprint |-> NoBlue, base_model |-> FreshRecord,
           message_queue |-> <<>>, received |-> NoMessage, buffer |-> FreshRecord]

RestRequests == {"create", "day2", "day2_sync", "delete", "delete_all",
                 "protect", "unprotect"}
OwnerRequests == {"create_sync", "day2_sync", "delete_sync"}
CreateRequests == {"create", "create_sync"}
DeleteRequests == {"delete", "delete_sync", "delete_all"}

\* The request blocks until the worker has called back.
Waits(r) == r \in {"create_sync", "day2_sync", "delete_sync"}

RequestsOf(c) == (IF c \in Rest THEN RestRequests ELSE {})
                 \cup (IF c \in Owner THEN OwnerRequests ELSE {})

ThreadState == {"idle", "created", "put0", "lookup", "loaded", "got", "wait",
                "pop", "next", "save"}

\* A calling thread: where it is, its request and the blueprint of the request,
\* the worker get_worker returned, the blueprints delete_all_blueprints has
\* still to visit, the record it read or is about to write, and namespace["msg"]
\* of its synchronous call.
Thread == [state : ThreadState, request : RestRequests \cup OwnerRequests,
           target : Blue \cup {NoBlue}, handle : Worker \cup {NoWorker},
           todo : SUBSET Blue, buffer : Record, answer : {"none", "OK", "ERROR"}]

Free == [state |-> "idle", request |-> "day2", target |-> NoBlue,
         handle |-> NoWorker, todo |-> {}, buffer |-> FreshRecord,
         answer |-> "none"]

TypeOK ==
    /\ db \in [Blue -> Record \cup {NoRecord}]
    /\ infra \in [Blue -> BOOLEAN]
    /\ stray \in [Blue -> BOOLEAN]
    /\ used \in SUBSET Blue
    /\ worker_collection \in [Blue -> Worker \cup {NoWorker}]
    /\ worker \in [Worker -> BlueprintWorker]
    /\ thread \in [Client -> Thread]
    /\ requests \in 0..MaxRequests
    /\ crashes \in 0..MaxCrash

Init ==
    /\ db = [b \in Blue |-> NoRecord]
    /\ infra = [b \in Blue |-> FALSE]
    /\ stray = [b \in Blue |-> FALSE]
    /\ used = {}
    /\ worker_collection = [b \in Blue |-> NoWorker]
    /\ worker = [w \in Worker |-> Unborn]
    /\ thread = [c \in Client |-> Free]
    /\ requests = 0
    /\ crashes = 0

-----------------------------------------------------------------------------
(***************************************************************************)
(* Threads that call the manager.                                          *)
(***************************************************************************)

\* Thread c goes on as t says.
Continue(c, t) == thread' = [thread EXCEPT ![c] = t]

\* A thread leaves its request: it returned, or raised to the HTTP layer.
EndRequest(c) == Continue(c, Free)

\* A delete is over for its target; delete_all_blueprints goes on.
EndDelete(c) ==
    Continue(c, IF thread[c].request = "delete_all"
                THEN [Free EXCEPT !.state = "next", !.request = "delete_all",
                                  !.todo = thread[c].todo]
                ELSE Free)

\* Worker w goes on as r says.
Becomes(w, r) == worker' = [worker EXCEPT ![w] = r]

\* Mutant: an asynchronous message carries its caller's callback too.
put_message_always_calls_back(c, type, next) ==
    LET t == thread[c] IN
    /\ Becomes(t.handle, [worker[t.handle] EXCEPT
           !.message_queue = Append(@, [type |-> type, callback |-> c])])
    /\ Continue(c, IF Waits(t.request) THEN [t EXCEPT !.state = "wait"] ELSE next)

\* BlueprintWorker.put_message, put_message_sync and call_function_sync on the
\* worker the thread holds: a synchronous caller blocks, another goes on as next
\* says.
put_message(c, type, next) ==
    LET t == thread[c]
        m == [type     |-> type,
              callback |-> IF Waits(t.request) THEN c ELSE NoClient]
    IN  /\ Becomes(t.handle, [worker[t.handle] EXCEPT
                                 !.message_queue = Append(@, m)])
        /\ Continue(c, IF Waits(t.request) THEN [t EXCEPT !.state = "wait"]
                                           ELSE next)

\* Mutant: the new worker is not entered in the collection.
StartWorker_unregistered(w, b, m) ==
    /\ worker[w].state = "unborn"
    /\ w = CHOOSE x \in Worker : worker[x].state = "unborn"
    /\ Becomes(w, [Unborn EXCEPT !.state = "idle", !.blueprint = b,
                                 !.base_model = m])
    /\ UNCHANGED worker_collection

\* A new BlueprintWorker w on blueprint b with in-memory state m: its thread
\* starts and it replaces whatever the collection held for b.  Which of the
\* unused worker objects it is does not matter.
StartWorker(w, b, m) ==
    /\ worker[w].state = "unborn"
    /\ w = CHOOSE x \in Worker : worker[x].state = "unborn"
    /\ Becomes(w, [Unborn EXCEPT !.state = "idle", !.blueprint = b,
                                 !.base_model = m])
    /\ worker_collection' = [worker_collection EXCEPT ![b] = w]

\* A request is accepted (up to the bound on requests).
Arrives == requests < MaxRequests /\ requests' = requests + 1

\* Mutant: the identifier of a deleted blueprint is generated again.
create_blueprint_reuses_id(c, r, b) ==
    /\ thread[c].state = "idle"
    /\ Arrives
    /\ r \in RequestsOf(c) \cap CreateRequests
    /\ b \in Scope[c]
    /\ db[b] = NoRecord
    /\ db' = [db EXCEPT ![b] = FreshRecord]
    /\ used' = used \cup {b}
    /\ Continue(c, [Free EXCEPT !.state = "created", !.request = r, !.target = b])
    /\ UNCHANGED <<infra, stray, worker_collection, worker, crashes>>

\* create_blueprint up to to_db: the blueprint exists in the database before
\* any worker does.  The generated identifier is taken to be a new one.
create_blueprint(c, r, b) ==
    /\ thread[c].state = "idle"
    /\ Arrives
    /\ r \in RequestsOf(c) \cap CreateRequests
    /\ b \in Scope[c] \ used
    /\ db[b] = NoRecord
    /\ db' = [db EXCEPT ![b] = FreshRecord]
    /\ used' = used \cup {b}
    /\ Continue(c, [Free EXCEPT !.state = "created", !.request = r, !.target = b])
    /\ UNCHANGED <<infra, stray, worker_collection, worker, crashes>>

\* create_blueprint: the worker is started and enters the collection.
create_worker(c, w) ==
    /\ thread[c].state = "created"
    /\ StartWorker(w, thread[c].target, FreshRecord)
    /\ Continue(c, [thread[c] EXCEPT !.state = "put0", !.handle = w])
    /\ UNCHANGED <<storeVars, requests, crashes>>

\* create_blueprint: the performance manager raises after the worker's thread has
\* started and before the worker enters the collection.  That thread waits on a
\* queue nobody can reach: the worker is not kept.
create_worker_raises(c) ==
    /\ thread[c].state = "created"
    /\ EndRequest(c)
    /\ UNCHANGED <<storeVars, worker_collection, worker, requests, crashes>>

\* create_blueprint: the DAY0 message is queued, waiting for it or not.
put_day0(c) ==
    /\ thread[c].state = "put0"
    /\ put_message(c, "DAY0", Free)
    /\ UNCHANGED <<storeVars, worker_collection, requests, crashes>>

\* A request on an existing blueprint: day 2, deletion, (un)protection.
begin_request(c, r, b) ==
    /\ thread[c].state = "idle"
    /\ Arrives
    /\ r \in RequestsOf(c) \ (CreateRequests \cup {"delete_all"})
    /\ b \in Scope[c]
    /\ Continue(c, [Free EXCEPT !.state = "lookup", !.request = r, !.target = b])
    /\ UNCHANGED <<storeVars, worker_collection, worker, crashes>>

\* delete_all_blueprints lists the saved blueprints ...
begin_delete_all(c) ==
    /\ thread[c].state = "idle"
    /\ Arrives
    /\ "delete_all" \in RequestsOf(c)
    /\ Continue(c, [Free EXCEPT !.state = "next", !.request = "delete_all",
                                !.todo = {b \in Blue : db[b] # NoRecord}])
    /\ UNCHANGED <<storeVars, worker_collection, worker, crashes>>

\* ... and calls delete_blueprint on one after the other.
next_delete(c) ==
    /\ thread[c].state = "next"
    /\ \/ /\ thread[c].todo = {}
          /\ EndRequest(c)
       \/ \E b \in thread[c].todo :
             Continue(c, [thread[c] EXCEPT !.state = "lookup", !.target = b,
                                           !.todo = @ \ {b}])
    /\ UNCHANGED <<storeVars, worker_collection, worker, requests, crashes>>

\* get_worker: the blueprint is loaded.
get_worker_loaded(c) ==
    /\ thread[c].state = "lookup"
    /\ worker_collection[thread[c].target] # NoWorker
    /\ Continue(c, [thread[c] EXCEPT !.state = "got",
                       !.handle = worker_collection[thread[c].target]])
    /\ UNCHANGED <<storeVars, worker_collection, worker, requests, crashes>>

\* Mutant: the result of the query is not checked.
get_worker_from_db_unchecked(c) ==
    /\ thread[c].state = "lookup"
    /\ worker_collection[thread[c].target] = NoWorker
    /\ Continue(c, [thread[c] EXCEPT !.state = "loaded",
                                     !.buffer = db[thread[c].target]])
    /\ UNCHANGED <<storeVars, worker_collection, worker, requests, crashes>>

\* get_worker: the blueprint is not loaded, its record is read; without one
\* BlueprintNotFoundException ends the request (and a delete_all), and so does an
\* exception in from_db.
get_worker_from_db(c) ==
    /\ thread[c].state = "lookup"
    /\ worker_collection[thread[c].target] = NoWorker
    /\ \/ EndRequest(c)
       \/ /\ db[thread[c].target] # NoRecord
          /\ Continue(c, [thread[c] EXCEPT !.state = "loaded",
                                           !.buffer = db[thread[c].target]])
    /\ UNCHANGED <<storeVars, worker_collection, worker, requests, crashes>>

\* get_worker: a worker on the blueprint read before is started and entered
\* in the collection, without looking at the collection again.
get_worker_start(c, w) ==
    /\ thread[c].state = "loaded"
    /\ StartWorker(w, thread[c].target, thread[c].buffer)
    /\ Continue(c, [thread[c] EXCEPT !.state = "got", !.handle = w,
                                     !.buffer = FreshRecord])
    /\ UNCHANGED <<storeVars, requests, crashes>>

\* update_blueprint, get_from_blueprint, call_blueprint_function.
put_day2(c) ==
    /\ thread[c].state = "got"
    /\ thread[c].request \in {"day2", "day2_sync"}
    /\ put_message(c, "DAY2", Free)
    /\ UNCHANGED <<storeVars, worker_collection, requests, crashes>>

\* delete_blueprint: a protected blueprint is refused ...
delete_refused(c) ==
    /\ thread[c].state = "got"
    /\ thread[c].request \in DeleteRequests
    /\ worker[thread[c].handle].base_model.protected
    /\ EndDelete(c)
    /\ UNCHANGED <<storeVars, worker_collection, worker, requests, crashes>>

\* Mutant: the request ends without the pop.
put_stop_without_pop(c) ==
    /\ thread[c].state = "got"
    /\ thread[c].request \in DeleteRequests
    /\ ~worker[thread[c].handle].base_model.protected
    /\ put_message(c, "STOP", Free)
    /\ UNCHANGED <<storeVars, worker_collection, requests, crashes>>

\* ... for another one STOP is queued.
put_stop(c) ==
    /\ thread[c].state = "got"
    /\ thread[c].request \in DeleteRequests
    /\ ~worker[thread[c].handle].base_model.protected
    /\ put_message(c, "STOP", [thread[c] EXCEPT !.state = "pop"])
    /\ UNCHANGED <<storeVars, worker_collection, requests, crashes>>

\* delete_blueprint: worker_collection.pop, KeyError when the key is gone.
pop_worker(c) ==
    /\ thread[c].state = "pop"
    /\ \/ /\ worker_collection[thread[c].target] = NoWorker
          /\ EndRequest(c)
          /\ UNCHANGED worker_collection
       \/ /\ worker_collection[thread[c].target] # NoWorker
          /\ worker_collection' = [worker_collection EXCEPT
                                      ![thread[c].target] = NoWorker]
          /\ EndDelete(c)
    /\ UNCHANGED <<storeVars, worker, requests, crashes>>

\* The event of a synchronous call has been set: the thread goes on.
wake_up(c) ==
    /\ thread[c].state = "wait"
    /\ thread[c].answer # "none"
    /\ \/ /\ thread[c].request \in DeleteRequests
          /\ Continue(c, [thread[c] EXCEPT !.state = "pop"])
       \/ /\ thread[c].request \notin DeleteRequests
          /\ EndRequest(c)
    /\ UNCHANGED <<storeVars, worker_collection, worker, requests, crashes>>

\* protect_blueprint runs in the caller's thread, on the worker's blueprint:
\* the flag is set and the blueprint serialised ...
protect_blueprint(c) ==
    LET w == thread[c].handle
        m == [worker[w].base_model EXCEPT
                 !.protected = (thread[c].request = "protect")]
    IN  /\ thread[c].state = "got"
        /\ thread[c].request \in {"protect", "unprotect"}
        /\ Becomes(w, [worker[w] EXCEPT !.base_model = m])
        /\ Continue(c, [thread[c] EXCEPT !.state = "save", !.buffer = m])
        /\ UNCHANGED <<storeVars, worker_collection, requests, crashes>>

\* ... then written, inserting the record when it does not exist.
protect_to_db(c) ==
    /\ thread[c].state = "save"
    /\ db' = [db EXCEPT ![thread[c].target] = thread[c].buffer]
    /\ EndRequest(c)
    /\ UNCHANGED <<infra, stray, used, worker_collection, worker, requests, crashes>>

-----------------------------------------------------------------------------
(***************************************************************************)
(* BlueprintWorker._listen.                                                *)
(***************************************************************************)

Goto(w, s) == Becomes(w, [worker[w] EXCEPT !.state = s])

\* Back to message_queue.get(), or out of the loop: the message is forgotten.
Forget(w, s) == Becomes(w, [worker[w] EXCEPT !.state = s, !.received = NoMessage,
                                             !.buffer = FreshRecord])

\* The in-memory blueprint becomes m and is serialised for the to_db that follows.
Serialise(w, s, m) == Becomes(w, [worker[w] EXCEPT !.state = s,
                                                   !.base_model = m, !.buffer = m])

\* Mutant: a failed operation is not reported.
callback_only_ok(w, status) ==
    LET c == worker[w].received.callback IN
    IF c = NoClient \/ status # "OK"
    THEN UNCHANGED thread
    ELSE Continue(c, [thread[c] EXCEPT !.answer = status])

\* callback_function: the answer reaches the blocked thread, if there is one.
callback(w, status) ==
    LET c == worker[w].received.callback IN
    IF c = NoClient THEN UNCHANGED thread
                    ELSE Continue(c, [thread[c] EXCEPT !.answer = status])

\* The status an operation starts with.
StartedStatus(type) == CASE type = "DAY0" -> "deploying"
                         [] type = "DAY2" -> "running-day2-op"
                         [] type = "STOP" -> "destroying"

\* A message is taken and the status is set; for DAY0 and DAY2 the blueprint is
\* serialised to be saved, for STOP the new status is not saved.
receive(w) ==
    /\ worker[w].state = "idle"
    /\ worker[w].message_queue # <<>>
    /\ LET m == Head(worker[w].message_queue)
           blue == [worker[w].base_model EXCEPT
                       !.operation = StartedStatus(m.type), !.error = FALSE]
       IN  Becomes(w, [worker[w] EXCEPT
               !.state = IF m.type = "STOP" THEN "destroying" ELSE "started",
               !.received = m,
               !.message_queue = Tail(@),
               !.base_model = blue,
               !.buffer = IF m.type = "STOP" THEN @ ELSE blue])
    /\ UNCHANGED <<storeVars, worker_collection, thread, requests, crashes>>

\* The to_db that follows the start of an operation.
save_started(w) ==
    /\ worker[w].state = "started"
    /\ db' = [db EXCEPT ![worker[w].blueprint] = worker[w].buffer]
    /\ Becomes(w, [worker[w] EXCEPT !.state = "running", !.buffer = FreshRecord])
    /\ UNCHANGED <<infra, stray, used, worker_collection, thread, requests, crashes>>

\* The operation deploys: create_vm has the VIM build a server (one stands for
\* all resources of the blueprint, so that it is not deployed twice) ...
create_server(w) ==
    /\ worker[w].state = "running"
    /\ ~(worker[w].base_model.resources /\ infra[worker[w].blueprint])
    /\ Goto(w, "creating")
    /\ UNCHANGED <<storeVars, worker_collection, thread, requests, crashes>>

\* Mutant: the provider does not save what it has deployed.
save_to_db_forgotten(w) ==
    LET b == worker[w].blueprint
        m == [worker[w].base_model EXCEPT !.resources = TRUE]
    IN  /\ worker[w].state = "creating"
        /\ infra' = [infra EXCEPT ![b] = TRUE]
        /\ Becomes(w, [worker[w] EXCEPT !.state = "running", !.base_model = m])
        /\ UNCHANGED <<db, stray, used, worker_collection, thread, requests, crashes>>

\* ... and when the server is there the provider takes note of its identifier and
\* saves the blueprint.
save_to_db(w) ==
    LET b == worker[w].blueprint
        m == [worker[w].base_model EXCEPT !.resources = TRUE]
    IN  /\ worker[w].state = "creating"
        /\ infra' = [infra EXCEPT ![b] = TRUE]
        /\ Becomes(w, [worker[w] EXCEPT !.state = "running", !.base_model = m])
        /\ db' = [db EXCEPT ![b] = m]
        /\ UNCHANGED <<stray, used, worker_collection, thread, requests, crashes>>

\* The operation returns: the caller is answered before the status changes.
operation_ok(w) ==
    /\ worker[w].state = "running"
    /\ callback(w, "OK")
    /\ Goto(w, "answered")
    /\ UNCHANGED <<storeVars, worker_collection, requests, crashes>>

\* The operation raises: the status keeps the operation and gets the error.
operation_error(w) ==
    /\ worker[w].state = "running"
    /\ callback(w, "ERROR")
    /\ Serialise(w, "ending", [worker[w].base_model EXCEPT !.error = TRUE])
    /\ UNCHANGED <<storeVars, worker_collection, requests, crashes>>

\* The call that creates the server raises, with or without a server left on the
\* VIM (it waits for the server, and the wait may time out).
create_failed(w) ==
    /\ worker[w].state = "creating"
    /\ \/ UNCHANGED stray
       \/ stray' = [stray EXCEPT ![worker[w].blueprint] = TRUE]
    /\ callback(w, "ERROR")
    /\ Serialise(w, "ending", [worker[w].base_model EXCEPT !.error = TRUE])
    /\ UNCHANGED <<db, infra, used, worker_collection, requests, crashes>>

\* After the answer: the status becomes idle and the blueprint is serialised.
set_idle(w) ==
    /\ worker[w].state = "answered"
    /\ Serialise(w, "ending", [worker[w].base_model EXCEPT !.operation = "idle",
                                                           !.error = FALSE])
    /\ UNCHANGED <<storeVars, worker_collection, thread, requests, crashes>>

\* The event that announces success cannot be published: the exception handler
\* marks the error and calls the same callback a second time, which a caller
\* that has not woken up yet will read.
event_error(w) ==
    LET c == worker[w].received.callback IN
    /\ worker[w].state = "answered"
    /\ \/ /\ c # NoClient
          /\ thread[c].state = "wait"
          /\ thread[c].handle = w
          /\ thread[c].answer # "none"
          /\ callback(w, "ERROR")
       \/ /\ c # NoClient => \/ thread[c].state # "wait"
                             \/ thread[c].handle # w
                             \/ thread[c].answer = "none"
          /\ UNCHANGED thread
    /\ Serialise(w, "ending", [worker[w].base_model EXCEPT !.operation = "idle",
                                                           !.error = TRUE])
    /\ UNCHANGED <<storeVars, worker_collection, requests, crashes>>

\* Mutant: the to_db at the end of an operation is missing.
save_ended_skipped(w) ==
    /\ worker[w].state = "ending"
    /\ Forget(w, "idle")
    /\ UNCHANGED <<storeVars, worker_collection, thread, requests, crashes>>

\* The to_db at the end of an operation.
save_ended(w) ==
    /\ worker[w].state = "ending"
    /\ db' = [db EXCEPT ![worker[w].blueprint] = worker[w].buffer]
    /\ Forget(w, "idle")
    /\ UNCHANGED <<infra, stray, used, worker_collection, thread, requests, crashes>>

\* BlueprintNG.destroy: the registered resources are removed from the VIMs ...
destroy_resources(w) ==
    /\ worker[w].state = "destroying"
    /\ infra' = [infra EXCEPT ![worker[w].blueprint] =
                                 @ /\ ~worker[w].base_model.resources]
    /\ Goto(w, "torn_down")
    /\ UNCHANGED <<db, stray, used, worker_collection, thread, requests, crashes>>

\* ... the providers clean up, and save the blueprint as the worker has it,
\* inserting the record when it does not exist (destroy_vm has saved it too) ...
final_cleanup(w) ==
    /\ worker[w].state = "torn_down"
    /\ db' = [db EXCEPT ![worker[w].blueprint] = worker[w].base_model]
    /\ Goto(w, "cleaned")
    /\ UNCHANGED <<infra, stray, used, worker_collection, thread, requests, crashes>>

\* ... and destroy_ng_blue removes the record.
destroy_ng_blue(w) ==
    /\ worker[w].state = "cleaned"
    /\ db' = [db EXCEPT ![worker[w].blueprint] = NoRecord]
    /\ Goto(w, "destroyed")
    /\ UNCHANGED <<infra, stray, used, worker_collection, thread, requests, crashes>>

\* The caller that waits for the deletion is answered and the thread ends.
stop(w) ==
    /\ worker[w].state = "destroyed"
    /\ callback(w, "OK")
    /\ Forget(w, "stopped")
    /\ UNCHANGED <<storeVars, worker_collection, requests, crashes>>

\* An exception no handler catches ends the thread: in the redis publish before
\* an operation or in an exception handler, anywhere in destroy, in the clean-up
\* and bookkeeping after the record has been removed.
die(w) ==
    /\ worker[w].state \in {"started", "ending", "destroying", "torn_down",
                            "cleaned", "destroyed"}
    /\ Goto(w, "dead")
    /\ UNCHANGED <<storeVars, worker_collection, thread, requests, crashes>>

-----------------------------------------------------------------------------
\* handle_exit: SIGKILL to the process group.  Only the database and the VIMs
\* survive, with the servers the VIMs were building; the process is started again.
kill ==
    /\ crashes < MaxCrash
    /\ crashes' = crashes + 1
    /\ stray' = [b \in Blue |-> \/ stray[b]
                               \/ \E w \in Worker : /\ worker[w].state = "creating"
                                                    /\ worker[w].blueprint = b]
    /\ worker_collection' = [b \in Blue |-> NoWorker]
    /\ worker' = [w \in Worker |-> Unborn]
    /\ thread' = [c \in Client |-> Free]
    /\ UNCHANGED <<db, infra, used, requests>>

\* A request arrives.
CallerStep(c) ==
    \/ \E r \in CreateRequests, b \in Blue : create_blueprint(c, r, b)
    \/ \E r \in RestRequests \cup OwnerRequests, b \in Blue : begin_request(c, r, b)
    \/ begin_delete_all(c)

\* The manager's code runs in the calling thread.
ManagerStep(c) ==
    \/ \E w \in Worker : create_worker(c, w) \/ get_worker_start(c, w)
    \/ create_worker_raises(c) \/ put_day0(c) \/ put_day2(c)
    \/ get_worker_loaded(c) \/ get_worker_from_db(c)
    \/ delete_refused(c) \/ put_stop(c) \/ next_delete(c) \/ pop_worker(c)
    \/ wake_up(c)
    \/ protect_blueprint(c) \/ protect_to_db(c)

Listen(w) ==
    \/ receive(w) \/ save_started(w) \/ create_server(w) \/ save_to_db(w)
    \/ operation_ok(w) \/ operation_error(w) \/ create_failed(w)
    \/ set_idle(w) \/ event_error(w) \/ save_ended(w)
    \/ destroy_resources(w) \/ final_cleanup(w) \/ destroy_ng_blue(w) \/ stop(w)

Next ==
    \/ \E c \in Client : CallerStep(c) \/ ManagerStep(c)
    \/ \E w \in Worker : Listen(w) \/ die(w)
    \/ kill

Spec == Init /\ [][Next]_vars

\* A thread that can run, runs: every provider call returns or raises.  No
\* request has to arrive, no exception and no kill has to happen.
Fairness ==
    /\ \A c \in Client : WF_vars(ManagerStep(c))
    /\ \A w \in Worker : WF_vars(Listen(w))

FairSpec == Spec /\ Fairness

-----------------------------------------------------------------------------
(***************************************************************************)
(* Properties of the manager under every workload.                         *)
(***************************************************************************)

\* Thread c is blocked in a synchronous call on worker w, unanswered.
BlockedOn(c, w) ==
    thread[c].state = "wait" /\ thread[c].answer = "none" /\ thread[c].handle = w

\* The worker still owes the callback of the message it has taken.
Owing == {"started", "running", "creating", "destroying", "torn_down", "cleaned",
          "destroyed"}
Owes(w) == worker[w].state \in Owing

\* The messages w holds that carry the callback of a thread are those of threads
\* blocked on w, one message each.
HoldsCallbacks(w) ==
    LET queue == worker[w].message_queue IN
    /\ \A i \in 1..Len(queue) :
          queue[i].callback # NoClient =>
             /\ BlockedOn(queue[i].callback, w)
             /\ \A j \in 1..Len(queue) :
                   queue[j].callback = queue[i].callback => i = j
             /\ ~(Owes(w) /\ worker[w].received.callback = queue[i].callback)
    /\ Owes(w) /\ worker[w].received.callback # NoClient
          => BlockedOn(worker[w].received.callback, w)

\* A message carries the callback of a thread only while that very thread is
\* blocked in put_message_sync on that worker, and no thread has two such
\* messages (put_message_sync, _listen): otherwise an answer would reach a thread
\* that has gone on, or one call would be answered by the operation of another.
CallbackReachesItsCaller == \A w \in Worker : HoldsCallbacks(w)

\* A thread in state t is about to remove the collection's entry of blueprint b.
AboutToPop(t, b) ==
    /\ t.target = b
    /\ \/ t.state = "pop"
       \/ /\ t.state = "wait"
          /\ t.request \in DeleteRequests
          /\ t.answer # "none"

\* worker_collection keeps a worker whose thread has left _listen after a STOP
\* only until a deletion that is under way pops the entry: otherwise get_worker
\* would hand out for ever a worker that nobody listens to.
StoppedWorkerIsBeingPopped ==
    \A b \in Blue, w \in Worker :
        worker_collection[b] = w /\ worker[w].state = "stopped" =>
            \E c \in Client : AboutToPop(thread[c], b)

\* A thread in a synchronous call (put_message_sync, call_function_sync) goes
\* on, unless the thread of the worker it waits for has ended.
WaitEndsOrWorkerEnded ==
    \A c \in Client :
        thread[c].state = "wait" ~>
            \/ thread[c].state # "wait"
            \/ worker[thread[c].handle].state \in {"stopped", "dead"}

(***************************************************************************)
(* Properties of blueprints that are only used by the parent that created  *)
(* them, through its BlueprintProvider.                                    *)
(***************************************************************************)

\* No two workers serve the same blueprint (get_worker returns "the blueprint
\* dedicated worker"): stopped threads aside, a blueprint has at most one.
OneWorkerPerBlueprint ==
    \A w1, w2 \in Worker :
        /\ worker[w1].state \notin {"unborn", "stopped"}
        /\ worker[w2].state \notin {"unborn", "stopped"}
        /\ worker[w1].blueprint = worker[w2].blueprint
        => w1 = w2

\* A worker that waits for a message has saved everything: its in-memory
\* blueprint is the one in the database, so that a kill in this state loses
\* nothing (the to_db calls of _listen and of create_blueprint).
IdleWorkerIsSaved ==
    \A w \in Worker :
        worker[w].state = "idle" => db[worker[w].blueprint] = worker[w].base_model

\* What a blueprint has taken note of is known to the database whenever the
\* process is killed (save_to_db in the providers, and destroy_ng_blue as the last
\* step of destroy), so that a restarted process can still remove it.
DeployedIsRecorded ==
    \A b \in Blue : infra[b] => db[b] # NoRecord /\ db[b].resources

\* The manager, its workers and a kill of the process implement the life cycle
\* of a blueprint.
Lifecycle == INSTANCE BlueprintLifecycle WITH
    life     <- [b \in Blue |-> IF db[b] # NoRecord THEN "live"
                                ELSE IF b \in used THEN "deleted" ELSE "none"],
    deployed <- infra

LifecycleSpec == Lifecycle!Spec

(***************************************************************************)
(* What the documentation of the code says and REST clients can break.     *)
(***************************************************************************)

\* "Deletes the blueprint from the NFVCL (DB+worker)": an identifier whose
\* record has been removed does not get a record again.
DeletedStaysDeleted ==
    [][\A b \in used : db[b] = NoRecord => db'[b] = NoRecord]_vars

\* "Blueprint ... is protected and can NOT be destroyed": a record saved as
\* protected is not removed.
ProtectedIsNotDestroyed ==
    [][\A b \in Blue : db[b] # NoRecord /\ db[b].protected
                          => db'[b] # NoRecord]_vars

\* get_from_blueprint returns "The response for the request": every synchronous
\* call is answered, unless an uncaught exception has ended the worker's thread.
SyncCallIsAnswered ==
    \A c \in Client :
        thread[c].state = "wait" ~>
            \/ thread[c].state # "wait"
            \/ worker[thread[c].handle].state = "dead"

\* "This allows to delete a blueprint that crash during the create_vm execution":
\* a deleted blueprint leaves nothing on the VIMs.
NothingLeftBehind ==
    \A b \in used : db[b] = NoRecord => ~infra[b] /\ ~stray[b]

=============================================================================
