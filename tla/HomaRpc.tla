------------------------------ MODULE HomaRpc ------------------------------
(***************************************************************************)
(* The RPC layer of crates/homa-rpc (rpc/mod.rs): callers that retry with  *)
(* the same rpc_id, the dispatcher thread that routes responses to         *)
(* waiters, the server loop with its dedup map, and the worker pool.       *)
(* The transport below is what HomaDelivery states: each message is        *)
(* received at most once or lost; a message id the peer has already        *)
(* completed is dropped by its receiver core.                              *)
(*                                                                         *)
(* One client address.  A restart keeps the address and starts the rpc_id  *)
(* and msg_id counters again at 1; a payload is named by the life of the   *)
(* client and the rpc_id, and the response to a payload by that payload.   *)
(***************************************************************************)
EXTENDS Naturals, Sequences, FiniteSets

CONSTANTS
  Callers,      \* threads of the client process that issue calls
  Workers,      \* pool threads (SERVER_POOL_SIZE = 32 in the code)
  MaxAttempts,  \* max_attempts (5 by default)
  MaxCalls,     \* bound on rpc_ids used in one life of the client
  MaxLives,     \* bound on lives of the client process
  Instances,    \* the instances: callers, workers, kinds of call, and bounds
  NoCall

ASSUME RpcConstants ==
  /\ MaxAttempts \in Nat /\ MaxCalls \in Nat /\ MaxLives \in Nat \ {0}
  /\ \A i \in Instances :
       /\ i.callers \subseteq Callers /\ i.workers \subseteq Workers
       /\ i.kinds \subseteq {"call", "timed", "only"}
       /\ i.calls \in 0 .. MaxCalls /\ i.lives \in 0 .. MaxLives
       /\ {i.panics, i.drops} \subseteq BOOLEAN

VARIABLES
  inst,       \* the instance
  life, nextId, nextMsg,  \* the client process and its two counters
  call,       \* what each caller is doing
  waiters,    \* RpcClient.waiters: rpc_id -> the channel of one attempt
  inbox,      \* the response delivered into each caller's current channel
  requests,   \* request messages sent and not yet received or lost
  responses,  \* how many responses to each payload are not yet received or lost
  held,       \* the response the dispatcher is routing
  seen,       \* msg_ids the server's receiver core has completed
  dedup,      \* the server's map: rpc_id -> "none", "computing" or a response
  jobs,       \* the pool's queue
  worker,     \* the job each worker runs
  server,     \* the server thread: "loop", "flag", "notify", "join" or "gone"
  stop,       \* the flag of RpcServer, and that of ThreadPool
  missed,     \* history: workers about to wait when the pool was notified
  executed,   \* history: how often the handler ran on each payload
  panicked,   \* history: the payloads on which the handler panicked
  ended       \* history: the calls that returned, with their outcome

clientVars == <<life, nextId, nextMsg, call, waiters, inbox, ended>>
dropVars   == <<server, stop, missed>>
serverVars == <<seen, dedup, jobs, worker, executed, panicked, dropVars, inst>>
vars == <<clientVars, serverVars, requests, responses, held>>

RpcIds   == 1 .. MaxCalls
Payloads == [life : 1 .. MaxLives, rpc : RpcIds]

(* A worker without a job: before its test of the flag and the queue, about to
   wait with the mutex held, waiting, or returned. *)
Idle    == [step |-> "idle"]
About   == [step |-> "about"]
Waiting == [step |-> "waiting"]
Exited  == [step |-> "exited"]

Absent    == [state |-> "absent"]
Computing == [state |-> "computing"]
Done(p)   == [state |-> "done", response |-> p]
Tries    == IF MaxAttempts = 0 THEN 1 ELSE MaxAttempts

Calls == [rpc : RpcIds, tries : 0 .. Tries,
          at : {"attempt", "send", "wait", "retry", "timedSend", "timedSent", "timedWait", "timedOut", "onlySend"}]
Channels == [caller : Callers, try : 1 .. Tries]
Jobs == [step : {"run", "store", "send"}, payload : Payloads]

(* NoCall is no call, no channel and no response. *)
ASSUME NoCallAssumption == NoCall \notin Calls \cup Channels \cup Payloads

Init ==
  /\ inst \in Instances
  /\ life = 1 /\ nextId = 1 /\ nextMsg = 1
  /\ call = [c \in Callers |-> NoCall]
  /\ waiters = [r \in RpcIds |-> NoCall]
  /\ inbox = [c \in Callers |-> NoCall]
  /\ requests = {} /\ responses = [p \in Payloads |-> 0] /\ held = NoCall
  /\ seen = {}
  /\ dedup = [r \in RpcIds |-> Absent]
  /\ jobs = <<>>
  /\ worker = [w \in Workers |-> Idle]
  /\ server = "loop" /\ stop = [server |-> FALSE, pool |-> FALSE] /\ missed = {}
  /\ executed = [p \in Payloads |-> 0]
  /\ panicked = {}
  /\ ended = {}

-----------------------------------------------------------------------------
(* The client. *)

Payload(c) == [life |-> life, rpc |-> call[c].rpc]
At(c, where) == call[c] # NoCall /\ call[c].at = where
Goes(c, where) == [call EXCEPT ![c].at = where]
Returns(c, outcome, answer) ==
  /\ ended' = ended \cup {[payload |-> Payload(c), tries |-> call[c].tries,
                          outcome |-> outcome, answer |-> answer]}
  /\ call' = [call EXCEPT ![c] = NoCall]

(* call_with_timeout, call_timed and send_only take a fresh rpc_id. *)
Begin(c, kind) ==
  /\ call[c] = NoCall
  /\ nextId <= inst.calls
  /\ call' = [call EXCEPT ![c] = [rpc |-> nextId, tries |-> 0,
                                  at |-> CASE kind = "call" -> "attempt" [] kind = "timed" -> "timedSend"
                                              [] kind = "only" -> "onlySend"]]
  /\ nextId' = nextId + 1
  /\ inbox' = [inbox EXCEPT ![c] = NoCall]
  /\ UNCHANGED <<life, nextMsg, waiters, ended, requests, responses, held>>
  /\ UNCHANGED serverVars

(* One attempt: a new channel is registered as the waiter... *)
Register(c) ==
  /\ At(c, "attempt")
  /\ waiters' = [waiters EXCEPT ![call[c].rpc] = [caller |-> c, try |-> call[c].tries + 1]]
  /\ inbox' = [inbox EXCEPT ![c] = NoCall]
  /\ call' = [call EXCEPT ![c].at = "send", ![c].tries = @ + 1]
  /\ UNCHANGED <<life, nextId, nextMsg, ended, requests, responses, held>>
  /\ UNCHANGED serverVars

Request(c) == [msg |-> nextMsg, payload |-> Payload(c)]

(* ... then send_pokeable, then the wait on the channel. *)
SendRequest(c) ==
  /\ At(c, "send")
  /\ requests' = requests \cup {Request(c)}
  /\ nextMsg' = nextMsg + 1
  /\ call' = Goes(c, "wait")
  /\ UNCHANGED <<life, nextId, waiters, inbox, ended, responses, held>>
  /\ UNCHANGED serverVars

(* send_pokeable or send_vec fails (a socket error, or send_timeout on a long
   request): "?" returns the error to the caller at once.  The message stays with
   the sender core or on the wire, and may still arrive. *)
SendRequestFails(c) ==
  /\ At(c, "send") \/ At(c, "timedSend") \/ At(c, "onlySend")
  /\ requests' = requests \cup {Request(c)}
  /\ nextMsg' = nextMsg + 1
  /\ Returns(c, "sendError", NoCall)
  /\ UNCHANGED <<life, nextId, waiters, inbox, responses, held>>
  /\ UNCHANGED serverVars

(* The response is in the channel: confirm, return it. *)
TakeResponse(c) ==
  /\ At(c, "wait") \/ At(c, "timedWait")
  /\ inbox[c] # NoCall
  /\ Returns(c, "ok", inbox[c])
  /\ UNCHANGED <<life, nextId, nextMsg, waiters, inbox, requests, responses, held>>
  /\ UNCHANGED serverVars

(* recv_timeout expires with an empty channel. *)
Expire(c) ==
  /\ At(c, "wait") \/ At(c, "timedWait")
  /\ inbox[c] = NoCall
  /\ call' = Goes(c, IF call[c].at = "wait" THEN "retry" ELSE "timedOut")
  /\ UNCHANGED <<life, nextId, nextMsg, waiters, inbox, ended, requests, responses, held>>
  /\ UNCHANGED serverVars

(* Remove the waiter, finish the message (a datagram of it may still arrive),
   and start the next attempt or give up. *)
Retry(c) ==
  /\ At(c, "retry")
  /\ waiters' = [waiters EXCEPT ![call[c].rpc] = NoCall]
  /\ IF call[c].tries < Tries
     THEN call' = Goes(c, "attempt") /\ UNCHANGED ended
     ELSE Returns(c, "timeout", NoCall)
  /\ UNCHANGED <<life, nextId, nextMsg, inbox, requests, responses, held>>
  /\ UNCHANGED serverVars

(* call_timed sends first and registers its waiter afterwards; one attempt. *)
TimedSend(c) ==
  /\ At(c, "timedSend")
  /\ requests' = requests \cup {Request(c)}
  /\ nextMsg' = nextMsg + 1
  /\ call' = [call EXCEPT ![c].at = "timedSent", ![c].tries = 1]
  /\ UNCHANGED <<life, nextId, waiters, inbox, ended, responses, held>>
  /\ UNCHANGED serverVars

TimedRegister(c) ==
  /\ At(c, "timedSent")
  /\ waiters' = [waiters EXCEPT ![call[c].rpc] = [caller |-> c, try |-> 1]]
  /\ call' = Goes(c, "timedWait")
  /\ UNCHANGED <<life, nextId, nextMsg, inbox, ended, requests, responses, held>>
  /\ UNCHANGED serverVars

TimedOut(c) ==
  /\ At(c, "timedOut")
  /\ waiters' = [waiters EXCEPT ![call[c].rpc] = NoCall]
  /\ Returns(c, "timeout", NoCall)
  /\ UNCHANGED <<life, nextId, nextMsg, inbox, requests, responses, held>>
  /\ UNCHANGED serverVars

(* send_only does not wait for the response. *)
SendOnly(c) ==
  /\ At(c, "onlySend")
  /\ requests' = requests \cup {Request(c)}
  /\ nextMsg' = nextMsg + 1
  /\ Returns(c, "sent", NoCall)
  /\ UNCHANGED <<life, nextId, waiters, inbox, responses, held>>
  /\ UNCHANGED serverVars

(* The process dies and is started again on the same address. *)
Restart ==
  /\ life < inst.lives
  /\ life' = life + 1 /\ nextId' = 1 /\ nextMsg' = 1
  /\ call' = [c \in Callers |-> NoCall]
  /\ waiters' = [r \in RpcIds |-> NoCall]
  /\ inbox' = [c \in Callers |-> NoCall]
  /\ held' = NoCall
  /\ UNCHANGED <<ended, requests, responses>>
  /\ UNCHANGED serverVars

(* The dispatcher thread: receive a response, take the waiter out of the map
   under its lock, then send into the channel, which may be gone by then. *)
DispatchRecv(p) ==
  /\ held = NoCall
  /\ responses[p] > 0
  /\ responses' = [responses EXCEPT ![p] = @ - 1]
  /\ held' = [at |-> "received", response |-> p]
  /\ UNCHANGED requests /\ UNCHANGED clientVars /\ UNCHANGED serverVars

DispatchRemove ==
  /\ held # NoCall
  /\ held.at = "received"
  /\ LET r == held.response.rpc
     IN  /\ held' = IF waiters[r] = NoCall THEN NoCall
                    ELSE [at |-> "routed", response |-> held.response, to |-> waiters[r]]
         /\ waiters' = [waiters EXCEPT ![r] = NoCall]
  /\ UNCHANGED <<life, nextId, nextMsg, call, inbox, ended, requests, responses>>
  /\ UNCHANGED serverVars

(* Mutant: a response goes to whatever the caller waits for now. *)
ChannelOpen_AnyCall(to, p) == call[to.caller] # NoCall

ChannelOpen(to, p) ==
  LET k == call[to.caller]
  IN  k # NoCall /\ k.rpc = p.rpc /\ k.tries = to.try /\ k.at \in {"send", "wait", "timedWait"}

DispatchSend ==
  /\ held # NoCall
  /\ held.at = "routed"
  /\ inbox' = IF ChannelOpen(held.to, held.response)
              THEN [inbox EXCEPT ![held.to.caller] = held.response] ELSE inbox
  /\ held' = NoCall
  /\ UNCHANGED <<life, nextId, nextMsg, call, waiters, ended, requests, responses>>
  /\ UNCHANGED serverVars

-----------------------------------------------------------------------------
(* The server. *)

(* ThreadPool::submit, under the mutex of the queue, wakes one of the workers
   that wait.  A worker is followed to the condition variable only where the
   server is dropped: no submit can come between its test and its wait. *)
MutexFree == \A w \in Workers : worker[w] # About
Asleep == {w \in Workers : worker[w] = Waiting}
Submit(job) ==
  /\ MutexFree
  /\ jobs' = Append(jobs, job)
  /\ IF Asleep = {} THEN UNCHANGED worker
     ELSE \E w \in Asleep : worker' = [worker EXCEPT ![w] = Idle]

(* Mutants: no placeholder while the handler runs; no job behind it. *)
HandleRequest_NoPlaceholder(q) ==
  LET d == dedup[q.payload.rpc]
  IN  /\ server = "loop" /\ q.msg \notin seen
      /\ requests' = requests \ {q}
      /\ seen' = seen \cup {q.msg}
      /\ Submit(IF d.state = "done" THEN [step |-> "send", payload |-> d.response]
                ELSE [step |-> "run", payload |-> q.payload])
      /\ UNCHANGED <<inst, dedup, dropVars, executed, panicked, responses, held>> /\ UNCHANGED clientVars
HandleRequest_NoSubmit(q) ==
  LET r == q.payload.rpc
  IN  /\ server = "loop" /\ q.msg \notin seen
      /\ requests' = requests \ {q}
      /\ seen' = seen \cup {q.msg}
      /\ dedup' = IF dedup[r] = Absent THEN [dedup EXCEPT ![r] = Computing] ELSE dedup
      /\ UNCHANGED <<inst, jobs, worker, dropVars, executed, panicked, responses, held>> /\ UNCHANGED clientVars

(* One turn of the server loop: replay a finished response, drop a request
   that is being computed, or leave a placeholder and queue the handler. *)
HandleRequest(q) ==
  LET r == q.payload.rpc
      d == dedup[r]
  IN  /\ server = "loop" /\ q.msg \notin seen
      /\ requests' = requests \ {q}
      /\ seen' = seen \cup {q.msg}
      /\ \/ /\ d.state = "done"
            /\ Submit([step |-> "send", payload |-> d.response])
            /\ UNCHANGED dedup
         \/ /\ d.state = "computing"
            /\ UNCHANGED <<jobs, dedup, worker>>
         \/ /\ d.state = "absent"
            /\ dedup' = [dedup EXCEPT ![r] = Computing]
            /\ Submit([step |-> "run", payload |-> q.payload])
      /\ UNCHANGED <<inst, dropVars, executed, panicked, responses, held>> /\ UNCHANGED clientVars

(* The receiver core drops a message whose (source, msg_id) it completed. *)
DropCompleted(q) ==
  /\ q.msg \in seen
  /\ requests' = requests \ {q}
  /\ UNCHANGED <<responses, held>> /\ UNCHANGED clientVars /\ UNCHANGED serverVars

(* A worker between two jobs: the flag is tested before the queue. *)
TakeJob(w) ==
  /\ worker[w] = Idle /\ MutexFree /\ ~stop.pool
  /\ jobs # <<>>
  /\ worker' = [worker EXCEPT ![w] = Head(jobs)]
  /\ jobs' = Tail(jobs)
  /\ UNCHANGED <<inst, seen, dedup, dropVars, executed, panicked, requests, responses, held>> /\ UNCHANGED clientVars

WorkerFrame ==
  UNCHANGED <<inst, seen, dedup, jobs, dropVars, executed, panicked, requests, responses, held>> /\ UNCHANGED clientVars

FindNothing(w) ==
  /\ inst.drops /\ worker[w] = Idle /\ MutexFree /\ ~stop.pool /\ jobs = <<>>
  /\ worker' = [worker EXCEPT ![w] = About]
  /\ WorkerFrame
Wait(w) ==
  /\ worker[w] = About
  /\ worker' = [worker EXCEPT ![w] = Waiting]
  /\ WorkerFrame
Exit(w) ==
  /\ worker[w] = Idle /\ MutexFree /\ stop.pool
  /\ worker' = [worker EXCEPT ![w] = Exited]
  /\ WorkerFrame

InStep(w, step) == worker[w].step = step

(* The handler returns ... *)
RunHandler(w) ==
  /\ InStep(w, "run")
  /\ executed' = [executed EXCEPT ![worker[w].payload] = @ + 1]
  /\ worker' = [worker EXCEPT ![w].step = "store"]
  /\ UNCHANGED <<inst, dropVars, seen, dedup, jobs, panicked, requests, responses, held>> /\ UNCHANGED clientVars

(* ... or panics: catch_unwind ends this job only. *)
HandlerPanics(w) ==
  /\ inst.panics
  /\ InStep(w, "run")
  /\ executed' = [executed EXCEPT ![worker[w].payload] = @ + 1]
  /\ panicked' = panicked \cup {worker[w].payload}
  /\ worker' = [worker EXCEPT ![w] = Idle]
  /\ UNCHANGED <<inst, dropVars, seen, dedup, jobs, requests, responses, held>> /\ UNCHANGED clientVars

StoreResponse(w) ==
  /\ InStep(w, "store")
  /\ dedup' = [dedup EXCEPT ![worker[w].payload.rpc] = Done(worker[w].payload)]
  /\ worker' = [worker EXCEPT ![w].step = "send"]
  /\ UNCHANGED <<inst, dropVars, seen, jobs, executed, panicked, requests, responses, held>> /\ UNCHANGED clientVars

SendResponse(w) ==
  /\ InStep(w, "send")
  /\ responses' = [responses EXCEPT ![worker[w].payload] = @ + 1]
  /\ worker' = [worker EXCEPT ![w] = Idle]
  /\ UNCHANGED <<inst, dropVars, seen, dedup, jobs, executed, panicked, requests, held>> /\ UNCHANGED clientVars

(* RpcServer and then ThreadPool are dropped: the flag and the notification of
   the pool are two steps without the mutex, and the queue is not worked off. *)
DropFrame == UNCHANGED <<inst, seen, executed, panicked, requests, responses, held>> /\ UNCHANGED clientVars

DropServer ==
  /\ inst.drops /\ ~stop.server
  /\ stop' = [stop EXCEPT !.server = TRUE]
  /\ UNCHANGED <<server, missed, worker, jobs, dedup>> /\ DropFrame
LoopEnds ==
  /\ server = "loop" /\ stop.server
  /\ server' = "flag"
  /\ UNCHANGED <<stop, missed, worker, jobs, dedup>> /\ DropFrame
SetPoolFlag ==
  /\ server = "flag"
  /\ server' = "notify" /\ stop' = [stop EXCEPT !.pool = TRUE]
  /\ UNCHANGED <<missed, worker, jobs, dedup>> /\ DropFrame
(* Mutant: notify_one. *)
Woken_One == IF Asleep = {} THEN {} ELSE {CHOOSE w \in Asleep : TRUE}
Woken == Asleep
NotifyAll ==
  /\ server = "notify"
  /\ server' = "join"
  /\ worker' = [w \in Workers |-> IF w \in Woken THEN Idle ELSE worker[w]]
  /\ missed' = {w \in Workers : worker[w] = About}
  /\ UNCHANGED <<stop, jobs, dedup>> /\ DropFrame
Joined ==
  /\ server = "join" /\ \A w \in inst.workers : worker[w] = Exited
  /\ server' = "gone"
  /\ jobs' = <<>> /\ dedup' = [r \in RpcIds |-> Absent]
  /\ UNCHANGED <<stop, missed, worker>> /\ DropFrame
ServerStep == LoopEnds \/ SetPoolFlag \/ NotifyAll \/ Joined

-----------------------------------------------------------------------------
(* The transport gives a message up. *)
LoseRequest(q) ==
  /\ requests' = requests \ {q}
  /\ UNCHANGED <<responses, held>> /\ UNCHANGED clientVars /\ UNCHANGED serverVars

LoseResponse(p) ==
  /\ responses[p] > 0
  /\ responses' = [responses EXCEPT ![p] = @ - 1]
  /\ UNCHANGED <<requests, held>> /\ UNCHANGED clientVars /\ UNCHANGED serverVars

CallerStep(c) ==
  \/ Register(c) \/ SendRequest(c) \/ SendRequestFails(c) \/ TakeResponse(c) \/ Expire(c)
  \/ Retry(c) \/ TimedSend(c) \/ TimedRegister(c) \/ TimedOut(c) \/ SendOnly(c)

WorkerStep(w) ==
  \/ TakeJob(w) \/ FindNothing(w) \/ Wait(w) \/ Exit(w)
  \/ RunHandler(w) \/ HandlerPanics(w) \/ StoreResponse(w) \/ SendResponse(w)

Next ==
  \/ \E c \in inst.callers, kind \in inst.kinds : Begin(c, kind)
  \/ \E c \in inst.callers : CallerStep(c)
  \/ \E p \in Payloads : DispatchRecv(p) \/ LoseResponse(p)
  \/ DispatchRemove \/ DispatchSend
  \/ \E q \in requests : HandleRequest(q) \/ DropCompleted(q) \/ LoseRequest(q)
  \/ \E w \in inst.workers : WorkerStep(w)
  \/ DropServer \/ ServerStep
  \/ Restart

Spec == Init /\ [][Next]_vars

(* Every thread keeps running; nothing is assumed of the network. *)
FairSpec ==
  /\ Spec
  /\ \A c \in Callers : WF_vars(c \in inst.callers /\ CallerStep(c))
  /\ \A w \in Workers : WF_vars(w \in inst.workers /\ WorkerStep(w))
  /\ WF_vars(ServerStep)

-----------------------------------------------------------------------------
(* Properties. *)

(* Types; no call makes more attempts than max_attempts allows. *)
TypeOK ==
  /\ life \in 1 .. MaxLives /\ nextId \in 1 .. MaxCalls + 1 /\ nextMsg \in Nat
  /\ inst \in Instances
  /\ call \in [Callers -> {NoCall} \cup Calls]
  /\ waiters \in [RpcIds -> {NoCall} \cup Channels]
  /\ inbox \in [Callers -> {NoCall} \cup Payloads]
  /\ requests \subseteq [msg : Nat, payload : Payloads]
  /\ responses \in [Payloads -> Nat]
  /\ held \in {NoCall} \cup [at : {"received"}, response : Payloads]
                       \cup [at : {"routed"}, response : Payloads, to : Channels]
  /\ seen \subseteq Nat
  /\ dedup \in [RpcIds -> {Absent, Computing} \cup { Done(p) : p \in Payloads }]
  /\ jobs \in Seq(Jobs)
  /\ worker \in [Workers -> {Idle, About, Waiting, Exited} \cup Jobs]
  /\ server \in {"loop", "flag", "notify", "join", "gone"} /\ stop \in [server : BOOLEAN, pool : BOOLEAN]
  /\ missed \subseteq Workers
  /\ executed \in [Payloads -> Nat] /\ panicked \subseteq Payloads
  /\ ended \subseteq [payload : Payloads, tries : 0 .. Tries,
                     outcome : {"ok", "sendError", "timeout", "sent"}, answer : {NoCall} \cup Payloads]

(* The dedup map makes retries harmless: however requests are repeated,
   delayed or overtaken by their own retry while the first one is queued,
   running or answered, the handler runs once per rpc ("handler 只执行一次"). *)
HandlerOnce == \A p \in Payloads : executed[p] <= 1

(* A call that returns a response returns the one computed from its own
   request, by a handler that really ran, as long as the client's address was
   not used by an earlier process, whose rpc_ids its own repeat. *)
OwnAnswer ==
  \A e \in ended : e.outcome = "ok" /\ e.payload.life = 1 =>
    e.answer = e.payload /\ executed[e.payload] > 0

(* The waiter map never leaks: an entry belongs to the attempt in progress,
   except for the entry a failed send leaves behind. *)
NoStaleWaiter ==
  \A r \in RpcIds : waiters[r] # NoCall =>
    \/ LET k == call[waiters[r].caller]
       IN  k # NoCall /\ k.rpc = r /\ k.tries = waiters[r].try
    \/ \E e \in ended : e.payload.rpc = r /\ e.outcome = "sendError"

Panicked(r) == \E p \in panicked : p.rpc = r

(* A request marked as being computed is in the hands of the pool, so that
   dropping its duplicates is safe: the response will be sent "响应算好后".
   A handler that panics is the exception: its mark stays. *)
PlaceholderHasJob ==
  \A r \in RpcIds : dedup[r] = Computing =>
    \/ \E k \in 1 .. Len(jobs) : jobs[k].step = "run" /\ jobs[k].payload.rpc = r
    \/ \E w \in Workers : worker[w].step \in {"run", "store"} /\ worker[w].payload.rpc = r
    \/ Panicked(r)

(* Every call returns, whatever is lost, late or routed to a channel that is
   already closed, and every queued handler job is worked off unless the server
   is dropped. *)
CallEnds ==
  /\ \A c \in Callers : []<>(call[c] = NoCall)
  /\ \A r \in RpcIds : []<>(dedup[r] # Computing \/ Panicked(r) \/ server # "loop")

(* Dropping the server ends, with all workers joined, unless a worker stood
   between its test of the flag and its wait when the pool was notified: the flag
   is stored and the workers are notified without the mutex (ThreadPool::drop). *)
DropEnds == []<>(server \in {"loop", "gone"} \/ missed # {})

(* The two maps tell the truth: a mark in the dedup map has a job behind it,
   a waiter has an attempt behind it, and what the dispatcher passes from one
   to the other is the answer to that call. *)
RpcSafe == TypeOK /\ PlaceholderHasJob /\ NoStaleWaiter /\ OwnAnswer
=============================================================================
