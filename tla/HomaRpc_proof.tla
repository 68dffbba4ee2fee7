-------------------------- MODULE HomaRpc_proof --------------------------
(***************************************************************************)
(* Proofs about HomaRpc, for every number of callers, workers, calls,      *)
(* attempts and lives of the client: its types, facts about the jobs, the  *)
(* pool and the server; that a call returns the answer to its own request, *)
(* however requests and responses are lost, repeated and delayed; that an  *)
(* entry of the waiter map belongs to the attempt in progress; and that    *)
(* the server runs the handler of an rpc at most once.                     *)
(***************************************************************************)
EXTENDS HomaRpc, TLAPS

(* The provers in the order in which a leaf tries them, then again with more time. *)
USE SMT, Zenon, SMTT(60), ZenonT(60)

-----------------------------------------------------------------------------
(* The elements of a sequence, one appended to it and one taken from it. *)
LEMMA Elements ==
  ASSUME NEW S, NEW q \in Seq(S)
  PROVE  Len(q) \in Nat /\ \A k \in 1 .. Len(q) : q[k] \in S
OBVIOUS

LEMMA Appended ==
  ASSUME NEW S, NEW q \in Seq(S), NEW e \in S
  PROVE  /\ Append(q, e) \in Seq(S) /\ Len(Append(q, e)) = Len(q) + 1 /\ Len(q) \in Nat
         /\ \A k \in 1 .. Len(q) : Append(q, e)[k] = q[k]
         /\ Append(q, e)[Len(q) + 1] = e
OBVIOUS

LEMMA Dequeued ==
  ASSUME NEW S, NEW q \in Seq(S), q # <<>>
  PROVE  /\ Len(q) \in Nat /\ Len(q) >= 1 /\ Len(Tail(q)) = Len(q) - 1
         /\ Head(q) = q[1] /\ Head(q) \in S /\ Tail(q) \in Seq(S)
         /\ \A k \in 1 .. Len(Tail(q)) : Tail(q)[k] = q[k + 1]
OBVIOUS

-----------------------------------------------------------------------------
(* Types.  A call that is about to make an attempt has one left. *)

TypeInv == TypeOK /\ \A c \in Callers : At(c, "attempt") => call[c].tries < Tries

LEMMA TriesType == Tries \in Nat /\ Tries >= 1
  BY RpcConstants DEF Tries

LEMMA IdsType == MaxCalls \in Nat /\ MaxLives \in Nat /\ MaxLives >= 1 /\ RpcIds \subseteq Nat
  BY RpcConstants DEF RpcIds

(* What a step of a caller needs of its types. *)
LEMMA CallerFacts ==
  ASSUME TypeInv, NEW c \in inst.callers, call[c] # NoCall
  PROVE  /\ c \in Callers /\ call[c] \in Calls /\ call[c].rpc \in RpcIds /\ call[c].tries \in 0 .. Tries
         /\ Payload(c) \in Payloads /\ Request(c) \in [msg : Nat, payload : Payloads]
<1>1. c \in Callers
  BY RpcConstants DEF TypeInv, TypeOK
<1>2. call[c] \in Calls
  BY <1>1 DEF TypeInv, TypeOK
<1>3. call[c].rpc \in RpcIds /\ call[c].tries \in 0 .. Tries
  BY <1>2 DEF Calls
<1>4. life \in 1 .. MaxLives /\ nextMsg \in Nat
  BY DEF TypeInv, TypeOK
<1>5. Payload(c) \in Payloads
  BY <1>3, <1>4 DEF Payload, Payloads
<1> QED
  BY <1>1, <1>2, <1>3, <1>4, <1>5 DEF Request

(* The client's variables after a step that changes only them. *)
ClientTypes ==
  /\ life \in 1 .. MaxLives /\ nextId \in 1 .. MaxCalls + 1 /\ nextMsg \in Nat
  /\ call \in [Callers -> {NoCall} \cup Calls]
  /\ waiters \in [RpcIds -> {NoCall} \cup Channels]
  /\ inbox \in [Callers -> {NoCall} \cup Payloads]
  /\ held \in {NoCall} \cup [at : {"received"}, response : Payloads]
                       \cup [at : {"routed"}, response : Payloads, to : Channels]
  /\ ended \subseteq [payload : Payloads, tries : 0 .. Tries,
                      outcome : {"ok", "sendError", "timeout", "sent"}, answer : {NoCall} \cup Payloads]
  /\ \A c \in Callers : At(c, "attempt") => call[c].tries < Tries

ServerTypes ==
  /\ inst \in Instances
  /\ requests \subseteq [msg : Nat, payload : Payloads]
  /\ responses \in [Payloads -> Nat]
  /\ seen \subseteq Nat
  /\ dedup \in [RpcIds -> {Absent, Computing} \cup { Done(p) : p \in Payloads }]
  /\ jobs \in Seq(Jobs)
  /\ worker \in [Workers -> {Idle, About, Waiting, Exited} \cup Jobs]
  /\ server \in {"loop", "flag", "notify", "join", "gone"} /\ stop \in [server : BOOLEAN, pool : BOOLEAN]
  /\ missed \subseteq Workers
  /\ executed \in [Payloads -> Nat] /\ panicked \subseteq Payloads

LEMMA TypeParts == TypeInv <=> ClientTypes /\ ServerTypes
  BY ZenonT(60) DEF TypeInv, TypeOK, ClientTypes, ServerTypes

LEMMA CallerTypes ==
  ASSUME TypeInv, NEW c \in inst.callers, CallerStep(c)
  PROVE  ClientTypes' /\ ServerTypes'
<1> USE DEF clientVars, serverVars, dropVars
<1>0. call[c] # NoCall
  BY DEF CallerStep, Register, SendRequest, SendRequestFails, TakeResponse, Expire, Retry, TimedSend,
         TimedRegister, TimedOut, SendOnly, At
<1>a. /\ c \in Callers /\ call[c] \in Calls /\ call[c].rpc \in RpcIds /\ call[c].tries \in 0 .. Tries
      /\ Payload(c) \in Payloads /\ Request(c) \in [msg : Nat, payload : Payloads]
  BY <1>0, CallerFacts
<1>b. ClientTypes /\ ServerTypes
  BY TypeParts
<1>s. ServerTypes'
  <2>1. UNCHANGED <<inst, seen, dedup, jobs, worker, server, stop, missed, executed, panicked, responses>>
    BY DEF CallerStep, Register, SendRequest, SendRequestFails, TakeResponse, Expire, Retry, TimedSend,
           TimedRegister, TimedOut, SendOnly
  <2>2. requests' = requests \/ requests' = requests \cup {Request(c)}
    BY DEF CallerStep, Register, SendRequest, SendRequestFails, TakeResponse, Expire, Retry, TimedSend,
           TimedRegister, TimedOut, SendOnly
  <2>3. requests' \subseteq [msg : Nat, payload : Payloads]
    BY <1>a, <1>b, <2>2 DEF ServerTypes
  <2> QED
    BY <1>b, <2>1, <2>3 DEF ServerTypes
<1>e. ASSUME NEW o \in {"ok", "sendError", "timeout", "sent"}, NEW a \in {NoCall} \cup Payloads, Returns(c, o, a)
      PROVE  /\ call' \in [Callers -> {NoCall} \cup Calls]
             /\ ended' \subseteq [payload : Payloads, tries : 0 .. Tries,
                      outcome : {"ok", "sendError", "timeout", "sent"}, answer : {NoCall} \cup Payloads]
             /\ \A d \in Callers : At(d, "attempt")' => call'[d].tries < Tries
  <2>1. /\ call' = [call EXCEPT ![c] = NoCall]
        /\ ended' = ended \cup {[payload |-> Payload(c), tries |-> call[c].tries, outcome |-> o, answer |-> a]}
    BY <1>e DEF Returns
  <2> QED
    BY <1>a, <1>b, <2>1 DEF ClientTypes, At
(* A caller that goes on. *)
<1>g. ASSUME NEW where \in {"send", "wait", "retry", "timedSent", "timedWait", "timedOut", "attempt"},
             NEW n \in 0 .. Tries, where = "attempt" => n < Tries,
             call' = [call EXCEPT ![c].at = where, ![c].tries = n]
      PROVE  /\ call' \in [Callers -> {NoCall} \cup Calls]
             /\ \A d \in Callers : At(d, "attempt")' => call'[d].tries < Tries
  <2>1. call'[c] = [call[c] EXCEPT !.at = where, !.tries = n] /\ \A d \in Callers \ {c} : call'[d] = call[d]
    BY <1>a, <1>b, <1>g DEF ClientTypes
  <2>2. call'[c] \in Calls /\ call'[c].tries = n /\ call'[c].at = where
    BY ZenonT(60), <1>a, <2>1 DEF Calls
  <2>3. DOMAIN call' = Callers /\ call' = [d \in Callers |-> call'[d]]
    BY ZenonT(60), <1>b, <1>g DEF ClientTypes
  <2> QED
    BY <1>a, <1>b, <1>g, <2>1, <2>2, <2>3 DEF ClientTypes, At
<1>1. CASE Register(c)
  <2>1. /\ waiters' = [waiters EXCEPT ![call[c].rpc] = [caller |-> c, try |-> call[c].tries + 1]]
        /\ inbox' = [inbox EXCEPT ![c] = NoCall]
        /\ call' = [call EXCEPT ![c].at = "send", ![c].tries = call[c].tries + 1]
        /\ UNCHANGED <<life, nextId, nextMsg, ended, held>>
    BY <1>1, <1>a DEF Register
  <2>2. call[c].tries + 1 \in 1 .. Tries
    BY <1>1, <1>a, <1>b, TriesType DEF Register, ClientTypes
  <2>3. [caller |-> c, try |-> call[c].tries + 1] \in Channels
    BY <1>a, <2>2 DEF Channels
  <2>4. waiters' \in [RpcIds -> {NoCall} \cup Channels] /\ inbox' \in [Callers -> {NoCall} \cup Payloads]
    BY <1>a, <1>b, <2>1, <2>3 DEF ClientTypes
  <2>5. call[c].tries + 1 \in 0 .. Tries
    BY SMTT(30), <2>2
  <2>6. /\ call' \in [Callers -> {NoCall} \cup Calls]
        /\ \A d \in Callers : At(d, "attempt")' => call'[d].tries < Tries
    BY ZenonT(60), <1>g, <2>1, <2>5
  <2> QED
    BY <1>b, <1>s, <2>1, <2>4, <2>6 DEF ClientTypes
<1>2. CASE SendRequest(c) \/ Expire(c) \/ TimedSend(c) \/ TimedRegister(c)
  <2>1. \E where \in {"wait", "retry", "timedOut", "timedSent", "timedWait"}, n \in {call[c].tries, 1} :
          call' = [call EXCEPT ![c].at = where, ![c].tries = n]
    <3>1. [call EXCEPT ![c].tries = call[c].tries] = call
      BY <1>a, <1>b DEF ClientTypes, Calls
    <3> QED
      BY <1>2, <1>a, <1>b DEF SendRequest, Expire, TimedSend, TimedRegister, Goes, ClientTypes, Calls
  <2>2. 1 \in 0 .. Tries /\ [caller |-> c, try |-> 1] \in Channels /\ nextMsg + 1 \in Nat
    BY <1>a, <1>b, TriesType DEF Channels, ClientTypes
  <2>3. /\ UNCHANGED <<life, nextId, inbox, ended, held>>
        /\ nextMsg' \in {nextMsg, nextMsg + 1}
        /\ waiters' = waiters \/ waiters' = [waiters EXCEPT ![call[c].rpc] = [caller |-> c, try |-> 1]]
    BY <1>2 DEF SendRequest, Expire, TimedSend, TimedRegister
  <2>4. waiters' \in [RpcIds -> {NoCall} \cup Channels] /\ nextMsg' \in Nat
    BY <1>a, <1>b, <2>2, <2>3 DEF ClientTypes
  <2>5. /\ call' \in [Callers -> {NoCall} \cup Calls]
        /\ \A d \in Callers : At(d, "attempt")' => call'[d].tries < Tries
    BY ZenonT(60), <1>a, <1>g, <2>1, <2>2
  <2> QED
    BY <1>b, <1>s, <2>3, <2>4, <2>5 DEF ClientTypes
<1>3. CASE SendRequestFails(c) \/ TakeResponse(c) \/ TimedOut(c) \/ SendOnly(c)
  <2>1. /\ UNCHANGED <<life, nextId, inbox, held>>
        /\ nextMsg' \in {nextMsg, nextMsg + 1}
        /\ waiters' = waiters \/ waiters' = [waiters EXCEPT ![call[c].rpc] = NoCall]
    BY <1>3 DEF SendRequestFails, TakeResponse, TimedOut, SendOnly
  <2>2. inbox[c] \in {NoCall} \cup Payloads
    BY <1>a, <1>b DEF ClientTypes
  <2>3. \E o \in {"ok", "sendError", "timeout", "sent"}, a \in {NoCall} \cup Payloads : Returns(c, o, a)
    BY <1>3, <2>2 DEF SendRequestFails, TakeResponse, TimedOut, SendOnly
  <2>4. waiters' \in [RpcIds -> {NoCall} \cup Channels] /\ nextMsg' \in Nat
    BY <1>a, <1>b, <2>1 DEF ClientTypes
  <2> QED
    BY <1>b, <1>e, <1>s, <2>1, <2>3, <2>4 DEF ClientTypes
<1>4. CASE Retry(c)
  <2>1. /\ UNCHANGED <<life, nextId, nextMsg, inbox, held>>
        /\ waiters' = [waiters EXCEPT ![call[c].rpc] = NoCall]
        /\ \/ call[c].tries < Tries /\ call' = Goes(c, "attempt") /\ UNCHANGED ended
           \/ Returns(c, "timeout", NoCall)
    BY <1>4 DEF Retry
  <2>2. waiters' \in [RpcIds -> {NoCall} \cup Channels]
    BY <1>a, <1>b, <2>1 DEF ClientTypes
  <2>3. CASE call[c].tries < Tries /\ call' = Goes(c, "attempt") /\ UNCHANGED ended
    <3>1. call' = [call EXCEPT ![c].at = "attempt", ![c].tries = call[c].tries]
      BY ZenonT(60), <1>a, <1>b, <2>3 DEF Goes, ClientTypes, Calls
    <3>2. /\ call' \in [Callers -> {NoCall} \cup Calls]
          /\ \A d \in Callers : At(d, "attempt")' => call'[d].tries < Tries
      BY <1>a, <1>g, <2>3, <3>1
    <3> QED
      BY <1>b, <1>s, <2>1, <2>2, <2>3, <3>2 DEF ClientTypes
  <2>4. CASE Returns(c, "timeout", NoCall)
    BY <1>b, <1>e, <1>s, <2>1, <2>2, <2>4 DEF ClientTypes
  <2> QED
    BY <2>1, <2>3, <2>4
<1> QED
  BY <1>1, <1>2, <1>3, <1>4 DEF CallerStep

LEMMA ClientStepTypes ==
  ASSUME TypeInv,
         \/ \E c \in inst.callers, kind \in inst.kinds : Begin(c, kind)
         \/ \E p \in Payloads : DispatchRecv(p) \/ LoseResponse(p)
         \/ DispatchRemove \/ DispatchSend \/ Restart
  PROVE  ClientTypes' /\ ServerTypes'
<1> USE DEF clientVars, serverVars, dropVars
<1>b. ClientTypes /\ ServerTypes
  BY TypeParts
<1>1. ASSUME NEW c \in inst.callers, NEW kind \in inst.kinds, Begin(c, kind) PROVE ClientTypes' /\ ServerTypes'
  <2>0. /\ c \in Callers /\ inst.calls \in 0 .. MaxCalls /\ kind \in {"call", "timed", "only"}
    BY <1>b, RpcConstants DEF ServerTypes
  <2>1. nextId \in RpcIds /\ nextId' \in 1 .. MaxCalls + 1
    BY <1>1, <1>b, <2>0, IdsType DEF Begin, ClientTypes, RpcIds
  <2>2. PICK where \in {"attempt", "timedSend", "onlySend"} :
          call' = [call EXCEPT ![c] = [rpc |-> nextId, tries |-> 0, at |-> where]]
    BY ZenonT(60), <1>1, <2>0 DEF Begin
  <2>3. [rpc |-> nextId, tries |-> 0, at |-> where] \in Calls
    BY <2>1, TriesType DEF Calls
  <2>4. call' \in [Callers -> {NoCall} \cup Calls] /\ inbox' \in [Callers -> {NoCall} \cup Payloads]
    BY <1>1, <1>b, <2>0, <2>2, <2>3 DEF Begin, ClientTypes
  <2>5. \A d \in Callers : At(d, "attempt")' => call'[d].tries < Tries
    BY <1>b, <2>0, <2>2, TriesType DEF At, ClientTypes
  <2>6. UNCHANGED <<life, nextMsg, waiters, ended, requests, responses, held, serverVars>>
    BY <1>1 DEF Begin
  <2> QED
    BY ZenonT(60), <1>b, <2>1, <2>4, <2>5, <2>6 DEF ClientTypes, ServerTypes
<1>2. ASSUME NEW p \in Payloads, DispatchRecv(p) \/ LoseResponse(p) PROVE ClientTypes' /\ ServerTypes'
  <2>1. /\ responses' = [responses EXCEPT ![p] = @ - 1] /\ responses[p] > 0
        /\ held' = held \/ held' = [at |-> "received", response |-> p]
        /\ UNCHANGED <<requests, clientVars, serverVars>>
    BY <1>2 DEF DispatchRecv, LoseResponse
  <2>2. responses' \in [Payloads -> Nat]
    BY <1>b, <2>1 DEF ServerTypes
  <2>3. [at |-> "received", response |-> p] \in [at : {"received"}, response : Payloads]
    OBVIOUS
  <2>4. ClientTypes'
    BY <1>b, <2>1, <2>3 DEF ClientTypes, At
  <2> QED
    BY <1>b, <2>1, <2>2, <2>4 DEF ServerTypes
<1>3. CASE DispatchRemove
  <2>1. held # NoCall /\ held.at = "received" /\ held.response \in Payloads
    BY <1>3, <1>b DEF DispatchRemove, ClientTypes
  <2>2. held.response.rpc \in RpcIds
    BY <2>1 DEF Payloads
  <2>3. waiters[held.response.rpc] \in {NoCall} \cup Channels
    BY SMTT(30), <1>b, <2>2 DEF ClientTypes
  <2>4. /\ waiters' = [waiters EXCEPT ![held.response.rpc] = NoCall]
        /\ \/ held' = NoCall
           \/ waiters[held.response.rpc] # NoCall /\ held' = [at |-> "routed", response |-> held.response, to |-> waiters[held.response.rpc]]
        /\ UNCHANGED <<life, nextId, nextMsg, call, inbox, ended, requests, responses, serverVars>>
    BY <1>3 DEF DispatchRemove
  <2>5. waiters' \in [RpcIds -> {NoCall} \cup Channels]
    BY <1>b, <2>2, <2>4 DEF ClientTypes
  <2> QED
    BY SMT, SMTT(30), ZenonT(60), <1>b, <2>1, <2>3, <2>4, <2>5 DEF ClientTypes, ServerTypes, At
<1>4. CASE DispatchSend
  <2>1. held # NoCall /\ held.response \in Payloads /\ held.to.caller \in Callers
    BY <1>4, <1>b DEF DispatchSend, ClientTypes, Channels
  <2>2. inbox' \in [Callers -> {NoCall} \cup Payloads]
    BY <1>4, <1>b, <2>1 DEF DispatchSend, ClientTypes
  <2>3. held' = NoCall /\ UNCHANGED <<life, nextId, nextMsg, call, waiters, ended, requests, responses, serverVars>>
    BY <1>4 DEF DispatchSend
  <2> QED
    BY ZenonT(60), <1>b, <2>2, <2>3 DEF ClientTypes, ServerTypes, At
<1>5. CASE Restart
  <2>1. life + 1 \in 1 .. MaxLives
    BY SMTT(30), <1>5, <1>b, RpcConstants DEF Restart, ClientTypes, ServerTypes
  <2>2. 1 \in 1 .. MaxCalls + 1
    BY IdsType
  <2> QED
    BY <1>5, <1>b, <2>1, <2>2 DEF Restart, ClientTypes, ServerTypes, At
<1> QED
  BY <1>1, <1>2, <1>3, <1>4, <1>5

LEMMA SubmitTypes ==
  ASSUME ServerTypes, NEW job \in Jobs, Submit(job)
  PROVE  /\ jobs' \in Seq(Jobs)
         /\ worker' \in [Workers -> {Idle, About, Waiting, Exited} \cup Jobs]
<1>1. jobs' = Append(jobs, job) /\ jobs \in Seq(Jobs)
  BY DEF Submit, ServerTypes
<1>2. jobs' \in Seq(Jobs)
  BY <1>1, Appended
<1>3. worker' \in [Workers -> {Idle, About, Waiting, Exited} \cup Jobs]
  BY ZenonT(60) DEF Submit, Asleep, ServerTypes
<1> QED
  BY <1>2, <1>3

LEMMA ServerStepTypes ==
  ASSUME TypeInv,
         \/ \E q \in requests : HandleRequest(q) \/ DropCompleted(q) \/ LoseRequest(q)
         \/ \E w \in inst.workers : WorkerStep(w)
         \/ DropServer \/ ServerStep
  PROVE  ClientTypes' /\ ServerTypes'
<1> USE DEF serverVars, dropVars
<1>b. ClientTypes /\ ServerTypes
  BY TypeParts
<1>c. (UNCHANGED clientVars /\ UNCHANGED held) => ClientTypes'
  BY <1>b DEF ClientTypes, clientVars, At
<1>d. UNCHANGED clientVars /\ UNCHANGED held
  BY ZenonT(60) DEF HandleRequest, DropCompleted, LoseRequest, WorkerStep, TakeJob, FindNothing, Wait, Exit, WorkerFrame,
         RunHandler, HandlerPanics, StoreResponse, SendResponse, DropServer, ServerStep, LoopEnds, SetPoolFlag,
         NotifyAll, Joined, DropFrame
<1> SUFFICES ServerTypes'
  BY <1>c, <1>d
<1>1. ASSUME NEW q \in requests, HandleRequest(q) PROVE ServerTypes'
  <2> DEFINE d == dedup[q.payload.rpc]
  <2>1. q.msg \in Nat /\ q.payload \in Payloads /\ q.payload.rpc \in RpcIds
    BY <1>b DEF ServerTypes, Payloads
  <2>2. d \in {Absent, Computing} \cup { Done(p) : p \in Payloads }
    BY <1>b, <2>1 DEF ServerTypes
  <2>3. d.state = "done" => d.response \in Payloads
    <3>1. CASE d = Absent \/ d = Computing
      BY <3>1 DEF Absent, Computing
    <3>2. ASSUME NEW p \in Payloads, d = Done(p) PROVE d.response \in Payloads
      BY <3>2 DEF Done
    <3> HIDE DEF d
    <3> QED
      BY <2>2, <3>1, <3>2
  <2>4. /\ requests' \subseteq requests /\ seen' = seen \cup {q.msg}
        /\ dedup' = dedup \/ dedup' = [dedup EXCEPT ![q.payload.rpc] = Computing]
        /\ UNCHANGED <<inst, dropVars, executed, panicked, responses>>
    BY ZenonT(60), <1>1 DEF HandleRequest
  <2>5. \/ UNCHANGED <<jobs, worker>>
        \/ \E job \in Jobs : Submit(job)
    BY <1>1, <2>1, <2>3 DEF HandleRequest, Jobs
  <2>6. jobs' \in Seq(Jobs) /\ worker' \in [Workers -> {Idle, About, Waiting, Exited} \cup Jobs]
    BY ZenonT(60), <1>b, <2>5, SubmitTypes DEF ServerTypes
  <2>7. seen' \subseteq Nat /\ dedup' \in [RpcIds -> {Absent, Computing} \cup { Done(p) : p \in Payloads }]
    BY ZenonT(60), <1>b, <2>1, <2>4 DEF ServerTypes
  <2> QED
    BY <1>b, <2>4, <2>6, <2>7 DEF ServerTypes
<1>2. ASSUME NEW q \in requests, DropCompleted(q) \/ LoseRequest(q) PROVE ServerTypes'
  BY ZenonT(60), <1>2, <1>b DEF DropCompleted, LoseRequest, ServerTypes
<1>3. ASSUME NEW w \in inst.workers, WorkerStep(w) PROVE ServerTypes'
  <2>0. w \in Workers
    BY ZenonT(60), <1>b, RpcConstants DEF ServerTypes
  <2>1. CASE TakeJob(w)
    <3>1. jobs # <<>> /\ worker' = [worker EXCEPT ![w] = Head(jobs)] /\ jobs' = Tail(jobs) /\ jobs \in Seq(Jobs)
      BY <1>b, <2>1 DEF TakeJob, ServerTypes
    <3>2. Head(jobs) \in Jobs /\ jobs' \in Seq(Jobs)
      BY ZenonT(60), <3>1, Dequeued
    <3>3. worker' \in [Workers -> {Idle, About, Waiting, Exited} \cup Jobs]
      BY SMTT(30), <1>b, <2>0, <3>1, <3>2 DEF ServerTypes
    <3> QED
      BY <1>b, <2>1, <3>2, <3>3 DEF TakeJob, ServerTypes
  <2>2. CASE FindNothing(w) \/ Wait(w) \/ Exit(w)
    BY ZenonT(60), <1>b, <2>0, <2>2 DEF FindNothing, Wait, Exit, WorkerFrame, ServerTypes
  <2>3. worker[w].step \in {"run", "store", "send"} => worker[w] \in Jobs /\ worker[w].payload \in Payloads
    BY <1>b, <2>0 DEF ServerTypes, Jobs, Idle, About, Waiting, Exited
  <2>4. CASE RunHandler(w) \/ StoreResponse(w)
    <3>1. \E s \in {"store", "send"} : worker' = [worker EXCEPT ![w].step = s]
      BY <2>4 DEF RunHandler, StoreResponse
    <3>2. worker[w] \in Jobs /\ worker[w].payload \in Payloads /\ worker[w].payload.rpc \in RpcIds
      BY <2>3, <2>4 DEF RunHandler, StoreResponse, InStep, Payloads
    <3>3. \A s \in {"store", "send"} : [worker[w] EXCEPT !.step = s] \in Jobs
      BY <3>2 DEF Jobs
    <3>4. worker' \in [Workers -> {Idle, About, Waiting, Exited} \cup Jobs]
      BY ZenonT(60), <1>b, <2>0, <3>1, <3>3 DEF ServerTypes
    <3>5. /\ executed' = executed \/ executed' = [executed EXCEPT ![worker[w].payload] = executed[worker[w].payload] + 1]
          /\ dedup' = dedup \/ dedup' = [dedup EXCEPT ![worker[w].payload.rpc] = Done(worker[w].payload)]
      BY <2>4 DEF RunHandler, StoreResponse
    <3>7. executed[worker[w].payload] + 1 \in Nat
      BY <1>b, <3>2 DEF ServerTypes
    <3>8. Done(worker[w].payload) \in { Done(p) : p \in Payloads }
      BY <3>2
    <3>9. executed' \in [Payloads -> Nat]
      BY ZenonT(60), <1>b, <3>2, <3>5, <3>7 DEF ServerTypes
    <3>10. dedup' \in [RpcIds -> {Absent, Computing} \cup { Done(p) : p \in Payloads }]
      BY ZenonT(60), <1>b, <3>2, <3>5, <3>8 DEF ServerTypes
    <3>6. UNCHANGED <<inst, dropVars, seen, jobs, panicked, requests, responses>>
      BY <2>4 DEF RunHandler, StoreResponse
    <3> QED
      BY <1>b, <3>4, <3>6, <3>9, <3>10 DEF ServerTypes
  <2>5. CASE HandlerPanics(w) \/ SendResponse(w)
    <3>1. worker[w].payload \in Payloads /\ worker' = [worker EXCEPT ![w] = Idle]
      BY <2>3, <2>5 DEF HandlerPanics, SendResponse, InStep
    <3>2. worker' \in [Workers -> {Idle, About, Waiting, Exited} \cup Jobs]
      BY ZenonT(60), SMT, SMTT(30), <1>b, <2>0, <3>1 DEF ServerTypes
    <3>3. /\ executed' = executed \/ executed' = [executed EXCEPT ![worker[w].payload] = executed[worker[w].payload] + 1]
          /\ responses' = responses \/ responses' = [responses EXCEPT ![worker[w].payload] = responses[worker[w].payload] + 1]
          /\ panicked' \subseteq panicked \cup {worker[w].payload}
          /\ UNCHANGED <<inst, dropVars, seen, dedup, jobs, requests>>
      BY SMTT(30), <2>5 DEF HandlerPanics, SendResponse
    <3>4. executed[worker[w].payload] + 1 \in Nat /\ responses[worker[w].payload] + 1 \in Nat
      BY SMT, SMTT(30), ZenonT(60), <1>b, <3>1 DEF ServerTypes
    <3>5. executed' \in [Payloads -> Nat]
      BY <1>b, <3>1, <3>3, <3>4 DEF ServerTypes
    <3>6. responses' \in [Payloads -> Nat]
      BY ZenonT(60), SMT, SMTT(30), <1>b, <3>1, <3>3, <3>4 DEF ServerTypes
    <3> QED
      BY <1>b, <3>1, <3>2, <3>3, <3>5, <3>6 DEF ServerTypes
  <2> QED
    BY <1>3, <2>1, <2>2, <2>4, <2>5 DEF WorkerStep
<1>4. CASE DropServer \/ LoopEnds \/ SetPoolFlag
  BY ZenonT(60), <1>4, <1>b DEF DropServer, LoopEnds, SetPoolFlag, DropFrame, ServerTypes
<1>5. CASE NotifyAll
  BY <1>5, <1>b DEF NotifyAll, Woken, Asleep, DropFrame, ServerTypes
<1>6. CASE Joined
  BY <1>6, <1>b DEF Joined, DropFrame, ServerTypes
<1> QED
  BY <1>1, <1>2, <1>3, <1>4, <1>5, <1>6 DEF ServerStep

(* The RPC layer keeps its types, for every configuration; no call makes more
   attempts than max_attempts allows. *)
LEMMA TypeInvariant == Spec => []TypeInv
<1>1. Init => TypeInv
  <2> SUFFICES ASSUME Init PROVE ClientTypes /\ ServerTypes
    BY TypeParts
  <2>1. 1 \in 1 .. MaxLives /\ 1 \in 1 .. MaxCalls + 1
    BY SMT, SMTT(30), ZenonT(60), IdsType
  <2> QED
    BY <2>1 DEF Init, ClientTypes, ServerTypes, At
<1>2. TypeInv /\ [Next]_vars => TypeInv'
  <2> SUFFICES ASSUME TypeInv, [Next]_vars PROVE ClientTypes' /\ ServerTypes'
    BY ZenonT(60), TypeParts DEF TypeInv, TypeOK, ClientTypes, ServerTypes
  <2>1. CASE UNCHANGED vars
    BY ZenonT(60), <2>1, TypeParts DEF vars, clientVars, serverVars, dropVars, ClientTypes, ServerTypes, At
  <2> QED
    BY <2>1, CallerTypes, ClientStepTypes, ServerStepTypes DEF Next
<1> QED
  BY <1>1, <1>2, PTL DEF Spec

(* Types hold for every number of callers, workers, calls and lives; in particular
   no call makes more attempts than max_attempts allows. *)
THEOREM TypeCorrect == Spec => []TypeOK
<1>1. TypeInv => TypeOK
  BY DEF TypeInv
<1> QED
  BY <1>1, TypeInvariant, PTL

-----------------------------------------------------------------------------
(* Jobs and workers. *)

Runs(j)  == j.step = "run"
Works(j) == j.step \in {"run", "store"}

(* Jobs and workers at rest are not handlers. *)
LEMMA RestingWorks ==
  /\ ~Works(Idle) /\ ~Works(About) /\ ~Works(Waiting) /\ ~Works(Exited)
  /\ Absent # Computing /\ \A p : Done(p) # Computing /\ Done(p) # Absent
  BY DEF Works, Idle, About, Waiting, Exited, Absent, Computing, Done

LEMMA SubmitWorkers ==
  ASSUME ServerTypes, NEW job, Submit(job)
  PROVE  /\ \A w \in Workers : worker'[w] = worker[w] \/ worker'[w] = Idle
         /\ \A w \in Workers : Works(worker'[w]) => worker'[w] = worker[w]
         /\ \A w \in Workers : Works(worker[w]) => worker'[w] = worker[w]
<1>1. \A w \in Workers : worker'[w] = worker[w] \/ (worker'[w] = Idle /\ worker[w] = Waiting)
  BY DEF Submit, Asleep, ServerTypes
<1> QED
  BY <1>1, RestingWorks

LEMMA SubmitJobs ==
  ASSUME ServerTypes, NEW job \in Jobs, Submit(job)
  PROVE  /\ Len(jobs) \in Nat /\ Len(jobs') = Len(jobs) + 1
         /\ \A k \in 1 .. Len(jobs) : jobs'[k] = jobs[k]
         /\ \A k \in 1 .. Len(jobs') : k \in 1 .. Len(jobs) \/ (k = Len(jobs) + 1 /\ jobs'[k] = job)
<1>1. jobs' = Append(jobs, job) /\ jobs \in Seq(Jobs)
  BY DEF Submit, ServerTypes
<1>2. /\ Len(jobs') = Len(jobs) + 1 /\ Len(jobs) \in Nat
      /\ \A k \in 1 .. Len(jobs) : jobs'[k] = jobs[k]
      /\ jobs'[Len(jobs) + 1] = job
  BY ZenonT(60), <1>1, Appended
<1> QED
  BY <1>2

(* The steps of the client, the dispatcher and the network leave the server as it is. *)
LEMMA ServerCases ==
  ASSUME [Next]_vars
  PROVE  \/ UNCHANGED serverVars
         \/ \E q \in requests : HandleRequest(q)
         \/ \E w \in inst.workers : WorkerStep(w)
         \/ DropServer \/ LoopEnds \/ SetPoolFlag \/ NotifyAll \/ Joined
<1>1. ASSUME NEW c, NEW kind, Begin(c, kind) PROVE UNCHANGED serverVars
  BY <1>1 DEF Begin
<1>2. ASSUME NEW c, CallerStep(c) PROVE UNCHANGED serverVars
  BY <1>2 DEF CallerStep, Register, SendRequest, SendRequestFails, TakeResponse, Expire, Retry, TimedSend, TimedRegister,
     TimedOut, SendOnly
<1>3. ASSUME NEW p, DispatchRecv(p) \/ LoseResponse(p) PROVE UNCHANGED serverVars
  BY SMTT(30), <1>3 DEF DispatchRecv, LoseResponse
<1>4. CASE DispatchRemove \/ DispatchSend \/ Restart
  BY <1>4 DEF DispatchRemove, DispatchSend, Restart
<1>5. ASSUME NEW q, DropCompleted(q) \/ LoseRequest(q) PROVE UNCHANGED serverVars
  BY <1>5 DEF DropCompleted, LoseRequest
<1>6. CASE UNCHANGED vars
  BY <1>6 DEF vars
<1> QED
  BY <1>1, <1>2, <1>3, <1>4, <1>5, <1>6 DEF Next, ServerStep

(* What is queued or taken by a worker is a job for a request. *)
LEMMA JobPayloads ==
  ASSUME TypeInv
  PROVE  /\ \A q \in requests : q.payload \in Payloads
         /\ \A k \in 1 .. Len(jobs) : jobs[k] \in Jobs /\ jobs[k].payload \in Payloads
         /\ \A w \in Workers : worker[w].step \in {"run", "store", "send"}
                                => worker[w] \in Jobs /\ worker[w].payload \in Payloads
<1>b. ServerTypes
  BY TypeParts
<1>1. \A k \in 1 .. Len(jobs) : jobs[k] \in Jobs
  BY ZenonT(60), <1>b, Elements DEF ServerTypes
<1>2. \A j \in Jobs : j.payload \in Payloads
  BY DEF Jobs
<1>3. \A w \in Workers : worker[w].step \in {"run", "store", "send"} => worker[w] \in Jobs
  BY SMT, SMTT(30), ZenonT(60), <1>b DEF ServerTypes, Idle, About, Waiting, Exited
<1>4. \A q \in requests : q.payload \in Payloads
  BY ZenonT(60), <1>b DEF ServerTypes
<1> QED
  BY <1>1, <1>2, <1>3, <1>4

-----------------------------------------------------------------------------
(* A call gets the answer to its own request. *)

(* Only requests of this life and of earlier ones are about, and what travels
   back, or is stored to be sent again, was computed. *)
AnswerInv ==
  /\ \A q \in requests : q.payload.life <= life
  /\ \A k \in 1 .. Len(jobs) : jobs[k].payload.life <= life /\ (jobs[k].step = "send" => executed[jobs[k].payload] > 0)
  /\ \A k \in 1 .. Len(jobs) : jobs[k].step # "store"
  /\ \A w \in Workers : /\ worker[w].step \in {"run", "store", "send"} => worker[w].payload.life <= life
                        /\ worker[w].step \in {"store", "send"} => executed[worker[w].payload] > 0
  /\ \A p \in Payloads : executed[p] > 0 => p.life <= life
  /\ \A r \in RpcIds, p \in Payloads : dedup[r] = Done(p) => executed[p] > 0
  /\ \A p \in Payloads : responses[p] > 0 => executed[p] > 0
  /\ held # NoCall => executed[held.response] > 0
  /\ \A c \in Callers : inbox[c] # NoCall /\ call[c] # NoCall => executed[inbox[c]] > 0 /\ inbox[c].rpc = call[c].rpc
  /\ OwnAnswer

LEMMA AnswerCaller ==
  ASSUME TypeInv, AnswerInv, NEW c \in inst.callers, CallerStep(c)
  PROVE  AnswerInv'
<1> USE DEF clientVars, serverVars, dropVars
<1>0. call[c] # NoCall
  BY ZenonT(60) DEF CallerStep, Register, SendRequest, SendRequestFails, TakeResponse, Expire, Retry, TimedSend,
         TimedRegister, TimedOut, SendOnly, At
<1>a. /\ c \in Callers /\ call[c] \in Calls /\ Payload(c) \in Payloads
  BY <1>0, CallerFacts
<1>b. ClientTypes /\ ServerTypes
  BY TypeParts
<1>1. /\ UNCHANGED <<life, dedup, jobs, worker, executed, responses, held>>
      /\ requests' = requests \/ requests' = requests \cup {Request(c)}
      /\ inbox' = inbox \/ inbox' = [inbox EXCEPT ![c] = NoCall]
  BY DEF CallerStep, Register, SendRequest, SendRequestFails, TakeResponse, Expire, Retry, TimedSend,
         TimedRegister, TimedOut, SendOnly
<1>2. Request(c).payload.life = life /\ Payload(c).life = life /\ Payload(c).rpc = call[c].rpc
  BY DEF Request, Payload
<1>3. \A d \in Callers : call'[d] # NoCall => call[d] # NoCall /\ call'[d].rpc = call[d].rpc
  <2>1. \/ \E where, n : call' = [call EXCEPT ![c].at = where, ![c].tries = n]
        \/ call' = [call EXCEPT ![c] = NoCall]
        \/ \E where : call' = [call EXCEPT ![c].at = where]
    BY DEF CallerStep, Register, SendRequest, SendRequestFails, TakeResponse, Expire, Retry, TimedSend,
           TimedRegister, TimedOut, SendOnly, Goes, Returns
  <2>2. \A d \in Callers \ {c} : call'[d] = call[d]
    BY ZenonT(60), <1>b, <2>1 DEF ClientTypes
  <2>3. ASSUME NEW where, NEW n, call' = [call EXCEPT ![c].at = where, ![c].tries = n]
        PROVE  call'[c].rpc = call[c].rpc
    BY <1>a, <1>b, <2>3 DEF ClientTypes, Calls
  <2>4. ASSUME NEW where, call' = [call EXCEPT ![c].at = where]
        PROVE  call'[c].rpc = call[c].rpc
    BY <1>a, <1>b, <2>4 DEF ClientTypes, Calls
  <2>5. call' = [call EXCEPT ![c] = NoCall] => call'[c] = NoCall
    BY <1>a, <1>b DEF ClientTypes
  <2> QED
    BY ZenonT(60), <1>0, <2>1, <2>2, <2>3, <2>4, <2>5
<1>4. \A d \in Callers : inbox'[d] # NoCall => inbox'[d] = inbox[d]
  BY <1>1, <1>b DEF ClientTypes
<1>5. \A d \in Callers : inbox'[d] # NoCall /\ call'[d] # NoCall
                           => executed'[inbox'[d]] > 0 /\ inbox'[d].rpc = call'[d].rpc
  BY <1>1, <1>3, <1>4 DEF AnswerInv
<1>6. OwnAnswer'
  <2>1. \/ ended' = ended
        \/ \E o \in {"sendError", "timeout", "sent"} : Returns(c, o, NoCall)
        \/ inbox[c] # NoCall /\ Returns(c, "ok", inbox[c])
    BY DEF CallerStep, Register, SendRequest, SendRequestFails, TakeResponse, Expire, Retry, TimedSend,
           TimedRegister, TimedOut, SendOnly
  <2>2. CASE ended' = ended
    BY ZenonT(60), <1>1, <2>2 DEF AnswerInv, OwnAnswer
  <2>3. ASSUME NEW o \in {"sendError", "timeout", "sent"}, Returns(c, o, NoCall) PROVE OwnAnswer'
    BY SMT, SMTT(30), ZenonT(60), <1>1, <2>3 DEF AnswerInv, OwnAnswer, Returns
  <2>4. CASE inbox[c] # NoCall /\ Returns(c, "ok", inbox[c])
    <3>1. inbox[c] \in Payloads
      BY ZenonT(60), <1>a, <1>b, <2>4 DEF ClientTypes
    <3>2. executed[inbox[c]] > 0 /\ inbox[c].rpc = call[c].rpc /\ inbox[c].life <= life
      BY <1>0, <1>a, <2>4, <3>1 DEF AnswerInv
    <3>3. life = 1 => inbox[c].life = Payload(c).life
      <4>1. inbox[c].life \in 1 .. MaxLives
        BY <3>1 DEF Payloads
      <4> QED
        BY <1>2, <3>2, <4>1, IdsType
    <3>4. life = 1 => inbox[c] = Payload(c)
      BY SMT, SMTT(30), <1>2, <1>a, <3>1, <3>2, <3>3 DEF Payloads
    <3>5. ended' = ended \cup {[payload |-> Payload(c), tries |-> call[c].tries, outcome |-> "ok", answer |-> inbox[c]]}
      BY <2>4 DEF Returns
    <3> QED
      BY <1>1, <1>2, <3>2, <3>4, <3>5 DEF AnswerInv, OwnAnswer
  <2> QED
    BY <2>1, <2>2, <2>3, <2>4
<1>7. \A q \in requests' : q.payload.life <= life'
  <2>1. life <= life
    BY <1>b, IdsType DEF ClientTypes
  <2> QED
    BY <1>1, <1>2, <2>1 DEF AnswerInv
<1> QED
  BY <1>1, <1>5, <1>6, <1>7 DEF AnswerInv

LEMMA AnswerClient ==
  ASSUME TypeInv, AnswerInv,
         \/ \E c \in inst.callers, kind \in inst.kinds : Begin(c, kind)
         \/ \E p \in Payloads : DispatchRecv(p) \/ LoseResponse(p)
         \/ DispatchRemove \/ DispatchSend \/ Restart
         \/ \E q \in requests : DropCompleted(q) \/ LoseRequest(q)
         \/ UNCHANGED vars
  PROVE  AnswerInv'
<1> USE DEF clientVars, serverVars, dropVars
<1>b. ClientTypes /\ ServerTypes
  BY ZenonT(60), TypeParts
<1>1. ASSUME NEW c \in inst.callers, NEW kind \in inst.kinds, Begin(c, kind) PROVE AnswerInv'
  <2>1. /\ UNCHANGED <<life, dedup, jobs, worker, executed, requests, responses, held, ended>>
        /\ inbox' = [inbox EXCEPT ![c] = NoCall] /\ \E x : call' = [call EXCEPT ![c] = x]
    BY ZenonT(60), <1>1 DEF Begin
  <2>2. \A d \in Callers : inbox'[d] # NoCall => inbox'[d] = inbox[d] /\ call'[d] = call[d]
    BY <1>b, <2>1 DEF ClientTypes
  <2> QED
    BY <2>1, <2>2 DEF AnswerInv, OwnAnswer
<1>2. ASSUME NEW p \in Payloads, DispatchRecv(p) \/ LoseResponse(p) PROVE AnswerInv'
  <2>1. /\ UNCHANGED <<life, dedup, jobs, worker, executed, requests, inbox, call, ended>>
        /\ responses[p] > 0 /\ responses' = [responses EXCEPT ![p] = @ - 1]
        /\ held' = held \/ held' = [at |-> "received", response |-> p]
    BY ZenonT(60), <1>2 DEF DispatchRecv, LoseResponse
  <2>2. executed[p] > 0
    BY ZenonT(60), <2>1 DEF AnswerInv
  <2>3. \A x \in Payloads : responses'[x] > 0 => executed[x] > 0
    BY ZenonT(60), <1>b, <2>1, <2>2 DEF AnswerInv, ServerTypes
  <2>4. held' # NoCall => executed'[held'.response] > 0
    <3>1. held # NoCall => executed[held.response] > 0
      BY ZenonT(60) DEF AnswerInv
    <3> QED BY <2>1, <2>2, <3>1
  <2> QED
    BY ZenonT(60), <2>1, <2>3, <2>4 DEF AnswerInv, OwnAnswer
<1>3. CASE DispatchRemove
  <2>1. /\ UNCHANGED <<life, dedup, jobs, worker, executed, requests, responses, inbox, call, ended>>
        /\ held # NoCall /\ (held' = NoCall \/ held'.response = held.response)
    BY ZenonT(60), <1>3 DEF DispatchRemove
  <2> QED
    BY ZenonT(60), <2>1 DEF AnswerInv, OwnAnswer
<1>4. CASE DispatchSend
  <2>1. /\ UNCHANGED <<life, dedup, jobs, worker, executed, requests, responses, call, ended>>
        /\ held # NoCall /\ held' = NoCall
        /\ \/ inbox' = inbox
           \/ ChannelOpen(held.to, held.response) /\ inbox' = [inbox EXCEPT ![held.to.caller] = held.response]
    BY ZenonT(60), <1>4 DEF DispatchSend
  <2>2. \A d \in Callers : inbox'[d] = inbox[d] \/ (inbox'[d] = held.response /\ call[d].rpc = held.response.rpc)
    BY ZenonT(60), <1>b, <2>1 DEF ClientTypes, ChannelOpen
  <2>3. executed[held.response] > 0
    BY ZenonT(60), <2>1 DEF AnswerInv
  <2>4. \A d \in Callers : inbox'[d] # NoCall /\ call'[d] # NoCall
                             => executed'[inbox'[d]] > 0 /\ inbox'[d].rpc = call'[d].rpc
    BY ZenonT(60), <2>1, <2>2, <2>3 DEF AnswerInv
  <2> QED
    BY ZenonT(60), <2>1, <2>4 DEF AnswerInv, OwnAnswer
<1>5. CASE Restart
  <2>1. /\ UNCHANGED <<dedup, jobs, worker, executed, requests, responses, ended>>
        /\ life' = life + 1 /\ held' = NoCall /\ \A d \in Callers : call'[d] = NoCall
    BY ZenonT(60), <1>5 DEF Restart
  <2>2. \A n \in Nat : n <= life => n <= life'
    BY <1>b, <2>1, IdsType DEF ClientTypes
  <2>3. \A p \in Payloads : p.life \in Nat
    BY SMT, SMTT(30), IdsType DEF Payloads
  <2>4. /\ \A q \in requests : q.payload \in Payloads
        /\ \A k \in 1 .. Len(jobs) : jobs[k].payload \in Payloads
        /\ \A w \in Workers : worker[w].step \in {"run", "store", "send"} => worker[w].payload \in Payloads
    BY JobPayloads
  <2> QED
    BY ZenonT(60), <2>1, <2>2, <2>3, <2>4 DEF AnswerInv, OwnAnswer
<1>6. ASSUME NEW q \in requests, DropCompleted(q) \/ LoseRequest(q) PROVE AnswerInv'
  <2>1. /\ UNCHANGED <<life, dedup, jobs, worker, executed, responses, held, inbox, call, ended>>
        /\ requests' \subseteq requests
    BY ZenonT(60), <1>6 DEF DropCompleted, LoseRequest
  <2> QED
    BY ZenonT(60), <2>1 DEF AnswerInv, OwnAnswer
<1>7. CASE UNCHANGED vars
  BY <1>7 DEF vars, AnswerInv, OwnAnswer
<1> QED
  BY <1>1, <1>2, <1>3, <1>4, <1>5, <1>6, <1>7

LEMMA AnswerServer ==
  ASSUME TypeInv, AnswerInv,
         \/ \E q \in requests : HandleRequest(q)
         \/ \E w \in inst.workers : WorkerStep(w)
         \/ DropServer \/ LoopEnds \/ SetPoolFlag \/ NotifyAll \/ Joined
  PROVE  AnswerInv'
<1> USE DEF clientVars, serverVars, dropVars
<1>b. ServerTypes /\ ClientTypes
  BY TypeParts
<1>p. /\ \A q \in requests : q.payload \in Payloads
      /\ \A k \in 1 .. Len(jobs) : jobs[k] \in Jobs /\ jobs[k].payload \in Payloads
      /\ \A w \in Workers : worker[w].step \in {"run", "store", "send"}
                             => worker[w] \in Jobs /\ worker[w].payload \in Payloads
  BY JobPayloads
<1>r. \A j \in {Idle, About, Waiting, Exited} : j.step \notin {"run", "store", "send"}
  BY SMTT(30) DEF Idle, About, Waiting, Exited
<1>c. UNCHANGED <<life, held, inbox, call, ended>>
  BY ZenonT(60) DEF HandleRequest, WorkerStep, TakeJob, FindNothing, Wait, Exit, WorkerFrame, RunHandler, HandlerPanics,
         StoreResponse, SendResponse, DropServer, LoopEnds, SetPoolFlag, NotifyAll, Joined, DropFrame
<1>1. CASE UNCHANGED <<executed, jobs, worker, dedup, responses>> /\ requests' \subseteq requests
  BY ZenonT(60), <1>1, <1>c DEF AnswerInv, OwnAnswer
<1>2. ASSUME NEW q \in requests, HandleRequest(q) PROVE AnswerInv'
  <2> DEFINE d == dedup[q.payload.rpc]
  <2>0. q.payload.rpc \in RpcIds /\ q.payload.life <= life
    BY ZenonT(60), <1>p DEF Payloads, AnswerInv
  <2>1. UNCHANGED <<executed, responses>> /\ requests' \subseteq requests
    BY <1>2 DEF HandleRequest
  <2>2. CASE UNCHANGED <<jobs, dedup, worker>>
    BY ZenonT(60), <1>1, <2>1, <2>2
  <2>3. ASSUME NEW job \in Jobs, Submit(job), job.step # "store", job.payload.life <= life,
               job.step = "send" => executed[job.payload] > 0,
               \A r \in RpcIds, p \in Payloads : dedup'[r] = Done(p) => dedup[r] = Done(p)
        PROVE  AnswerInv'
    <3>1. \A k \in 1 .. Len(jobs') : (k \in 1 .. Len(jobs) /\ jobs'[k] = jobs[k]) \/ jobs'[k] = job
      BY <1>b, <2>3, SubmitJobs
    <3>2. \A w \in Workers : worker'[w] = worker[w] \/ worker'[w] = Idle
      BY ZenonT(60), <1>b, <2>3, SubmitWorkers
    <3>3. \A k \in 1 .. Len(jobs') : /\ jobs'[k].payload.life <= life' /\ jobs'[k].step # "store"
                                     /\ jobs'[k].step = "send" => executed'[jobs'[k].payload] > 0
      BY ZenonT(60), <1>c, <2>1, <2>3, <3>1 DEF AnswerInv
    <3>4. \A w \in Workers : /\ worker'[w].step \in {"run", "store", "send"} => worker'[w].payload.life <= life'
                             /\ worker'[w].step \in {"store", "send"} => executed'[worker'[w].payload] > 0
      BY ZenonT(60), <1>c, <1>r, <2>1, <3>2 DEF AnswerInv
    <3>5. \A r \in RpcIds, p \in Payloads : dedup'[r] = Done(p) => executed'[p] > 0
      BY ZenonT(60), <2>1, <2>3 DEF AnswerInv
    <3> QED
      BY ZenonT(60), <1>c, <2>1, <3>3, <3>4, <3>5 DEF AnswerInv, OwnAnswer
  <2>4. CASE d.state = "done" /\ Submit([step |-> "send", payload |-> d.response]) /\ UNCHANGED dedup
    <3>1. d \in {Absent, Computing} \cup { Done(p) : p \in Payloads }
      BY ZenonT(60), <1>b, <2>0 DEF ServerTypes
    <3>2. PICK p \in Payloads : d = Done(p)
      BY SMT, SMTT(30), ZenonT(60), <2>4, <3>1 DEF Absent, Computing
    <3>3. d.response = p
      BY SMT, SMTT(30), ZenonT(60), <3>2 DEF Done
    <3>4. executed[p] > 0 /\ p.life <= life
      BY ZenonT(60), <2>0, <3>2 DEF AnswerInv
    <3>5. [step |-> "send", payload |-> p] \in Jobs
      BY ZenonT(60) DEF Jobs
    <3> HIDE DEF d
    <3> QED
      BY ZenonT(60), <2>3, <2>4, <3>3, <3>4, <3>5
  <2>5. CASE d.state = "absent" /\ dedup' = [dedup EXCEPT ![q.payload.rpc] = Computing]
             /\ Submit([step |-> "run", payload |-> q.payload])
    <3>1. [step |-> "run", payload |-> q.payload] \in Jobs
      BY <1>p DEF Jobs
    <3>2. \A r \in RpcIds, p \in Payloads : dedup'[r] = Done(p) => dedup[r] = Done(p)
      BY ZenonT(60), <1>b, <2>0, <2>5, RestingWorks DEF ServerTypes
    <3> QED
      BY <2>0, <2>3, <2>5, <3>1, <3>2
  <2> QED
    BY ZenonT(60), <1>2, <2>2, <2>4, <2>5 DEF HandleRequest
<1>3. ASSUME NEW w \in inst.workers, WorkerStep(w) PROVE AnswerInv'
  <2>w. w \in Workers
    BY <1>b, RpcConstants DEF ServerTypes
  <2>0. UNCHANGED requests /\ \A v \in Workers \ {w} : worker'[v] = worker[v]
    <3>1. UNCHANGED requests /\ \E x : worker' = [worker EXCEPT ![w] = x]
      BY ZenonT(60), <1>3 DEF WorkerStep, TakeJob, FindNothing, Wait, Exit, WorkerFrame, RunHandler, HandlerPanics, StoreResponse,
         SendResponse
    <3> QED
      BY ZenonT(60), <1>b, <3>1 DEF ServerTypes
  <2>1. CASE TakeJob(w)
    <3>1. /\ jobs # <<>> /\ worker'[w] = Head(jobs) /\ jobs' = Tail(jobs) /\ jobs \in Seq(Jobs)
          /\ UNCHANGED <<dedup, executed, responses>>
      BY ZenonT(60), <1>b, <2>1, <2>w DEF TakeJob, ServerTypes
    <3>2. /\ Len(jobs) \in Nat /\ Len(jobs) >= 1 /\ Len(jobs') = Len(jobs) - 1 /\ worker'[w] = jobs[1]
          /\ \A k \in 1 .. Len(jobs') : jobs'[k] = jobs[k + 1]
      BY ZenonT(60), <3>1, Dequeued
    <3>3. 1 \in 1 .. Len(jobs) /\ \A k \in 1 .. Len(jobs') : k + 1 \in 1 .. Len(jobs)
      BY <3>2
    <3>4. /\ worker'[w].payload.life <= life /\ worker'[w].step # "store"
          /\ worker'[w].step = "send" => executed[worker'[w].payload] > 0
      BY ZenonT(60), <3>2, <3>3 DEF AnswerInv
    <3>5. \A k \in 1 .. Len(jobs') : /\ jobs'[k].payload.life <= life' /\ jobs'[k].step # "store"
                                     /\ jobs'[k].step = "send" => executed'[jobs'[k].payload] > 0
      BY SMTT(30), <1>c, <3>1, <3>2, <3>3 DEF AnswerInv
    <3>6. \A v \in Workers : /\ worker'[v].step \in {"run", "store", "send"} => worker'[v].payload.life <= life'
                             /\ worker'[v].step \in {"store", "send"} => executed'[worker'[v].payload] > 0
      BY ZenonT(60), <1>c, <2>0, <3>1, <3>4 DEF AnswerInv
    <3> QED
      BY ZenonT(60), <1>c, <2>0, <3>1, <3>5, <3>6 DEF AnswerInv, OwnAnswer
  <2>2. CASE FindNothing(w) \/ Wait(w) \/ Exit(w)
    <3>1. UNCHANGED <<dedup, jobs, executed, responses>> /\ worker'[w] \in {Idle, About, Waiting, Exited}
      BY ZenonT(60), <1>b, <2>2, <2>w DEF FindNothing, Wait, Exit, WorkerFrame, ServerTypes
    <3> QED
      BY ZenonT(60), SMT, SMTT(30), <1>c, <1>r, <2>0, <3>1 DEF AnswerInv, OwnAnswer
  <2>3. CASE RunHandler(w) \/ HandlerPanics(w)
    <3> DEFINE p == worker[w].payload
    <3>1. /\ worker[w].step = "run" /\ UNCHANGED <<dedup, jobs, responses>>
          /\ executed' = [executed EXCEPT ![p] = @ + 1]
          /\ worker'[w] = [worker[w] EXCEPT !.step = "store"] \/ worker'[w] = Idle
      BY ZenonT(60), <1>b, <2>3, <2>w DEF RunHandler, HandlerPanics, InStep, ServerTypes
    <3>2. p \in Payloads /\ worker[w] \in Jobs /\ p.life <= life
      BY <1>p, <2>w, <3>1 DEF AnswerInv
    <3>3. executed[p] \in Nat /\ executed'[p] = executed[p] + 1 /\ \A x \in Payloads \ {p} : executed'[x] = executed[x]
      BY <1>b, <3>1, <3>2 DEF ServerTypes
    <3>4. executed'[p] > 0
      BY <3>3
    <3>5. worker'[w].step \in {"run", "store", "send"} => worker'[w].payload = p
      BY <1>r, <3>1, <3>2 DEF Jobs
    <3> HIDE DEF p
    <3>6. \A x \in Payloads : executed[x] > 0 => executed'[x] > 0
      BY ZenonT(60), <3>3, <3>4
    <3>7. \A v \in Workers : /\ worker'[v].step \in {"run", "store", "send"} => worker'[v].payload.life <= life'
                             /\ worker'[v].step \in {"store", "send"} => executed'[worker'[v].payload] > 0
      BY ZenonT(60), SMT, SMTT(60), <1>c, <1>p, <2>0, <3>2, <3>4, <3>5, <3>6 DEF AnswerInv
    <3>8. \A k \in 1 .. Len(jobs') : /\ jobs'[k].payload.life <= life' /\ jobs'[k].step # "store"
                                     /\ jobs'[k].step = "send" => executed'[jobs'[k].payload] > 0
      BY <1>c, <1>p, <3>1, <3>6 DEF AnswerInv
    <3>9. /\ \A x \in Payloads : executed'[x] > 0 => x.life <= life'
          /\ \A r \in RpcIds, x \in Payloads : dedup'[r] = Done(x) => executed'[x] > 0
          /\ \A x \in Payloads : responses'[x] > 0 => executed'[x] > 0
      BY <1>c, <3>1, <3>2, <3>3, <3>6 DEF AnswerInv
    <3>10. /\ held # NoCall => held.response \in Payloads
           /\ \A x \in Callers : inbox[x] # NoCall => inbox[x] \in Payloads
           /\ \A e \in ended : e.payload \in Payloads
      BY ZenonT(60), <1>b DEF ClientTypes
    <3>11. /\ held' # NoCall => executed'[held'.response] > 0
           /\ \A x \in Callers : inbox'[x] # NoCall /\ call'[x] # NoCall
                                  => executed'[inbox'[x]] > 0 /\ inbox'[x].rpc = call'[x].rpc
      BY ZenonT(60), <1>c, <3>6, <3>10 DEF AnswerInv
    <3>12. OwnAnswer'
      BY ZenonT(60), SMT, SMTT(30), <1>c, <3>6, <3>10 DEF AnswerInv, OwnAnswer
    <3>13. \A q \in requests' : q.payload.life <= life'
      BY <1>c, <2>0 DEF AnswerInv
    <3> QED
      BY <3>7, <3>8, <3>9, <3>11, <3>12, <3>13 DEF AnswerInv
  <2>4. CASE StoreResponse(w) \/ SendResponse(w)
    <3> DEFINE p == worker[w].payload
    <3>1. /\ worker[w].step \in {"store", "send"} /\ UNCHANGED <<executed, jobs>>
          /\ dedup' = dedup \/ dedup' = [dedup EXCEPT ![p.rpc] = Done(p)]
          /\ responses' = responses \/ responses' = [responses EXCEPT ![p] = @ + 1]
          /\ worker'[w] = [worker[w] EXCEPT !.step = "send"] \/ worker'[w] = Idle
      BY ZenonT(60), <1>b, <2>4, <2>w DEF StoreResponse, SendResponse, InStep, ServerTypes
    <3>2. p \in Payloads /\ worker[w] \in Jobs /\ p.life <= life /\ executed[p] > 0
      BY <1>p, <2>w, <3>1 DEF AnswerInv
    <3>3. worker'[w].step \in {"run", "store", "send"} => worker'[w].payload = p
      BY <1>r, <3>1, <3>2 DEF Jobs
    <3> HIDE DEF p
    <3>4. \A x, y : Done(x) = Done(y) => x = y
      BY DEF Done
    <3>5. \A r \in RpcIds, x \in Payloads : dedup'[r] = Done(x) => dedup[r] = Done(x) \/ x = p
      BY <1>b, <3>1, <3>4 DEF ServerTypes
    <3>6. \A x \in Payloads : responses'[x] > 0 => responses[x] > 0 \/ x = p
      BY <1>b, <3>1 DEF ServerTypes
    <3>7. \A v \in Workers : /\ worker'[v].step \in {"run", "store", "send"} => worker'[v].payload.life <= life'
                             /\ worker'[v].step \in {"store", "send"} => executed'[worker'[v].payload] > 0
      BY <1>c, <2>0, <3>1, <3>2, <3>3 DEF AnswerInv
    <3>8. /\ \A r \in RpcIds, x \in Payloads : dedup'[r] = Done(x) => executed'[x] > 0
          /\ \A x \in Payloads : responses'[x] > 0 => executed'[x] > 0
      BY ZenonT(60), <3>1, <3>2, <3>5, <3>6 DEF AnswerInv
    <3> QED
      BY <1>c, <2>0, <3>1, <3>7, <3>8 DEF AnswerInv, OwnAnswer
  <2> QED
    BY <1>3, <2>1, <2>2, <2>3, <2>4 DEF WorkerStep
<1>4. CASE NotifyAll
  <2>1. /\ UNCHANGED <<dedup, jobs, executed, responses, requests>>
        /\ \A w \in Workers : worker'[w] = worker[w] \/ worker'[w] = Idle
    BY ZenonT(60), SMT, SMTT(30), <1>4 DEF NotifyAll, DropFrame
  <2> QED
    BY <1>c, <1>r, <2>1 DEF AnswerInv, OwnAnswer
<1>5. CASE Joined
  <2>1. UNCHANGED <<worker, executed, responses, requests>> /\ jobs' = <<>> /\ dedup' = [r \in RpcIds |-> Absent]
    BY ZenonT(60), <1>5 DEF Joined, DropFrame
  <2>2. \A k \in 1 .. Len(jobs') : FALSE
    BY SMT, SMTT(30), ZenonT(60), <2>1
  <2>3. \A r \in RpcIds, p \in Payloads : dedup'[r] # Done(p)
    BY SMT, SMTT(30), ZenonT(60), <2>1, RestingWorks
  <2> QED
    BY SMTT(30), <1>c, <2>1, <2>2, <2>3 DEF AnswerInv, OwnAnswer
<1>6. CASE DropServer \/ LoopEnds \/ SetPoolFlag
  BY <1>1, <1>6 DEF DropServer, LoopEnds, SetPoolFlag, DropFrame
<1> QED
  BY <1>2, <1>3, <1>4, <1>5, <1>6

LEMMA AnswerInvariant == Spec => []AnswerInv
<1>1. Init => AnswerInv
  <2> SUFFICES ASSUME Init PROVE AnswerInv
    OBVIOUS
  <2>1. /\ requests = {} /\ jobs = <<>> /\ held = NoCall /\ ended = {}
        /\ \A w \in Workers : worker[w] = Idle
        /\ \A p \in Payloads : executed[p] = 0 /\ responses[p] = 0
        /\ \A c \in Callers : inbox[c] = NoCall
        /\ \A r \in RpcIds : dedup[r] = Absent
    BY DEF Init
  <2>2. \A k \in 1 .. Len(jobs) : FALSE
    BY <2>1
  <2>3. Idle.step = "idle" /\ \A p : Done(p) # Absent
    BY ZenonT(60), RestingWorks DEF Idle
  <2> QED
    BY <2>1, <2>2, <2>3 DEF AnswerInv, OwnAnswer
<1>2. TypeInv /\ AnswerInv /\ [Next]_vars => AnswerInv'
  BY ZenonT(60), AnswerCaller, AnswerClient, AnswerServer DEF Next, ServerStep
<1> QED
  BY <1>1, <1>2, TypeInvariant, PTL DEF Spec

(* Whatever is lost, repeated or late, a call of the first process on an address
   returns the response to its own request, computed by a handler that ran. *)
THEOREM CallsGetTheirAnswer == Spec => []OwnAnswer
<1>1. AnswerInv => OwnAnswer
  BY ZenonT(60), SMT, SMTT(30) DEF AnswerInv
<1> QED
  BY <1>1, AnswerInvariant, PTL

-----------------------------------------------------------------------------
(* No waiter is left behind. *)

(* The channel of the attempt in progress; a response on its way to the channel
   of some attempt of rpc r; a caller that has not registered a waiter. *)
Channel(c) == [caller |-> c, try |-> call[c].tries]
Routed(r) == held # NoCall /\ held.at = "routed" /\ held.response.rpc = r
Unregistered(c) == call[c].at \in {"timedSend", "timedSent", "onlySend"}

(* A channel is in one place: registered, in the dispatcher's hands, or answered. *)
OnePlace(c) == LET r == call[c].rpc IN
  /\ waiters[r] # NoCall /\ waiters[r].caller = c => waiters[r].try <= call[c].tries
  /\ Routed(r) /\ held.to.caller = c => held.to.try <= call[c].tries
  /\ inbox[c] # NoCall \/ (Routed(r) /\ held.to = Channel(c)) => waiters[r] = NoCall \/ waiters[r] # Channel(c)
  /\ Unregistered(c) => waiters[r] = NoCall /\ ~Routed(r) /\ inbox[c] = NoCall
  /\ call[c].at = "timedSent" => call[c].tries = 1

Owned(r) ==
  \/ LET k == call[waiters[r].caller]
     IN  k # NoCall /\ k.rpc = r /\ k.tries = waiters[r].try
  \/ \E e \in ended : e.payload.rpc = r /\ e.outcome = "sendError"

WaiterInv ==
  /\ \A c \in Callers : call[c] # NoCall => call[c].rpc < nextId
  /\ \A c, d \in Callers : call[c] # NoCall /\ call[d] # NoCall /\ c # d => call[c].rpc # call[d].rpc
  /\ \A r \in RpcIds : waiters[r] # NoCall \/ Routed(r) => r < nextId
  /\ \A c \in Callers : call[c] # NoCall => OnePlace(c)
  /\ \A r \in RpcIds : waiters[r] # NoCall => Owned(r)

LEMMA WaiterCaller ==
  ASSUME TypeInv, WaiterInv, NEW c \in inst.callers, CallerStep(c)
  PROVE  WaiterInv'
<1> USE DEF clientVars, serverVars, dropVars
<1>0. call[c] # NoCall
  BY ZenonT(60) DEF CallerStep, Register, SendRequest, SendRequestFails, TakeResponse, Expire, Retry, TimedSend,
         TimedRegister, TimedOut, SendOnly, At
<1>a. c \in Callers /\ call[c] \in Calls /\ call[c].rpc \in RpcIds /\ call[c].tries \in 0 .. Tries
  BY ZenonT(60), <1>0, CallerFacts
<1>b. ClientTypes
  BY TypeParts
<1> PICK r \in RpcIds : r = call[c].rpc
  BY ZenonT(60), <1>a
<1>1. UNCHANGED <<nextId, held>> /\ ended \subseteq ended'
  BY DEF CallerStep, Register, SendRequest, SendRequestFails, TakeResponse, Expire, Retry, TimedSend,
         TimedRegister, TimedOut, SendOnly, Returns
<1>2. \A x \in RpcIds \ {r} : waiters'[x] = waiters[x]
  <2>1. waiters' = waiters \/ \E y : waiters' = [waiters EXCEPT ![r] = y]
    BY ZenonT(60) DEF CallerStep, Register, SendRequest, SendRequestFails, TakeResponse, Expire, Retry, TimedSend,
           TimedRegister, TimedOut, SendOnly
  <2> QED
    BY <1>b, <2>1 DEF ClientTypes
<1>3. \A d \in Callers \ {c} : call'[d] = call[d] /\ inbox'[d] = inbox[d]
  <2>1. inbox' = inbox \/ inbox' = [inbox EXCEPT ![c] = NoCall]
    BY ZenonT(60) DEF CallerStep, Register, SendRequest, SendRequestFails, TakeResponse, Expire, Retry, TimedSend,
           TimedRegister, TimedOut, SendOnly
  <2>2. \/ \E where, n : call' = [call EXCEPT ![c].at = where, ![c].tries = n]
        \/ call' = [call EXCEPT ![c] = NoCall]
        \/ \E where : call' = [call EXCEPT ![c].at = where]
    BY ZenonT(60) DEF CallerStep, Register, SendRequest, SendRequestFails, TakeResponse, Expire, Retry, TimedSend,
           TimedRegister, TimedOut, SendOnly, Goes, Returns
  <2> QED
    BY ZenonT(60), <1>b, <2>1, <2>2 DEF ClientTypes
(* What the step must do to its own call and its own waiter. *)
<1>4. ASSUME call'[c] # NoCall => call'[c].rpc = r,
             call'[c] # NoCall => OnePlace(c)',
             waiters'[r] # NoCall => Owned(r)'
      PROVE  WaiterInv'
  <2>1. /\ r \in RpcIds /\ r < nextId /\ call[c] # NoCall /\ c \in Callers
        /\ \A d \in Callers \ {c} : call[d] # NoCall => call[d].rpc # r
    BY ZenonT(60), <1>0, <1>a DEF WaiterInv
  <2>2. \A d \in Callers : call'[d] # NoCall => call'[d].rpc < nextId'
    BY ZenonT(60), <1>1, <1>3, <1>4, <2>1 DEF WaiterInv
  <2>3. \A d, e \in Callers : call'[d] # NoCall /\ call'[e] # NoCall /\ d # e => call'[d].rpc # call'[e].rpc
    BY ZenonT(60), SMT, SMTT(30), <1>3, <1>4, <2>1 DEF WaiterInv
  <2>4. \A x \in RpcIds : waiters'[x] # NoCall \/ Routed(x)' => x < nextId'
    BY <1>1, <1>2, <2>1 DEF WaiterInv, Routed
  <2>5. ASSUME NEW d \in Callers, call'[d] # NoCall PROVE OnePlace(d)'
    <3>1. CASE d = c
      BY ZenonT(60), <1>4, <2>5, <3>1
    <3>2. CASE d # c
      <4>1. call'[d] = call[d] /\ inbox'[d] = inbox[d] /\ held' = held
        BY ZenonT(60), <1>1, <1>3, <3>2
      <4>2. call[d].rpc \in RpcIds
        BY ZenonT(60), <1>b, <2>5, <4>1 DEF ClientTypes, Calls
      <4>3. waiters'[call[d].rpc] = waiters[call[d].rpc]
        BY ZenonT(60), SMT, SMTT(30), <1>2, <2>1, <2>5, <3>2, <4>1, <4>2
      <4>4. OnePlace(d)
        BY <2>5, <4>1 DEF WaiterInv
      <4> QED
        BY <4>1, <4>3, <4>4 DEF OnePlace, Routed, Channel, Unregistered
    <3> QED
      BY <3>1, <3>2
  <2>6. ASSUME NEW x \in RpcIds, waiters'[x] # NoCall PROVE Owned(x)'
    <3>1. CASE x = r
      BY ZenonT(60), <1>4, <2>6, <3>1
    <3>2. CASE x # r
      <4>1. waiters'[x] = waiters[x] /\ waiters[x] # NoCall
        BY ZenonT(60), <1>2, <2>6, <3>2
      <4>2. waiters[x].caller \in Callers
        BY ZenonT(60), <1>b, <4>1 DEF ClientTypes, Channels
      <4>3. Owned(x)
        BY ZenonT(60), <4>1 DEF WaiterInv
      <4>4. CASE \E e \in ended : e.payload.rpc = x /\ e.outcome = "sendError"
        BY ZenonT(60), <1>1, <4>4 DEF Owned
      <4>5. CASE /\ call[waiters[x].caller] # NoCall /\ call[waiters[x].caller].rpc = x
                 /\ call[waiters[x].caller].tries = waiters[x].try
        <5>1. waiters[x].caller # c
          BY <3>2, <4>5
        <5>2. call'[waiters'[x].caller] = call[waiters[x].caller]
          BY ZenonT(60), <1>3, <4>1, <4>2, <5>1
        <5> QED
          BY <4>1, <4>5, <5>2 DEF Owned
      <4> QED
        BY <4>3, <4>4, <4>5 DEF Owned
    <3> QED
      BY <3>1, <3>2
  <2> QED
    BY ZenonT(60), <2>2, <2>3, <2>4, <2>5, <2>6 DEF WaiterInv
<1>5. OnePlace(c) /\ (waiters[r] # NoCall => Owned(r))
  BY <1>0, <1>a DEF WaiterInv
(* Every number of attempts that the step can leave is one of a call. *)
<1>n. ASSUME NEW where \in {"send", "wait", "retry", "timedSent", "timedWait", "timedOut", "attempt"}, NEW n \in 0 .. Tries,
             call' = [call EXCEPT ![c].at = where, ![c].tries = n]
      PROVE  call'[c] # NoCall /\ call'[c].rpc = r /\ call'[c].tries = n /\ call'[c].at = where
  <2>1. call'[c] = [call[c] EXCEPT !.at = where, !.tries = n]
    BY <1>a, <1>b, <1>n DEF ClientTypes
  <2>2. call'[c] \in Calls /\ call'[c].rpc = r /\ call'[c].tries = n /\ call'[c].at = where
    BY ZenonT(60), <1>a, <2>1 DEF Calls
  <2> QED
    BY <2>2, NoCallAssumption
<1>6. CASE Register(c)
  <2>1. /\ waiters' = [waiters EXCEPT ![r] = [caller |-> c, try |-> call[c].tries + 1]]
        /\ inbox' = [inbox EXCEPT ![c] = NoCall]
        /\ call' = [call EXCEPT ![c].at = "send", ![c].tries = call[c].tries + 1]
    BY <1>6, <1>a DEF Register
  <2>2. call[c].tries + 1 \in 0 .. Tries
    BY <1>6, <1>a, <1>b, TriesType DEF Register, ClientTypes
  <2>3. call'[c] # NoCall /\ call'[c].rpc = r /\ call'[c].tries = call[c].tries + 1 /\ call'[c].at = "send"
    BY ZenonT(60), <1>n, <2>1, <2>2
  <2>4. inbox'[c] = NoCall /\ waiters'[r] = [caller |-> c, try |-> call[c].tries + 1]
    BY <1>a, <1>b, <2>1 DEF ClientTypes
  <2>5. call[c].tries \in Nat /\ call[c].rpc = r
    BY SMT, SMTT(30), ZenonT(60), <1>a, TriesType
  <2>6. Routed(r)' /\ held'.to.caller = c => Routed(r) /\ held'.to.try <= call[c].tries /\ held' = held
    BY <1>1, <1>5, <2>5 DEF OnePlace, Routed
  <2>7. Routed(r) => held.to \in Channels
    BY <1>b DEF ClientTypes, Routed
  <2>8. Routed(r)' /\ held'.to.caller = c => held'.to.try \in Nat /\ held'.to.try < call[c].tries + 1
    BY SMT, SMTT(30), <2>5, <2>6, <2>7, TriesType DEF Channels
  <2>9. OnePlace(c)'
    <3>1. /\ waiters'[r].try <= call'[c].tries
          /\ Routed(r)' /\ held'.to.caller = c => held'.to.try <= call'[c].tries /\ held'.to.try # call'[c].tries
      BY SMT, SMTT(30), ZenonT(60), <2>3, <2>4, <2>5, <2>8
    <3>2. Routed(r)' => held'.to # Channel(c)'
      BY SMT, SMTT(30), ZenonT(60), <2>3, <3>1 DEF Channel
    <3> QED
      BY ZenonT(60), <2>3, <2>4, <3>1, <3>2 DEF OnePlace, Unregistered
  <2>10. Owned(r)'
    BY <2>3, <2>4 DEF Owned
  <2> QED
    BY <1>4, <2>3, <2>9, <2>10
<1>7. CASE SendRequest(c) \/ Expire(c)
  <2>1. UNCHANGED <<waiters, inbox>> /\ \E where \in {"wait", "retry", "timedOut"} : call' = [call EXCEPT ![c].at = where]
    BY <1>7 DEF SendRequest, Expire, Goes
  <2>2. \E where \in {"wait", "retry", "timedOut"} : call' = [call EXCEPT ![c].at = where, ![c].tries = call[c].tries]
    BY ZenonT(60), <1>a, <1>b, <2>1 DEF ClientTypes, Calls
  <2>3. /\ call'[c] # NoCall /\ call'[c].rpc = r /\ call'[c].tries = call[c].tries
        /\ call'[c].at \in {"wait", "retry", "timedOut"}
    BY ZenonT(60), <1>a, <1>n, <2>2
  <2>4. OnePlace(c)'
    BY SMTT(30), <1>1, <1>5, <2>1, <2>3 DEF OnePlace, Routed, Channel, Unregistered
  <2>5. waiters'[r] # NoCall => Owned(r)'
    <3>1. ASSUME waiters[r] # NoCall PROVE waiters[r].caller \in Callers
      BY <1>a, <1>b, <3>1 DEF ClientTypes, Channels
    <3> QED
      BY ZenonT(60), <1>1, <1>3, <1>5, <2>1, <2>3, <3>1 DEF Owned
  <2> QED
    BY <1>4, <2>3, <2>4, <2>5
<1>8. CASE TimedSend(c) \/ TimedRegister(c)
  <2>0. 1 \in 0 .. Tries
    BY TriesType
  <2>1. /\ UNCHANGED inbox /\ Unregistered(c)
        /\ \/ waiters' = waiters /\ call' = [call EXCEPT ![c].at = "timedSent", ![c].tries = 1]
           \/ /\ waiters' = [waiters EXCEPT ![r] = [caller |-> c, try |-> 1]]
              /\ call[c].tries = 1 /\ call' = [call EXCEPT ![c].at = "timedWait"]
    BY <1>5, <1>8 DEF TimedSend, TimedRegister, Goes, At, Unregistered, OnePlace
  <2>2. waiters[r] = NoCall /\ ~Routed(r) /\ inbox[c] = NoCall /\ ~Routed(r)'
    BY <1>1, <1>5, <2>1 DEF OnePlace, Routed
  <2>3. CASE waiters' = waiters /\ call' = [call EXCEPT ![c].at = "timedSent", ![c].tries = 1]
    <3>1. call'[c] # NoCall /\ call'[c].rpc = r /\ call'[c].tries = 1 /\ call'[c].at = "timedSent"
      BY ZenonT(60), <1>n, <2>0, <2>3
    <3>2. OnePlace(c)'
      BY <2>1, <2>2, <2>3, <3>1 DEF OnePlace
    <3> QED
      BY SMTT(30), <1>4, <2>2, <2>3, <3>1, <3>2
  <2>4. CASE /\ waiters' = [waiters EXCEPT ![r] = [caller |-> c, try |-> 1]]
             /\ call[c].tries = 1 /\ call' = [call EXCEPT ![c].at = "timedWait"]
    <3>1. call' = [call EXCEPT ![c].at = "timedWait", ![c].tries = 1]
      BY ZenonT(60), <1>a, <1>b, <2>4 DEF ClientTypes, Calls
    <3>2. call'[c] # NoCall /\ call'[c].rpc = r /\ call'[c].tries = 1 /\ call'[c].at = "timedWait"
      BY ZenonT(60), <1>n, <2>0, <3>1
    <3>3. waiters'[r] = [caller |-> c, try |-> 1]
      BY <1>a, <1>b, <2>4 DEF ClientTypes
    <3>4. OnePlace(c)'
      BY SMT, SMTT(30), <2>1, <2>2, <3>2, <3>3 DEF OnePlace, Unregistered
    <3>5. Owned(r)'
      BY SMT, SMTT(30), ZenonT(60), <3>2, <3>3 DEF Owned
    <3> QED
      BY <1>4, <3>2, <3>4, <3>5
  <2> QED
    BY ZenonT(60), <2>1, <2>3, <2>4
<1>9. CASE Retry(c) \/ TimedOut(c)
  <2>1. waiters'[r] = NoCall
    BY <1>9, <1>a, <1>b DEF Retry, TimedOut, ClientTypes
  <2>2. CASE \E o : Returns(c, o, NoCall)
    <3>1. call'[c] = NoCall
      BY <1>a, <1>b, <2>2 DEF Returns, ClientTypes
    <3> QED
      BY <1>4, <2>1, <3>1
  <2>3. CASE UNCHANGED inbox /\ call' = Goes(c, "attempt")
    <3>1. call' = [call EXCEPT ![c].at = "attempt", ![c].tries = call[c].tries]
      BY ZenonT(60), <1>a, <1>b, <2>3 DEF Goes, ClientTypes, Calls
    <3>2. call'[c] # NoCall /\ call'[c].rpc = r /\ call'[c].tries = call[c].tries /\ call'[c].at = "attempt"
      BY ZenonT(60), <1>a, <1>n, <3>1
    <3>4. OnePlace(c)'
      BY ZenonT(60), <1>1, <1>5, <2>1, <2>3, <3>2 DEF OnePlace, Routed, Channel, Unregistered
    <3> QED
      BY <1>4, <2>1, <3>2, <3>4
  <2> QED
    BY ZenonT(60), <1>9, <2>2, <2>3 DEF Retry, TimedOut
<1>10. CASE SendRequestFails(c) \/ TakeResponse(c) \/ SendOnly(c)
  <2>1. UNCHANGED waiters /\ call'[c] = NoCall
    BY ZenonT(60), <1>10, <1>a, <1>b DEF SendRequestFails, TakeResponse, SendOnly, Returns, ClientTypes
  <2>2. ASSUME waiters[r] # NoCall PROVE Owned(r)'
    <3>0. waiters[r] \in Channels /\ waiters[r].caller \in Callers
      BY ZenonT(60), <1>a, <1>b, <2>2 DEF ClientTypes, Channels
    <3>1. CASE SendRequestFails(c)
      <4>1. [payload |-> Payload(c), tries |-> call[c].tries, outcome |-> "sendError", answer |-> NoCall] \in ended'
        BY <3>1 DEF SendRequestFails, Returns
      <4>2. Payload(c).rpc = r
        BY ZenonT(60) DEF Payload
      <4> QED
        BY ZenonT(60), <4>1, <4>2 DEF Owned
    <3>2. CASE TakeResponse(c)
      <4>1. waiters[r] # Channel(c)
        BY ZenonT(60), <1>5, <2>2, <3>2 DEF TakeResponse, OnePlace
      <4>2. waiters[r].caller = c => waiters[r].try # call[c].tries
        BY ZenonT(60), <3>0, <4>1 DEF Channels, Channel
      <4> QED
        BY ZenonT(60), <1>1, <1>3, <1>5, <2>1, <2>2, <3>0, <4>2 DEF Owned
    <3>3. CASE SendOnly(c)
      BY ZenonT(60), <1>5, <2>2, <3>3 DEF SendOnly, At, OnePlace, Unregistered
    <3> QED
      BY ZenonT(60), <1>10, <3>1, <3>2, <3>3
  <2> QED
    BY ZenonT(60), <1>4, <2>1, <2>2
<1> QED
  BY <1>6, <1>7, <1>8, <1>9, <1>10 DEF CallerStep

LEMMA WaiterClient ==
  ASSUME TypeInv, WaiterInv,
         \/ \E c \in inst.callers, kind \in inst.kinds : Begin(c, kind)
         \/ DispatchRemove \/ DispatchSend \/ Restart
         \/ \E p \in Payloads : DispatchRecv(p)
  PROVE  WaiterInv'
<1> USE DEF clientVars, serverVars, dropVars
<1>b. ClientTypes /\ ServerTypes
  BY ZenonT(60), TypeParts
<1>1. ASSUME NEW c \in inst.callers, NEW kind \in inst.kinds, Begin(c, kind) PROVE WaiterInv'
  <2>0. /\ c \in Callers /\ inst.calls \in 0 .. MaxCalls /\ kind \in {"call", "timed", "only"}
    BY <1>b, RpcConstants DEF ServerTypes
  <2> DEFINE at == CASE kind = "call" -> "attempt" [] kind = "timed" -> "timedSend" [] kind = "only" -> "onlySend"
             k  == [rpc |-> nextId, tries |-> 0, at |-> at]
  <2>1. /\ call[c] = NoCall /\ call' = [call EXCEPT ![c] = k] /\ nextId' = nextId + 1
        /\ inbox' = [inbox EXCEPT ![c] = NoCall] /\ UNCHANGED <<waiters, ended, held>>
        /\ nextId <= inst.calls
    BY <1>1 DEF Begin
  <2>2. /\ call'[c] = k /\ inbox'[c] = NoCall
        /\ \A d \in Callers \ {c} : call'[d] = call[d] /\ inbox'[d] = inbox[d]
    BY ZenonT(60), <1>b, <2>0, <2>1 DEF ClientTypes
  <2>3. nextId \in RpcIds /\ nextId \in Nat /\ nextId < nextId' /\ nextId' \in Nat
    <3>1. nextId \in 1 .. MaxCalls + 1 /\ nextId <= inst.calls /\ nextId' = nextId + 1
      BY <1>b, <2>1 DEF ClientTypes
    <3> QED
      BY <2>0, <3>1, IdsType DEF RpcIds
  <2>4. k.rpc = nextId /\ k.tries = 0 /\ k.at # "timedSent"
    BY ZenonT(60), <2>0
  <2>5. waiters[nextId] = NoCall /\ ~Routed(nextId)
    BY SMT, SMTT(30), <2>3 DEF WaiterInv
  <2> HIDE DEF k
  <2>6. \A d \in Callers : call[d] # NoCall => call[d].rpc \in RpcIds /\ call[d].rpc < nextId
    BY ZenonT(60), <1>b DEF ClientTypes, Calls, WaiterInv
  <2>7. \A x \in RpcIds : x < nextId => x < nextId' /\ x # nextId
    BY <2>3, IdsType
  <2>8. \A d \in Callers : call'[d] # NoCall => call'[d].rpc < nextId'
    BY ZenonT(60), <2>2, <2>3, <2>4, <2>6, <2>7
  <2>9. \A d, e \in Callers : call'[d] # NoCall /\ call'[e] # NoCall /\ d # e => call'[d].rpc # call'[e].rpc
    BY <2>2, <2>4, <2>6, <2>7 DEF WaiterInv
  <2>10. \A x \in RpcIds : waiters'[x] # NoCall \/ Routed(x)' => x < nextId'
    BY ZenonT(60), <2>1, <2>7 DEF WaiterInv, Routed
  <2>11. ASSUME NEW d \in Callers, call'[d] # NoCall PROVE OnePlace(d)'
    <3>1. CASE d = c
      <4>1. call'[d].rpc = nextId /\ waiters'[nextId] = NoCall /\ call'[d].at # "timedSent" /\ inbox'[d] = NoCall
        BY <2>1, <2>2, <2>4, <2>5, <3>1
      <4>2. ~(held' # NoCall /\ held'.at = "routed" /\ held'.response.rpc = nextId)
        BY ZenonT(60), SMT, SMTT(30), <2>1, <2>5 DEF Routed
      <4> QED
        BY ZenonT(60), <4>1, <4>2 DEF OnePlace, Routed
    <3>2. CASE d # c
      BY SMT, SMTT(30), <2>1, <2>2, <2>11, <3>2 DEF WaiterInv, OnePlace, Routed, Channel, Unregistered
    <3> QED
      BY ZenonT(60), <3>1, <3>2
  <2>12. ASSUME NEW x \in RpcIds, waiters'[x] # NoCall PROVE Owned(x)'
    <3>1. waiters[x].caller \in Callers /\ Owned(x)
      BY ZenonT(60), <1>b, <2>1, <2>12 DEF ClientTypes, Channels, WaiterInv
    <3> QED
      BY ZenonT(60), <2>1, <2>2, <3>1 DEF Owned
  <2> QED
    BY ZenonT(60), <2>8, <2>9, <2>10, <2>11, <2>12 DEF WaiterInv
<1>2. ASSUME NEW p \in Payloads, DispatchRecv(p) PROVE WaiterInv'
  <2>1. UNCHANGED <<nextId, call, waiters, inbox, ended>> /\ held' = [at |-> "received", response |-> p]
    BY ZenonT(60), <1>2 DEF DispatchRecv
  <2>2. \A x : ~Routed(x)'
    BY ZenonT(60), <2>1 DEF Routed
  <2> QED
    BY ZenonT(60), <2>1, <2>2 DEF WaiterInv, OnePlace, Owned, Channel, Unregistered
<1>3. CASE DispatchSend
  <2>1. /\ UNCHANGED <<nextId, call, waiters, ended>> /\ held' = NoCall /\ held # NoCall /\ held.at = "routed"
        /\ \/ inbox' = inbox
           \/ ChannelOpen(held.to, held.response) /\ inbox' = [inbox EXCEPT ![held.to.caller] = held.response]
    BY ZenonT(60), <1>3 DEF DispatchSend
  <2>2. \A x : ~Routed(x)'
    BY ZenonT(60), <2>1 DEF Routed
  <2>3. held.to \in Channels
    BY <1>b, <2>1 DEF ClientTypes
  <2>4. ASSUME NEW d \in Callers, call'[d] # NoCall PROVE OnePlace(d)'
    <3>1. OnePlace(d)
      BY ZenonT(60), <2>1, <2>4 DEF WaiterInv
    <3>2. CASE inbox'[d] = inbox[d]
      BY ZenonT(60), <2>1, <2>2, <3>1, <3>2 DEF OnePlace, Channel, Unregistered
    <3>3. CASE inbox'[d] # inbox[d]
      <4>1. held.to.caller = d /\ ChannelOpen(held.to, held.response)
        BY <1>b, <2>1, <3>3 DEF ClientTypes
      <4>2. call[d].rpc = held.response.rpc /\ held.to.try = call[d].tries /\ ~Unregistered(d)
        BY <4>1 DEF ChannelOpen, Unregistered
      <4>3. held.to = Channel(d) /\ Routed(call[d].rpc)
        BY ZenonT(60), <2>1, <2>3, <4>1, <4>2 DEF Channels, Channel, Routed
      <4> QED
        BY ZenonT(60), <2>1, <2>2, <3>1, <4>2, <4>3 DEF OnePlace, Channel, Unregistered
    <3> QED
      BY ZenonT(60), <3>2, <3>3
  <2> QED
    BY ZenonT(60), <2>1, <2>2, <2>4 DEF WaiterInv, Owned
<1>4. CASE DispatchRemove
  <2> PICK r \in RpcIds : r = held.response.rpc
    BY ZenonT(60), SMT, SMTT(30), <1>4, <1>b DEF DispatchRemove, ClientTypes, Payloads
  <2>1. /\ UNCHANGED <<nextId, call, inbox, ended>> /\ held # NoCall /\ held.at = "received"
        /\ held' = IF waiters[r] = NoCall THEN NoCall
                   ELSE [at |-> "routed", response |-> held.response, to |-> waiters[r]]
        /\ waiters' = [waiters EXCEPT ![r] = NoCall]
    BY <1>4 DEF DispatchRemove
  <2>2. waiters'[r] = NoCall /\ \A x \in RpcIds \ {r} : waiters'[x] = waiters[x]
    BY ZenonT(60), <1>b, <2>1 DEF ClientTypes
  <2>3. \A x : Routed(x)' => x = r /\ waiters[r] # NoCall /\ held'.to = waiters[r]
    BY ZenonT(60), <2>1 DEF Routed
  <2>4. \A x : ~Routed(x)
    BY ZenonT(60), <2>1 DEF Routed
  <2>5. \A x \in RpcIds : waiters'[x] # NoCall \/ Routed(x)' => x < nextId'
    BY ZenonT(60), <2>1, <2>2, <2>3 DEF WaiterInv
  <2>6. ASSUME NEW d \in Callers, call'[d] # NoCall PROVE OnePlace(d)'
    <3>1. OnePlace(d) /\ call[d].rpc \in RpcIds /\ call'[d] = call[d] /\ inbox'[d] = inbox[d]
      BY ZenonT(60), <1>b, <2>1, <2>6 DEF WaiterInv, ClientTypes, Calls
    <3>2. CASE call[d].rpc = r
      BY ZenonT(60), <2>2, <2>3, <3>1, <3>2 DEF OnePlace, Channel, Unregistered
    <3>3. CASE call[d].rpc # r
      <4> PICK x \in RpcIds : x = call[d].rpc
        BY ZenonT(60), <3>1
      <4>1. waiters'[x] = waiters[x] /\ ~Routed(x)' /\ call'[d].rpc = x
        BY ZenonT(60), <2>2, <2>3, <3>1, <3>3
      <4> QED
        BY ZenonT(60), <3>1, <4>1 DEF OnePlace, Channel, Unregistered, Routed
    <3> QED
      BY <3>2, <3>3
  <2>7. ASSUME NEW x \in RpcIds, waiters'[x] # NoCall PROVE Owned(x)'
    <3>1. waiters'[x] = waiters[x] /\ Owned(x)
      BY ZenonT(60), SMT, SMTT(30), <2>2, <2>7 DEF WaiterInv
    <3> QED
      BY ZenonT(60), <2>1, <3>1 DEF Owned
  <2>8. /\ \A c \in Callers : call'[c] # NoCall => call'[c].rpc < nextId'
        /\ \A c, d \in Callers : call'[c] # NoCall /\ call'[d] # NoCall /\ c # d => call'[c].rpc # call'[d].rpc
    BY ZenonT(60), SMT, SMTT(30), <2>1 DEF WaiterInv
  <2> QED
    BY ZenonT(60), <2>5, <2>6, <2>7, <2>8 DEF WaiterInv
<1>5. CASE Restart
  <2>1. /\ held' = NoCall /\ \A c \in Callers : call'[c] = NoCall
        /\ \A r \in RpcIds : waiters'[r] = NoCall
    BY ZenonT(60), <1>5 DEF Restart
  <2> QED
    BY ZenonT(60), <2>1 DEF WaiterInv, Routed
<1> QED
  BY <1>1, <1>2, <1>3, <1>4, <1>5

LEMMA WaiterInvariant == Spec => []WaiterInv
<1>1. Init => WaiterInv
  BY ZenonT(60) DEF Init, WaiterInv, Routed
<1>2. ASSUME UNCHANGED <<nextId, call, waiters, inbox, ended, held>>, WaiterInv PROVE WaiterInv'
  BY ZenonT(60), <1>2 DEF WaiterInv, OnePlace, Owned, Channel, Unregistered, Routed
<1>3. TypeInv /\ WaiterInv /\ [Next]_vars => WaiterInv'
  <2> SUFFICES ASSUME TypeInv, WaiterInv, [Next]_vars PROVE WaiterInv'
    OBVIOUS
  <2> USE DEF clientVars, serverVars, dropVars
  <2>1. ASSUME NEW w, WorkerStep(w) PROVE UNCHANGED <<nextId, call, waiters, inbox, ended, held>>
    BY SMTT(30), <2>1 DEF WorkerStep, TakeJob, FindNothing, Wait, Exit, WorkerFrame, RunHandler, HandlerPanics, StoreResponse,
       SendResponse
  <2>2. ASSUME NEW q, HandleRequest(q) \/ DropCompleted(q) \/ LoseRequest(q)
        PROVE  UNCHANGED <<nextId, call, waiters, inbox, ended, held>>
    BY ZenonT(60), <2>2 DEF HandleRequest, DropCompleted, LoseRequest
  <2>3. ASSUME NEW p, LoseResponse(p) PROVE UNCHANGED <<nextId, call, waiters, inbox, ended, held>>
    BY <2>3 DEF LoseResponse
  <2>4. CASE DropServer \/ ServerStep
    <3>1. UNCHANGED <<nextId, call, waiters, inbox, ended, held>>
      BY <2>4 DEF DropServer, ServerStep, LoopEnds, SetPoolFlag, NotifyAll, Joined, DropFrame
    <3> QED
      BY <1>2, <3>1
  <2>5. CASE UNCHANGED vars
    BY ZenonT(60), <1>2, <2>5 DEF vars
  <2> QED
    BY ZenonT(60), <1>2, <2>1, <2>2, <2>3, <2>4, <2>5, WaiterCaller, WaiterClient DEF Next
<1> QED
  BY <1>1, <1>3, TypeInvariant, PTL DEF Spec

(* However responses, retries and timeouts overlap, an entry of the waiter map
   belongs to the attempt in progress, unless a send failed. *)
THEOREM NoWaiterLeft == Spec => []NoStaleWaiter
<1>1. WaiterInv => NoStaleWaiter
  BY DEF WaiterInv, Owned, NoStaleWaiter
<1> QED
  BY <1>1, WaiterInvariant, PTL

-----------------------------------------------------------------------------
(* The handler runs once. *)

(* Nothing was executed for an rpc whose handler is still to run. *)
Fresh(r) == dedup[r] = Computing /\ \A p \in Payloads : p.rpc = r => executed[p] = 0

(* A handler that is queued or running has its mark in the dedup map, no two
   of them are for the same rpc, and an rpc without a mark was never executed
   as long as the map is there. *)
HandlerInv ==
  /\ \A w \in Workers \ inst.workers : worker[w] = Idle
  /\ \A k \in 1 .. Len(jobs) : jobs[k].step # "store"
  /\ \A k \in 1 .. Len(jobs) : Runs(jobs[k]) => Fresh(jobs[k].payload.rpc)
  /\ \A w \in Workers : Runs(worker[w]) => Fresh(worker[w].payload.rpc)
  /\ \A w \in Workers : Works(worker[w]) => dedup[worker[w].payload.rpc] = Computing
  /\ \A k, l \in 1 .. Len(jobs) : Runs(jobs[k]) /\ Runs(jobs[l]) /\ k # l => jobs[k].payload.rpc # jobs[l].payload.rpc
  /\ \A k \in 1 .. Len(jobs), w \in Workers : Runs(jobs[k]) /\ Works(worker[w]) => jobs[k].payload.rpc # worker[w].payload.rpc
  /\ \A v, w \in Workers : Works(worker[v]) /\ Works(worker[w]) /\ v # w => worker[v].payload.rpc # worker[w].payload.rpc
  /\ server # "gone" => \A p \in Payloads : dedup[p.rpc] = Absent => executed[p] = 0
  /\ HandlerOnce

LEMMA HandlerStep ==
  ASSUME TypeInv, HandlerInv, [Next]_vars
  PROVE  HandlerInv'
<1> USE DEF serverVars, dropVars
<1>b. ServerTypes
  BY ZenonT(60), TypeParts
<1>1. CASE UNCHANGED <<inst, dedup, jobs, worker, executed>> /\ (server' = "gone" <=> server = "gone")
  BY ZenonT(60), SMT, SMTT(30), <1>1 DEF HandlerInv, Fresh, HandlerOnce
<1>2. ASSUME NEW q \in requests, HandleRequest(q) PROVE HandlerInv'
  <2> DEFINE r == q.payload.rpc
             d == dedup[r]
  <2>0. q.payload \in Payloads /\ r \in RpcIds
    BY <1>b DEF ServerTypes, Payloads
  <2>1. server = "loop" /\ UNCHANGED <<inst, server, executed>>
    BY ZenonT(60), SMT, SMTT(30), <1>2 DEF HandleRequest
  <2>2. CASE d.state = "done" /\ Submit([step |-> "send", payload |-> d.response]) /\ UNCHANGED dedup
    <3> DEFINE job == [step |-> "send", payload |-> d.response]
    <3>1. d \in {Absent, Computing} \cup { Done(p) : p \in Payloads }
      BY ZenonT(60), <1>b, <2>0 DEF ServerTypes
    <3>2. PICK p \in Payloads : d = Done(p)
      BY SMT, SMTT(30), ZenonT(60), <2>2, <3>1 DEF Absent, Computing
    <3>3. d.response \in Payloads
      BY SMT, SMTT(30), <3>2 DEF Done
    <3>4. job \in Jobs /\ ~Runs(job) /\ job.step # "store"
      BY <3>3 DEF Jobs, Runs
    <3> HIDE DEF job, d
    <3>5. Submit(job)
      BY <2>2 DEF job
    <3>6. /\ \A k \in 1 .. Len(jobs') : (k \in 1 .. Len(jobs) /\ jobs'[k] = jobs[k]) \/ jobs'[k] = job
      BY ZenonT(60), <1>b, <3>4, <3>5, SubmitJobs
    <3>7. /\ \A w \in Workers : worker'[w] = worker[w] \/ worker'[w] = Idle
          /\ \A w \in Workers : Works(worker'[w]) => worker'[w] = worker[w]
      BY <1>b, <3>5, SubmitWorkers
    <3> QED
      BY SMT, SMTT(30), ZenonT(60), <2>1, <2>2, <3>4, <3>6, <3>7 DEF HandlerInv, Fresh, HandlerOnce, Works, Runs
  <2>3. CASE d.state = "computing" /\ UNCHANGED <<jobs, dedup, worker>>
    BY ZenonT(60), <1>1, <2>1, <2>3
  <2>4. CASE d.state = "absent" /\ dedup' = [dedup EXCEPT ![r] = Computing]
             /\ Submit([step |-> "run", payload |-> q.payload])
    <3> DEFINE job == [step |-> "run", payload |-> q.payload]
    <3>1. d \in {Absent, Computing} \cup { Done(p) : p \in Payloads }
      BY <1>b, <2>0 DEF ServerTypes
    <3>2. dedup[r] = Absent
      <4>1. d # Computing
        BY <2>4 DEF Computing
      <4>2. ASSUME NEW p \in Payloads PROVE d # Done(p)
        BY <2>4 DEF Done
      <4> HIDE DEF d
      <4>3. d = Absent
        BY <3>1, <4>1, <4>2
      <4> QED
        BY <4>3 DEF d
    <3>4. job \in Jobs /\ job.step = "run" /\ job.payload.rpc = r
      BY <2>0 DEF Jobs
    <3> HIDE DEF job, d, r
    <3>5. Submit(job)
      BY <2>4 DEF job
    <3>6. /\ Len(jobs) \in Nat
          /\ \A k \in 1 .. Len(jobs') : (k \in 1 .. Len(jobs) /\ jobs'[k] = jobs[k]) \/ (k = Len(jobs) + 1 /\ jobs'[k] = job)
      BY ZenonT(60), <1>b, <3>4, <3>5, SubmitJobs
    <3>7. /\ \A w \in Workers : worker'[w] = worker[w] \/ worker'[w] = Idle
          /\ \A w \in Workers : Works(worker'[w]) => worker'[w] = worker[w]
      BY <1>b, <3>5, SubmitWorkers
    <3>8. dedup'[r] = Computing /\ \A x \in RpcIds \ {r} : dedup'[x] = dedup[x]
      BY <1>b, <2>0, <2>4 DEF ServerTypes
    <3>9. Absent # Computing
      BY ZenonT(60), SMT, SMTT(30), RestingWorks
    <3>10. \A p \in Payloads : p.rpc = r => executed'[p] = 0
      BY <2>1, <3>2 DEF HandlerInv
    <3>11. \A x : dedup[x] = Computing => dedup'[x] = Computing /\ x # r
      BY <1>b, <2>4, <3>2, <3>9 DEF ServerTypes
    <3> DEFINE FreshNow(x) == dedup'[x] = Computing /\ \A p \in Payloads : p.rpc = x => executed'[p] = 0
    <3>12. FreshNow(r) /\ \A x : Fresh(x) => FreshNow(x) /\ x # r
      BY ZenonT(60), <2>1, <3>8, <3>10, <3>11 DEF Fresh
    <3> HIDE DEF FreshNow
    <3>13. \A k \in 1 .. Len(jobs') : jobs'[k].step # "store" /\ (Runs(jobs'[k]) => FreshNow(jobs'[k].payload.rpc))
      BY ZenonT(60), <3>4, <3>6, <3>12 DEF HandlerInv
    <3>14. \A w \in Workers : /\ Runs(worker'[w]) => FreshNow(worker'[w].payload.rpc)
                              /\ Works(worker'[w]) => dedup'[worker'[w].payload.rpc] = Computing /\ worker'[w].payload.rpc # r
      BY ZenonT(60), SMT, SMTT(30), <3>7, <3>11, <3>12 DEF HandlerInv, Runs, Works
    <3>15. \A k \in 1 .. Len(jobs) : Runs(jobs[k]) => jobs[k].payload.rpc # r
      BY ZenonT(60), <3>12 DEF HandlerInv
    <3>16. /\ \A k, l \in 1 .. Len(jobs') : Runs(jobs'[k]) /\ Runs(jobs'[l]) /\ k # l
                                            => jobs'[k].payload.rpc # jobs'[l].payload.rpc
           /\ \A k \in 1 .. Len(jobs'), w \in Workers : Runs(jobs'[k]) /\ Works(worker'[w])
                                            => jobs'[k].payload.rpc # worker'[w].payload.rpc
      <4>1. /\ \A k, l \in 1 .. Len(jobs) : Runs(jobs[k]) /\ Runs(jobs[l]) /\ k # l
                                            => jobs[k].payload.rpc # jobs[l].payload.rpc
            /\ \A k \in 1 .. Len(jobs), w \in Workers : Runs(jobs[k]) /\ Works(worker[w])
                                            => jobs[k].payload.rpc # worker[w].payload.rpc
        BY DEF HandlerInv
      <4>2. ASSUME NEW k \in 1 .. Len(jobs'), NEW l \in 1 .. Len(jobs'), Runs(jobs'[k]), Runs(jobs'[l]), k # l
            PROVE  jobs'[k].payload.rpc # jobs'[l].payload.rpc
        BY ZenonT(60), <3>4, <3>6, <3>15, <4>1, <4>2
      <4>3. ASSUME NEW k \in 1 .. Len(jobs'), NEW w \in Workers, Runs(jobs'[k]), Works(worker'[w])
            PROVE  jobs'[k].payload.rpc # worker'[w].payload.rpc
        BY ZenonT(60), <3>4, <3>6, <3>7, <3>14, <4>1, <4>3
      <4> QED
        BY ZenonT(60), <4>2, <4>3
    <3>17. \A v, w \in Workers : Works(worker'[v]) /\ Works(worker'[w]) /\ v # w
                                            => worker'[v].payload.rpc # worker'[w].payload.rpc
      BY ZenonT(60), <3>7 DEF HandlerInv
    <3>18. \A p \in Payloads : dedup'[p.rpc] = Absent => executed'[p] = 0
      BY ZenonT(60), <2>1, <3>8, <3>9 DEF HandlerInv, Payloads
    <3> QED
      BY ZenonT(60), <2>1, <3>7, <3>13, <3>14, <3>16, <3>17, <3>18 DEF HandlerInv, HandlerOnce, Fresh, FreshNow
  <2> QED
    BY <1>2, <2>2, <2>3, <2>4 DEF HandleRequest
<1>3. ASSUME NEW w \in inst.workers, WorkerStep(w) PROVE HandlerInv'
  <2>0. /\ w \in Workers /\ inst' = inst /\ UNCHANGED server
        /\ \A v \in Workers \ {w} : worker'[v] = worker[v]
    <3>1. w \in Workers
      BY <1>b, RpcConstants DEF ServerTypes
    <3>2. inst' = inst /\ UNCHANGED server /\ \E x : worker' = [worker EXCEPT ![w] = x]
      BY ZenonT(60), <1>3, <1>b, <3>1 DEF WorkerStep, TakeJob, FindNothing, Wait, Exit, WorkerFrame, RunHandler, HandlerPanics,
         StoreResponse, SendResponse, ServerTypes
    <3> QED
      BY ZenonT(60), <1>b, <3>1, <3>2 DEF ServerTypes
  <2>1. CASE TakeJob(w)
    <3>1. jobs # <<>> /\ worker'[w] = Head(jobs) /\ jobs' = Tail(jobs) /\ jobs \in Seq(Jobs) /\ UNCHANGED <<dedup, executed>>
      BY <1>b, <2>0, <2>1 DEF TakeJob, ServerTypes
    <3>2. /\ Len(jobs) \in Nat /\ Len(jobs) >= 1 /\ Len(jobs') = Len(jobs) - 1 /\ worker'[w] = jobs[1]
          /\ \A k \in 1 .. Len(jobs') : jobs'[k] = jobs[k + 1]
      BY ZenonT(60), <3>1, Dequeued
    <3>3. \A k \in 1 .. Len(jobs') : k + 1 \in 1 .. Len(jobs) /\ k + 1 # 1
      BY <3>2
    <3>4. 1 \in 1 .. Len(jobs)
      BY <3>2
    <3>5. jobs[1].step # "store" /\ (Works(worker'[w]) => Runs(jobs[1]))
      BY ZenonT(60), <3>2, <3>4 DEF HandlerInv, Works, Runs
    <3>6. Runs(jobs[1]) => Fresh(jobs[1].payload.rpc)
      BY ZenonT(60), <3>4 DEF HandlerInv
    <3> HIDE DEF HandlerOnce
    <3>7. \A v \in Workers : /\ Runs(worker'[v]) => Fresh(worker'[v].payload.rpc)
                             /\ Works(worker'[v]) => dedup[worker'[v].payload.rpc] = Computing
      BY SMT, SMTT(30), ZenonT(60), <2>0, <3>2, <3>5, <3>6 DEF HandlerInv, Fresh
    <3>8. \A k \in 1 .. Len(jobs') : jobs'[k].step # "store" /\ (Runs(jobs'[k]) => Fresh(jobs'[k].payload.rpc))
      BY ZenonT(60), <3>2, <3>3 DEF HandlerInv
    <3>9. \A k, l \in 1 .. Len(jobs') : Runs(jobs'[k]) /\ Runs(jobs'[l]) /\ k # l
                                         => jobs'[k].payload.rpc # jobs'[l].payload.rpc
      <4>1. \A k, l \in 1 .. Len(jobs) : Runs(jobs[k]) /\ Runs(jobs[l]) /\ k # l
                                         => jobs[k].payload.rpc # jobs[l].payload.rpc
        BY DEF HandlerInv
      <4>2. \A k, l \in 1 .. Len(jobs') : k # l => k + 1 # l + 1
        BY SMT, SMTT(30), <3>2
      <4> QED
        BY ZenonT(60), SMT, SMTT(30), <3>2, <3>3, <4>1, <4>2
    <3>10. \A k \in 1 .. Len(jobs'), v \in Workers : Runs(jobs'[k]) /\ Works(worker'[v])
                                         => jobs'[k].payload.rpc # worker'[v].payload.rpc
      <4>1. /\ \A k, l \in 1 .. Len(jobs) : Runs(jobs[k]) /\ Runs(jobs[l]) /\ k # l
                                         => jobs[k].payload.rpc # jobs[l].payload.rpc
            /\ \A k \in 1 .. Len(jobs), v \in Workers : Runs(jobs[k]) /\ Works(worker[v])
                                         => jobs[k].payload.rpc # worker[v].payload.rpc
        BY ZenonT(60) DEF HandlerInv
      <4>2. ASSUME NEW k \in 1 .. Len(jobs'), Runs(jobs'[k]), Works(worker'[w])
            PROVE  jobs'[k].payload.rpc # worker'[w].payload.rpc
        BY ZenonT(60), <3>2, <3>3, <3>4, <3>5, <4>1, <4>2
      <4>3. ASSUME NEW k \in 1 .. Len(jobs'), NEW v \in Workers, v # w, Runs(jobs'[k]), Works(worker'[v])
            PROVE  jobs'[k].payload.rpc # worker'[v].payload.rpc
        BY ZenonT(60), SMT, SMTT(30), <2>0, <3>2, <3>3, <4>1, <4>3
      <4> QED
        BY ZenonT(60), <4>2, <4>3
    <3>11. \A u, v \in Workers : Works(worker'[u]) /\ Works(worker'[v]) /\ u # v
                                         => worker'[u].payload.rpc # worker'[v].payload.rpc
      <4>1. /\ \A u, v \in Workers : Works(worker[u]) /\ Works(worker[v]) /\ u # v
                                         => worker[u].payload.rpc # worker[v].payload.rpc
            /\ \A k \in 1 .. Len(jobs), v \in Workers : Runs(jobs[k]) /\ Works(worker[v])
                                         => jobs[k].payload.rpc # worker[v].payload.rpc
        BY ZenonT(60) DEF HandlerInv
      <4> QED
        BY <2>0, <3>2, <3>4, <3>5, <4>1
    <3> QED
      BY ZenonT(60), SMT, SMTT(30), <2>0, <3>1, <3>7, <3>8, <3>9, <3>10, <3>11 DEF HandlerInv, HandlerOnce, Fresh
  <2>2. CASE FindNothing(w) \/ Wait(w) \/ Exit(w) \/ SendResponse(w)
    <3>1. UNCHANGED <<dedup, jobs, executed>> /\ worker'[w] \in {About, Waiting, Exited, Idle}
      BY ZenonT(60), <1>b, <2>0, <2>2 DEF FindNothing, Wait, Exit, SendResponse, WorkerFrame, ServerTypes
    <3>2. ~Works(worker'[w]) /\ ~Runs(worker'[w])
      BY ZenonT(60), SMT, SMTT(30), <3>1, RestingWorks DEF Works, Runs
    <3> QED
      BY SMT, SMTT(30), ZenonT(60), <2>0, <3>1, <3>2 DEF HandlerInv, HandlerOnce, Fresh
  <2>p. worker[w].step \in {"run", "store", "send"} =>
          worker[w] \in Jobs /\ worker[w].payload \in Payloads /\ worker[w].payload.rpc \in RpcIds
    BY SMT, SMTT(30), <1>b, <2>0 DEF ServerTypes, Jobs, Payloads, Idle, About, Waiting, Exited
  <2>3. CASE RunHandler(w) \/ HandlerPanics(w)
    <3> DEFINE p == worker[w].payload
    <3>1. /\ Runs(worker[w]) /\ Works(worker[w]) /\ UNCHANGED <<dedup, jobs>>
          /\ executed' = [executed EXCEPT ![p] = @ + 1]
          /\ worker'[w] = [worker[w] EXCEPT !.step = "store"] \/ worker'[w] = Idle
      BY ZenonT(60), <1>b, <2>0, <2>3 DEF RunHandler, HandlerPanics, InStep, Runs, Works, ServerTypes
    <3>2. p \in Payloads /\ worker[w] \in Jobs
      BY <2>p, <3>1 DEF Runs
    <3>3. Fresh(p.rpc)
      BY ZenonT(60), <2>0, <3>1 DEF HandlerInv
    <3>4. executed[p] = 0 /\ dedup[p.rpc] = Computing
      BY <3>2, <3>3 DEF Fresh
    <3>5. executed'[p] = 1 /\ \A x \in Payloads \ {p} : executed'[x] = executed[x]
      BY <1>b, <3>1, <3>2, <3>4 DEF ServerTypes
    <3>6. ~Runs(worker'[w]) /\ (Works(worker'[w]) => worker'[w].payload = p)
      BY <3>1, <3>2, RestingWorks DEF Runs, Works, Jobs, Idle
    <3> HIDE DEF p
    <3>7. \A k \in 1 .. Len(jobs) : Runs(jobs[k]) => Fresh(jobs[k].payload.rpc) /\ jobs[k].payload.rpc # p.rpc
      BY <2>0, <3>1 DEF HandlerInv, p
    <3>8. \A v \in Workers \ {w} : Works(worker[v]) => worker[v].payload.rpc # p.rpc
      BY <2>0, <3>1 DEF HandlerInv, p
    <3> DEFINE FreshNow(x) == dedup'[x] = Computing /\ \A y \in Payloads : y.rpc = x => executed'[y] = 0
    <3>9. \A x : Fresh(x) /\ x # p.rpc => FreshNow(x)
      BY ZenonT(60), <3>1, <3>5 DEF Fresh
    <3>10. \A v \in Workers : Runs(worker'[v]) => FreshNow(worker'[v].payload.rpc)
      <4>1. \A v \in Workers : Runs(worker'[v]) => v # w /\ worker'[v] = worker[v]
        BY ZenonT(60), <2>0, <3>6
      <4>2. \A v \in Workers : Runs(worker[v]) => Works(worker[v]) /\ Fresh(worker[v].payload.rpc)
        BY ZenonT(60), <2>0 DEF HandlerInv, Runs, Works
      <4> HIDE DEF FreshNow
      <4> QED BY ZenonT(60), <3>8, <3>9, <4>1, <4>2
    <3>11. \A k \in 1 .. Len(jobs') : Runs(jobs'[k]) => FreshNow(jobs'[k].payload.rpc)
      BY <3>1, <3>7, <3>9
    <3>12. \A v \in Workers : Works(worker'[v]) => Works(worker[v]) /\ worker'[v].payload = worker[v].payload
      BY ZenonT(60), SMT, SMTT(30), <2>0, <3>1, <3>6 DEF p
    <3>13. HandlerOnce'
      BY SMT, SMTT(30), <3>5 DEF HandlerInv, HandlerOnce
    <3>14. server' # "gone" => \A x \in Payloads : dedup'[x.rpc] = Absent => executed'[x] = 0
      BY ZenonT(60), <2>0, <3>1, <3>4, <3>5, RestingWorks DEF HandlerInv
    <3>15. \A v \in Workers \ inst'.workers : worker'[v] = Idle
      BY <2>0 DEF HandlerInv
    <3>16. /\ \A v \in Workers : Works(worker'[v]) => dedup'[worker'[v].payload.rpc] = Computing
           /\ \A k \in 1 .. Len(jobs'), v \in Workers : Runs(jobs'[k]) /\ Works(worker'[v])
                                         => jobs'[k].payload.rpc # worker'[v].payload.rpc
           /\ \A u, v \in Workers : Works(worker'[u]) /\ Works(worker'[v]) /\ u # v
                                         => worker'[u].payload.rpc # worker'[v].payload.rpc
      BY <3>1, <3>12 DEF HandlerInv
    <3>17. /\ \A k, l \in 1 .. Len(jobs') : Runs(jobs'[k]) /\ Runs(jobs'[l]) /\ k # l
                                         => jobs'[k].payload.rpc # jobs'[l].payload.rpc
           /\ \A k \in 1 .. Len(jobs') : jobs'[k].step # "store"
      BY <3>1 DEF HandlerInv
    <3> QED
      BY ZenonT(60), <3>10, <3>11, <3>13, <3>14, <3>15, <3>16, <3>17 DEF HandlerInv, Fresh
  <2>4. CASE StoreResponse(w)
    <3> DEFINE p == worker[w].payload
    <3>1. /\ Works(worker[w]) /\ UNCHANGED <<jobs, executed>>
          /\ dedup' = [dedup EXCEPT ![p.rpc] = Done(p)]
          /\ worker'[w] = [worker[w] EXCEPT !.step = "send"]
      BY <1>b, <2>0, <2>4 DEF StoreResponse, InStep, Works, ServerTypes
    <3>2. p.rpc \in RpcIds /\ worker[w] \in Jobs
      BY <2>p, <3>1 DEF Works
    <3>3. ~Works(worker'[w]) /\ ~Runs(worker'[w])
      BY <3>1, <3>2 DEF Works, Runs, Jobs
    <3>4. dedup'[p.rpc] # Absent /\ \A x : x # p.rpc => dedup'[x] = dedup[x]
      BY <1>b, <3>1, <3>2, RestingWorks DEF ServerTypes
    <3> HIDE DEF p
    <3>5. /\ \A k \in 1 .. Len(jobs) : Runs(jobs[k]) => jobs[k].payload.rpc # p.rpc
          /\ \A v \in Workers \ {w} : Works(worker[v]) => worker[v].payload.rpc # p.rpc
      BY <2>0, <3>1 DEF HandlerInv, p
    <3>6. \A v \in Workers : Runs(worker[v]) => Works(worker[v])
      BY ZenonT(60) DEF Runs, Works
    <3> QED
      BY <2>0, <3>1, <3>3, <3>4, <3>5, <3>6 DEF HandlerInv, HandlerOnce, Fresh
  <2> QED
    BY ZenonT(60), <1>3, <2>1, <2>2, <2>3, <2>4 DEF WorkerStep
<1>4. CASE NotifyAll
  <2>1. /\ UNCHANGED <<inst, dedup, jobs, executed>> /\ server' # "gone" /\ server # "gone"
        /\ \A w \in Workers : worker'[w] = worker[w] \/ (worker'[w] = Idle /\ ~Works(Idle))
    BY ZenonT(60), <1>4, RestingWorks DEF NotifyAll, DropFrame
  <2>2. \A w \in Workers : Works(worker'[w]) => worker'[w] = worker[w]
    BY <2>1
  <2>3. \A w \in Workers : Runs(worker'[w]) => worker'[w] = worker[w]
    BY SMTT(30), <2>1 DEF Runs, Works
  <2>4. \A w \in Workers \ inst'.workers : worker'[w] = Idle
    BY ZenonT(60), <2>1 DEF HandlerInv
  <2>5. jobs' = jobs /\ dedup' = dedup /\ executed' = executed /\ server # "gone"
    BY ZenonT(60), <2>1
  <2>6. \A w \in Workers : Runs(worker'[w]) => Fresh(worker'[w].payload.rpc)
    BY ZenonT(60), <2>3 DEF HandlerInv
  <2>7. \A w \in Workers : Works(worker'[w]) => dedup[worker'[w].payload.rpc] = Computing
    BY ZenonT(60), <2>2 DEF HandlerInv
  <2>8. \A k \in 1 .. Len(jobs), w \in Workers : Runs(jobs[k]) /\ Works(worker'[w])
                                         => jobs[k].payload.rpc # worker'[w].payload.rpc
    BY ZenonT(60), SMT, SMTT(30), <2>2 DEF HandlerInv
  <2>9. \A v, w \in Workers : Works(worker'[v]) /\ Works(worker'[w]) /\ v # w
                                         => worker'[v].payload.rpc # worker'[w].payload.rpc
    BY ZenonT(60), SMT, SMTT(30), <2>2 DEF HandlerInv
  <2>10. /\ \A k \in 1 .. Len(jobs) : jobs[k].step # "store" /\ (Runs(jobs[k]) => Fresh(jobs[k].payload.rpc))
         /\ \A k, l \in 1 .. Len(jobs) : Runs(jobs[k]) /\ Runs(jobs[l]) /\ k # l
                                         => jobs[k].payload.rpc # jobs[l].payload.rpc
         /\ (\A p \in Payloads : dedup[p.rpc] = Absent => executed[p] = 0) /\ HandlerOnce
    BY ZenonT(60), <2>5 DEF HandlerInv
  <2> QED
    BY ZenonT(60), <2>4, <2>5, <2>6, <2>7, <2>8, <2>9, <2>10 DEF HandlerInv, HandlerOnce, Fresh
<1>5. CASE Joined
  <2>1. UNCHANGED <<inst, worker, executed>> /\ server' = "gone" /\ jobs' = <<>>
    BY <1>5 DEF Joined, DropFrame
  <2>2. \A w \in Workers : worker[w] = Exited \/ worker[w] = Idle
    BY ZenonT(60), <1>5 DEF Joined, HandlerInv
  <2>3. \A w \in Workers : ~Works(worker'[w]) /\ ~Runs(worker'[w])
    BY <2>1, <2>2, RestingWorks DEF Works, Runs
  <2>4. Len(jobs') = 0 /\ \A k \in 1 .. Len(jobs') : FALSE
    BY <2>1
  <2> QED
    BY <2>1, <2>3, <2>4 DEF HandlerInv, HandlerOnce
<1>6. CASE DropServer \/ LoopEnds \/ SetPoolFlag
  BY <1>1, <1>6 DEF DropServer, LoopEnds, SetPoolFlag, DropFrame
<1>7. ASSUME UNCHANGED serverVars PROVE HandlerInv'
  BY ZenonT(60), <1>1, <1>7
<1> HIDE DEF serverVars
<1> QED
  BY <1>2, <1>3, <1>4, <1>5, <1>6, <1>7, ServerCases

LEMMA HandlerInvariant == Spec => []HandlerInv
<1>1. Init => HandlerInv
  <2> SUFFICES ASSUME Init PROVE HandlerInv
    OBVIOUS
  <2>1. /\ \A w \in Workers : worker[w] = Idle
        /\ jobs = <<>> /\ \A p \in Payloads : executed[p] = 0
    BY SMT, SMTT(30), ZenonT(60) DEF Init
  <2>2. Len(jobs) = 0 /\ \A k \in 1 .. Len(jobs) : FALSE
    BY SMTT(30), <2>1
  <2>3. \A w \in Workers : ~Works(worker[w]) /\ ~Runs(worker[w])
    BY ZenonT(60), <2>1, RestingWorks DEF Works, Runs
  <2> QED
    BY SMT, SMTT(30), ZenonT(60), <2>1, <2>2, <2>3 DEF HandlerInv, HandlerOnce
<1>2. TypeInv /\ HandlerInv /\ [Next]_vars => HandlerInv'
  BY HandlerStep
<1> QED
  BY <1>1, <1>2, TypeInvariant, PTL DEF Spec

(* However many requests a client sends for one rpc, and whatever the network
   does with them, the server runs the handler of that rpc at most once. *)
THEOREM HandlerRunsOnce == Spec => []HandlerOnce
<1>1. HandlerInv => HandlerOnce
  BY ZenonT(60) DEF HandlerInv
<1> QED
  BY <1>1, HandlerInvariant, PTL

(* A job, queued or taken, that answers the request of rpc r. *)
Behind(r) ==
  \/ \E k \in 1 .. Len(jobs) : jobs[k].step = "run" /\ jobs[k].payload.rpc = r
  \/ \E w \in Workers : worker[w].step \in {"run", "store"} /\ worker[w].payload.rpc = r
  \/ Panicked(r)

LEMMA PlaceholderStep ==
  ASSUME TypeInv, PlaceholderHasJob, [Next]_vars
  PROVE  PlaceholderHasJob'
<1> USE DEF serverVars, dropVars
<1>b. ServerTypes
  BY ZenonT(60), TypeParts
<1>0. \A r \in RpcIds : dedup[r] = Computing => Behind(r)
  BY ZenonT(60) DEF PlaceholderHasJob, Behind
<1> SUFFICES ASSUME NEW r \in RpcIds, dedup'[r] = Computing
             PROVE  Behind(r)'
  BY DEF PlaceholderHasJob, Behind
<1>1. CASE UNCHANGED <<dedup, jobs, worker, panicked>>
  BY ZenonT(60), SMT, SMTT(30), <1>0, <1>1 DEF Behind, Panicked
<1>2. ASSUME NEW q \in requests, HandleRequest(q) PROVE Behind(r)'
  <2> DEFINE d == dedup[q.payload.rpc]
  <2>0. q.payload \in Payloads /\ q.payload.rpc \in RpcIds
    BY ZenonT(60), <1>b DEF ServerTypes, Payloads
  <2>1. UNCHANGED panicked
    BY <1>2 DEF HandleRequest
  <2>2. CASE d.state = "computing" /\ UNCHANGED <<jobs, dedup, worker>>
    BY ZenonT(60), SMT, SMTT(30), <1>1, <2>1, <2>2
  <2>3. ASSUME NEW job \in Jobs, Submit(job), dedup[r] = Computing PROVE Behind(r)'
    <3>1. \A w \in Workers : Works(worker[w]) => worker'[w] = worker[w]
      BY ZenonT(60), <1>b, <2>3, SubmitWorkers
    <3>2. /\ Len(jobs) \in Nat /\ Len(jobs') = Len(jobs) + 1
          /\ \A k \in 1 .. Len(jobs) : jobs'[k] = jobs[k]
      BY ZenonT(60), <1>b, <2>3, SubmitJobs
    <3>3. Behind(r)
      BY <1>0, <2>3
    <3> QED
      BY SMT, SMTT(30), <2>1, <3>1, <3>2, <3>3 DEF Behind, Works, Panicked
  <2>4. CASE d.state = "done" /\ Submit([step |-> "send", payload |-> d.response]) /\ UNCHANGED dedup
    <3>1. d \in {Absent, Computing} \cup { Done(p) : p \in Payloads }
      BY ZenonT(60), <1>b, <2>0 DEF ServerTypes
    <3>2. PICK p \in Payloads : d = Done(p)
      BY SMT, SMTT(30), ZenonT(60), <2>4, <3>1 DEF Absent, Computing
    <3>3. [step |-> "send", payload |-> d.response] \in Jobs
      BY SMT, SMTT(30), ZenonT(60), <3>2 DEF Done, Jobs
    <3> QED
      BY ZenonT(60), <2>3, <2>4, <3>3
  <2>5. CASE d.state = "absent" /\ dedup' = [dedup EXCEPT ![q.payload.rpc] = Computing]
             /\ Submit([step |-> "run", payload |-> q.payload])
    <3> DEFINE job == [step |-> "run", payload |-> q.payload]
    <3>1. job \in Jobs /\ job.step = "run" /\ job.payload = q.payload
      BY <2>0 DEF Jobs
    <3>2. Submit(job)
      BY ZenonT(60), <2>5
    <3> HIDE DEF job
    <3>3. CASE r = q.payload.rpc
      <4>1. jobs' = Append(jobs, job) /\ jobs \in Seq(Jobs)
        BY ZenonT(60), <1>b, <3>2 DEF Submit, ServerTypes
      <4>2. Len(jobs') \in 1 .. Len(jobs') /\ jobs'[Len(jobs')] = job
        BY <3>1, <4>1, Appended
      <4> QED
        BY ZenonT(60), <3>1, <3>3, <4>2 DEF Behind
    <3>4. CASE r # q.payload.rpc
      BY ZenonT(60), <1>b, <2>3, <2>5, <3>1, <3>2, <3>4 DEF ServerTypes
    <3> QED
      BY ZenonT(60), <3>3, <3>4
  <2> QED
    BY <1>2, <2>2, <2>4, <2>5 DEF HandleRequest
<1>3. ASSUME NEW w \in inst.workers, WorkerStep(w) PROVE Behind(r)'
  <2>w. w \in Workers
    BY ZenonT(60), <1>b, RpcConstants DEF ServerTypes
  <2>p. worker[w].step \in {"run", "store", "send"} =>
          worker[w] \in Jobs /\ worker[w].payload \in Payloads /\ worker[w].payload.rpc \in RpcIds
    BY SMT, SMTT(30), ZenonT(60), <1>b, <2>w DEF ServerTypes, Jobs, Payloads, Idle, About, Waiting, Exited
  <2>0. \A v \in Workers \ {w} : worker'[v] = worker[v]
    <3>1. \E x : worker' = [worker EXCEPT ![w] = x]
      BY ZenonT(60), <1>3 DEF WorkerStep, TakeJob, FindNothing, Wait, Exit, RunHandler, HandlerPanics, StoreResponse, SendResponse
    <3> QED
      BY <1>b, <3>1 DEF ServerTypes
  <2>1. CASE TakeJob(w)
    <3>1. jobs # <<>> /\ worker'[w] = Head(jobs) /\ jobs' = Tail(jobs) /\ jobs \in Seq(Jobs) /\ UNCHANGED <<dedup, panicked>>
      BY <1>b, <2>1, <2>w DEF TakeJob, ServerTypes
    <3>2. /\ Len(jobs) \in Nat /\ Len(jobs) >= 1 /\ Len(jobs') = Len(jobs) - 1 /\ worker'[w] = jobs[1]
          /\ \A k \in 1 .. Len(jobs') : jobs'[k] = jobs[k + 1]
      BY ZenonT(60), <3>1, Dequeued
    <3>3. ~Works(worker[w])
      BY ZenonT(60), <2>1, RestingWorks DEF TakeJob
    <3>4. Behind(r)
      BY ZenonT(60), <1>0, <3>1
    <3>5. CASE \E k \in 1 .. Len(jobs) : jobs[k].step = "run" /\ jobs[k].payload.rpc = r
      <4>1. PICK k \in 1 .. Len(jobs) : jobs[k].step = "run" /\ jobs[k].payload.rpc = r
        BY ZenonT(60), <3>5
      <4>2. CASE k = 1
        BY ZenonT(60), <2>w, <3>2, <4>1, <4>2 DEF Behind
      <4>3. CASE k # 1
        <5>1. k - 1 \in 1 .. Len(jobs') /\ (k - 1) + 1 = k
          BY SMT, SMTT(30), <3>2, <4>3
        <5>2. jobs'[k - 1] = jobs[k]
          BY <3>2, <5>1
        <5> QED
          BY <4>1, <5>1, <5>2 DEF Behind
      <4> QED
        BY <4>2, <4>3
    <3>6. CASE \E v \in Workers : worker[v].step \in {"run", "store"} /\ worker[v].payload.rpc = r
      BY ZenonT(60), <2>0, <3>3, <3>6 DEF Behind, Works
    <3>7. CASE Panicked(r)
      BY <3>1, <3>7 DEF Behind, Panicked
    <3> QED
      BY ZenonT(60), <3>4, <3>5, <3>6, <3>7 DEF Behind
  <2>2. CASE FindNothing(w) \/ Wait(w) \/ Exit(w) \/ SendResponse(w)
    <3>1. UNCHANGED <<dedup, jobs, panicked>> /\ ~Works(worker[w])
      BY ZenonT(60), <2>2, RestingWorks DEF FindNothing, Wait, Exit, SendResponse, WorkerFrame, InStep, Works
    <3>2. Behind(r)
      BY <1>0, <3>1
    <3> QED
      BY ZenonT(60), <2>0, <3>1, <3>2 DEF Behind, Works, Panicked
  <2>3. CASE RunHandler(w)
    <3>1. UNCHANGED <<dedup, jobs, panicked>> /\ worker[w].step = "run" /\ worker' = [worker EXCEPT ![w].step = "store"]
      BY <2>3 DEF RunHandler, InStep
    <3>2. worker'[w].step = "store" /\ worker'[w].payload = worker[w].payload
      BY <1>b, <2>p, <2>w, <3>1 DEF ServerTypes, Jobs
    <3>3. Behind(r)
      BY ZenonT(60), <1>0, <3>1
    <3> QED
      BY <2>0, <2>w, <3>1, <3>2, <3>3 DEF Behind, Panicked
  <2>4. CASE HandlerPanics(w)
    <3>1. UNCHANGED <<dedup, jobs>> /\ panicked' = panicked \cup {worker[w].payload}
      BY ZenonT(60), <2>4 DEF HandlerPanics
    <3>2. Behind(r)
      BY ZenonT(60), <1>0, <3>1
    <3> QED
      BY ZenonT(60), <2>0, <2>w, <3>1, <3>2 DEF Behind, Panicked
  <2>5. CASE StoreResponse(w)
    <3>1. /\ UNCHANGED <<jobs, panicked>> /\ worker[w].step = "store"
          /\ dedup' = [dedup EXCEPT ![worker[w].payload.rpc] = Done(worker[w].payload)]
      BY <2>5 DEF StoreResponse, InStep
    <3>2. r # worker[w].payload.rpc
      BY <1>b, <3>1, RestingWorks DEF ServerTypes
    <3>3. Behind(r)
      BY ZenonT(60), SMT, SMTT(30), <1>0, <1>b, <3>1, <3>2 DEF ServerTypes
    <3> QED
      BY ZenonT(60), <2>0, <3>1, <3>2, <3>3 DEF Behind, Panicked
  <2> QED
    BY ZenonT(60), <1>3, <2>1, <2>2, <2>3, <2>4, <2>5 DEF WorkerStep
<1>4. CASE NotifyAll
  <2>1. /\ UNCHANGED <<dedup, jobs, panicked>>
        /\ \A w \in Workers : Works(worker[w]) => worker'[w] = worker[w]
    BY <1>4, RestingWorks DEF NotifyAll, DropFrame, Woken, Asleep
  <2>2. Behind(r)
    BY <1>0, <2>1
  <2> QED
    BY <2>1, <2>2 DEF Behind, Works, Panicked
<1>5. CASE Joined
  <2>1. dedup'[r] = Absent
    BY <1>5 DEF Joined
  <2> QED
    BY SMT, SMTT(30), ZenonT(60), <2>1, RestingWorks
<1>6. CASE DropServer \/ LoopEnds \/ SetPoolFlag
  BY <1>1, <1>6 DEF DropServer, LoopEnds, SetPoolFlag, DropFrame
<1>7. CASE UNCHANGED serverVars
  BY <1>1, <1>7
<1> HIDE DEF serverVars
<1> QED
  BY <1>2, <1>3, <1>4, <1>5, <1>6, <1>7, ServerCases

(* A request is dropped as a duplicate only while a job that will answer it is
   queued or running, or after its handler panicked. *)
THEOREM MarkHasJob == Spec => []PlaceholderHasJob
<1>1. Init => PlaceholderHasJob
  BY RestingWorks DEF Init, PlaceholderHasJob
<1>2. TypeInv /\ PlaceholderHasJob /\ [Next]_vars => PlaceholderHasJob'
  BY PlaceholderStep
<1> QED
  BY <1>1, <1>2, TypeInvariant, PTL DEF Spec

(* The dedup map, the waiter map and the dispatcher between them tell the
   truth, for every overlap of calls, retries, panics and the server's end. *)
THEOREM RpcIsSafe == Spec => []RpcSafe
<1>1. TypeOK /\ PlaceholderHasJob /\ NoStaleWaiter /\ OwnAnswer => RpcSafe
  BY DEF RpcSafe
<1>2. QED
  BY <1>1, TypeCorrect, MarkHasJob, NoWaiterLeft, CallsGetTheirAnswer, PTL

=============================================================================
