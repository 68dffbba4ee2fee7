---------------------------- MODULE HomaTxQueue ----------------------------
(***************************************************************************)
(* The transmit path of crates/homa-rpc: the 8-level priority queue shared *)
(* by the state-machine threads and the send threads                       *)
(* (transport/txqueue.rs), the send loop, and the shutdown that Drop runs  *)
(* (transport/mod.rs).  The mutex inside TxQueues and its condition        *)
(* variable are modelled; a datagram is an element of Items.               *)
(***************************************************************************)
EXTENDS Naturals, Sequences, FiniteSets, Functions

CONSTANTS
  Threads,    \* the send threads (SEND_THREADS = 2 in the code)
  ApiItems,   \* datagrams pushed by callers of send_to
  IoItems,    \* datagrams pushed by the io thread
  Control,    \* those of them that are GRANT, RESEND or BUSY
  Prio,       \* [Items -> 0 .. NumPriorities - 1], the priority byte of DATA
  NumPriorities,
  Budget      \* FLUSH_BUDGET (1024 in the code)

Items == ApiItems \cup IoItems

ASSUME TxConstants ==
  /\ Control \subseteq Items
  /\ Prio \in [Items -> 0 .. NumPriorities - 1]
  /\ NumPriorities \in Nat \ {0}
  /\ Budget \in Nat \ {0}
  /\ Threads # {} /\ "free" \notin Threads

VARIABLES
  control,   \* TxInner.control
  queues,    \* TxInner.queues
  lock,      \* who holds TxQueues.inner between two steps: a thread or "free"
  pc,        \* where each send thread is in send_loop / wait_batch
  batch,     \* what wait_batch returned to each thread and is not sent yet
  txClosed,  \* TxQueues.shutdown
  closed,    \* Inner.shutdown
  drop,      \* where the thread that drops the Transport is
  io,        \* the io thread: "running" or "exited"
  pushed,    \* history: items pushed so far
  early,     \* history: items pushed before shutdown() began
  sent,      \* history: how often each item was handed to the socket
  missed     \* history: was a thread about to wait when shutdown notified?

vars == <<control, queues, lock, pc, batch, txClosed, closed, drop, io, pushed, early, sent, missed>>
queueVars == <<control, queues>>
endVars   == <<txClosed, closed, drop, io, missed>>
history   == <<pushed, early, sent>>

Priorities == 0 .. NumPriorities - 1

Queued == Range(control) \cup UNION { Range(queues[p]) : p \in Priorities }

Init ==
  /\ control = <<>>
  /\ queues = [p \in Priorities |-> <<>>]
  /\ lock = "free"
  /\ pc = [t \in Threads |-> "enter"]
  /\ batch = [t \in Threads |-> <<>>]
  /\ txClosed = FALSE /\ closed = FALSE
  /\ drop = "alive"
  /\ io = "running"
  /\ pushed = {} /\ early = {}
  /\ sent = [i \in Items |-> 0]
  /\ missed = FALSE

(* notify_all: every suspended thread competes for the mutex again. *)
Woken == [t \in Threads |-> IF pc[t] = "waiting" THEN "enter" ELSE pc[t]]

Push_NoNotify(i) ==
  /\ i \notin pushed
  /\ i \in ApiItems => drop = "alive"
  /\ i \in IoItems => io = "running"
  /\ lock = "free"
  /\ IF i \in Control
     THEN control' = Append(control, i) /\ UNCHANGED queues
     ELSE queues' = [queues EXCEPT ![Prio[i]] = Append(@, i)] /\ UNCHANGED control
  /\ pushed' = pushed \cup {i}
  /\ early' = IF drop = "alive" THEN early \cup {i} ELSE early
  /\ UNCHANGED <<lock, pc, batch, sent>> /\ UNCHANGED endVars

(* push: enqueue under the mutex and wake the send threads.  A caller of
   send_to is done before the Transport can be dropped; the io thread pushes
   until it has seen the flag. *)
Push(i) ==
  /\ i \notin pushed
  /\ i \in ApiItems => drop = "alive"
  /\ i \in IoItems => io = "running"
  /\ lock = "free"
  /\ IF i \in Control
     THEN control' = Append(control, i) /\ UNCHANGED queues
     ELSE queues' = [queues EXCEPT ![Prio[i]] = Append(@, i)] /\ UNCHANGED control
  /\ pc' = Woken
  /\ pushed' = pushed \cup {i}
  /\ early' = IF drop = "alive" THEN early \cup {i} ELSE early
  /\ UNCHANGED <<lock, batch, sent>> /\ UNCHANGED endVars

(* Mutant: the levels are drained from the lowest priority up. *)
Level_LowestFirst(k) == NumPriorities - k

(* One pass of wait_batch: all control packets, then DATA from the highest
   priority down while the batch is below the budget. *)
Level(k) == k - 1
Fits(out, q) ==
  IF Len(out) >= Budget THEN 0 ELSE IF Len(q) < Budget - Len(out) THEN Len(q) ELSE Budget - Len(out)
Popped(d, p) ==
  LET n == Fits(d.out, d.queues[p])
  IN  [out |-> d.out \o SubSeq(d.queues[p], 1, n),
       queues |-> [d.queues EXCEPT ![p] = SubSeq(@, n + 1, Len(@))]]
Drained ==
  LET after[k \in 0 .. NumPriorities] ==
        IF k = 0 THEN [out |-> control, queues |-> queues] ELSE Popped(after[k - 1], Level(k))
  IN  after[NumPriorities]
Batch == Drained.out

(* Mutant: the control queue is read but not emptied. *)
TakeBatch_KeepsControl(t) ==
  /\ pc[t] = "enter"
  /\ lock = "free"
  /\ Batch # <<>>
  /\ batch' = [batch EXCEPT ![t] = Batch]
  /\ queues' = Drained.queues
  /\ pc' = [pc EXCEPT ![t] = "send"]
  /\ UNCHANGED <<lock, control>> /\ UNCHANGED endVars /\ UNCHANGED history

TakeBatch(t) ==
  /\ pc[t] = "enter"
  /\ lock = "free"
  /\ Batch # <<>>
  /\ batch' = [batch EXCEPT ![t] = Batch]
  /\ control' = <<>>
  /\ queues' = Drained.queues
  /\ pc' = [pc EXCEPT ![t] = "send"]
  /\ UNCHANGED lock /\ UNCHANGED endVars /\ UNCHANGED history

(* Mutant: the flag is read before the queue. *)
FindEmpty_FlagFirst(t) ==
  /\ pc[t] = "enter"
  /\ lock = "free"
  /\ Batch = <<>> \/ txClosed
  /\ lock' = t
  /\ pc' = [pc EXCEPT ![t] = IF txClosed THEN "empty" ELSE "suspend"]
  /\ UNCHANGED batch /\ UNCHANGED queueVars /\ UNCHANGED endVars /\ UNCHANGED history

(* An empty pass keeps the mutex, reads the flag, and then either returns an
   empty batch or suspends, releasing the mutex. *)
FindEmpty(t) ==
  /\ pc[t] = "enter"
  /\ lock = "free"
  /\ Batch = <<>>
  /\ lock' = t
  /\ pc' = [pc EXCEPT ![t] = IF txClosed THEN "empty" ELSE "suspend"]
  /\ UNCHANGED batch /\ UNCHANGED queueVars /\ UNCHANGED endVars /\ UNCHANGED history

Suspend(t) ==
  /\ pc[t] = "suspend"
  /\ lock' = "free"
  /\ pc' = [pc EXCEPT ![t] = "waiting"]
  /\ UNCHANGED batch /\ UNCHANGED queueVars /\ UNCHANGED endVars /\ UNCHANGED history

(* send_loop on an empty batch: leave if the transport is shut down. *)
EmptyBatch(t) ==
  /\ pc[t] = "empty"
  /\ lock' = "free"
  /\ pc' = [pc EXCEPT ![t] = IF closed THEN "exited" ELSE "enter"]
  /\ UNCHANGED batch /\ UNCHANGED queueVars /\ UNCHANGED endVars /\ UNCHANGED history

(* send_loop: one datagram of the batch to the socket, outside the mutex. *)
SendOne(t) ==
  /\ pc[t] = "send"
  /\ sent' = [sent EXCEPT ![Head(batch[t])] = @ + 1]
  /\ batch' = [batch EXCEPT ![t] = Tail(@)]
  /\ pc' = [pc EXCEPT ![t] = IF Len(batch[t]) = 1 THEN "enter" ELSE "send"]
  /\ UNCHANGED <<lock, pushed, early>> /\ UNCHANGED queueVars /\ UNCHANGED endVars

(* shutdown: Inner.shutdown, then TxQueues.shutdown, then notify_all, none of
   them under the mutex. *)
SetClosed ==
  /\ drop = "alive"
  /\ closed' = TRUE
  /\ drop' = "closed"
  /\ UNCHANGED <<lock, pc, batch, txClosed, io, missed>> /\ UNCHANGED queueVars /\ UNCHANGED history

SetTxClosed ==
  /\ drop = "closed"
  /\ txClosed' = TRUE
  /\ drop' = "txClosed"
  /\ UNCHANGED <<lock, pc, batch, closed, io, missed>> /\ UNCHANGED queueVars /\ UNCHANGED history

(* Mutant: the threads that wait are not woken. *)
NotifyAll_None ==
  /\ drop = "txClosed"
  /\ drop' = "joining"
  /\ UNCHANGED <<lock, pc, batch, txClosed, closed, io, missed>>
  /\ UNCHANGED queueVars /\ UNCHANGED history
NotifyAll ==
  /\ drop = "txClosed"
  /\ pc' = Woken
  /\ drop' = "joining"
  /\ missed' = (\E t \in Threads : pc[t] = "suspend")
  /\ UNCHANGED <<lock, batch, txClosed, closed, io>> /\ UNCHANGED queueVars /\ UNCHANGED history

(* The io thread leaves its loop when it reads the flag. *)
IoExit ==
  /\ io = "running"
  /\ closed
  /\ io' = "exited"
  /\ UNCHANGED <<lock, pc, batch, txClosed, closed, drop, missed>>
  /\ UNCHANGED queueVars /\ UNCHANGED history

(* Drop joins the io thread and then every send thread. *)
Join ==
  /\ drop = "joining"
  /\ io = "exited"
  /\ \A t \in Threads : pc[t] = "exited"
  /\ drop' = "dropped"
  /\ UNCHANGED <<lock, pc, batch, txClosed, closed, io, missed>> /\ UNCHANGED queueVars /\ UNCHANGED history

ThreadStep(t) == TakeBatch(t) \/ FindEmpty(t) \/ Suspend(t) \/ EmptyBatch(t) \/ SendOne(t)

Next ==
  \/ \E i \in Items : Push(i)
  \/ \E t \in Threads : ThreadStep(t)
  \/ SetClosed \/ SetTxClosed \/ NotifyAll \/ IoExit \/ Join

Spec == Init /\ [][Next]_vars

(* The OS schedules every thread, shutdown runs to its join once started, and
   the mutex is eventually granted to a thread that keeps asking. *)
Fairness ==
  /\ \A t \in Threads : SF_vars(ThreadStep(t))
  /\ WF_vars(SetTxClosed) /\ WF_vars(NotifyAll) /\ WF_vars(IoExit) /\ WF_vars(Join)

FairSpec == Spec /\ Fairness

-----------------------------------------------------------------------------
(* Properties. *)

(* Types; control packets and DATA never share a queue, and no datagram is
   handed to the socket twice. *)
TypeOK ==
  /\ control \in Seq(Control)
  /\ queues \in [Priorities -> Seq(Items \ Control)]
  /\ lock \in Threads \cup {"free"}
  /\ pc \in [Threads -> {"enter", "suspend", "waiting", "empty", "send", "exited"}]
  /\ batch \in [Threads -> Seq(Items)]
  /\ txClosed \in BOOLEAN /\ closed \in BOOLEAN
  /\ drop \in {"alive", "closed", "txClosed", "joining", "dropped"}
  /\ io \in {"running", "exited"}
  /\ pushed \subseteq Items /\ early \subseteq pushed
  /\ sent \in [Items -> 0 .. 1] /\ missed \in BOOLEAN

(* Two threads draining one queue neither lose nor repeat a datagram: each
   pushed item is queued, in exactly one batch, or sent, and only once, and
   control packets and DATA keep to their queues. *)
ExactlyOnePlace ==
  TypeOK /\ \A i \in Items :
    (IF i \in Queued THEN 1 ELSE 0) + sent[i]
      + Cardinality({ t \in Threads : i \in Range(batch[t]) })
    = (IF i \in pushed THEN 1 ELSE 0)

(* send_loop's promise: after shutdown it keeps flushing until the queue is
   empty, so Drop returns only when everything pushed before it was sent. *)
FlushedBeforeDropped ==
  drop = "dropped" => \A i \in early : sent[i] = 1

Rank(i) == IF i \in Control THEN 0 ELSE Prio[i] + 1

(* QoS: a batch never leaves behind a datagram that outranks one it takes. *)
HighestFirst ==
  [][ \A t \in Threads : batch[t] = <<>> /\ batch'[t] # <<>> =>
        \A taken \in Range(batch'[t]), left \in Queued \ Range(batch'[t]) :
          Rank(taken) <= Rank(left) ]_vars

(* Nothing waits in the queue for ever: no wake-up is lost between push and a
   thread that is about to suspend. *)
PushedIsSent == \A i \in Items : (i \in early) ~> (sent[i] = 1)

(* shutdown wakes the suspended threads so that they return an empty batch and
   exit, and Drop returns; unless a thread was between its test of the flag
   and its wait when both came: it misses the notification and may wait for
   ever. *)
ShutdownEnds == []<>(drop \in {"alive", "dropped"} \/ missed)

=============================================================================
