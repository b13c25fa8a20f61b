--------------------------- MODULE ShardedMatcher ---------------------------
(***************************************************************************)
(* ShardedMatcher: one client thread feeds the queues of the shards, one   *)
(* worker thread per shard runs its engine, all share the Pool.            *)
(*                                                                         *)
(* The worker of shard e is the thread e of Matching (Threads = Engines).  *)
(* A queue is the bounded FIFO that SpscRingBuffer implements.  The client *)
(* is one thread, as the queues require: it acquires and submits orders,   *)
(* cancels, waits for the shards to be idle, and destroys the matcher.     *)
(***************************************************************************)
EXTENDS Matching

CONSTANTS
  QueueBound,   \* kQueueCapacity - 1
  MaxCommands   \* bound: commands the client sends to each shard

ASSUME ShardedAssumption ==
  /\ Threads = Engines
  /\ EngineOf = [e \in Engines |-> e]
  /\ QueueBound \in Nat \ {0}
  /\ MaxCommands \in [Engines -> Nat]

VARIABLES
  cmds,        \* Shard::queue: the commands waiting
  submitted,   \* Shard::submitted
  processed,   \* Shard::processed
  stop,        \* Shard::stop
  worker,      \* the loop of run_shard each worker is in
  busy,        \* a worker has popped a command it has not counted yet
  client,      \* what the client thread is doing
  todo,        \* the shards its current call still has to deal with
  latest       \* history: the kind of the last command sent for an order id

clientVars == <<client, todo, latest>>
shardVars == <<cmds, submitted, processed, stop, worker, busy, clientVars>>
allVars == <<vars, shardVars>>

(* The orders waiting in a queue; they count as held by the client. *)
Queued == {c.order : c \in {d \in UNION {Range(cmds[e]) : e \in Engines} :
                              d.kind = "Submit"}}

ShardInit ==
  /\ Init
  /\ cmds = [e \in Engines |-> <<>>]
  /\ submitted = [e \in Engines |-> 0]
  /\ processed = [e \in Engines |-> 0]
  /\ stop = [e \in Engines |-> FALSE]
  /\ worker = [e \in Engines |-> "run"]
  /\ busy = [e \in Engines |-> FALSE]
  /\ client = "ready"
  /\ todo = {}
  /\ latest = [i \in Instruments |-> [d \in Ids |-> "none"]]

-----------------------------------------------------------------------------
(* The client is in none of its calls.  It is "idle" from the return of    *)
(* wait_idle until it sends another command.                               *)
BetweenCalls == client \in {"ready", "idle"}

(* ShardedMatcher::acquire_order, and the client fills in the order. *)
acquire_order(s, e) ==
  /\ BetweenCalls
  /\ Acquire(s, e)
  /\ UNCHANGED shardVars

(* shard_for *)
shard_for(i) == Home[i]

\* Mutant: the newest command is handled first.
SendFront(i, d, cmd) ==
  LET e == shard_for(i)
  IN /\ BetweenCalls
     /\ submitted[e] < MaxCommands[e]
     /\ Len(cmds[e]) < QueueBound
     /\ cmds' = [cmds EXCEPT ![e] = <<cmd>> \o @]
     /\ client' = "sent"
     /\ todo' = {e}
     /\ latest' = [latest EXCEPT ![i][d] = cmd.kind]
     /\ UNCHANGED <<vars, submitted, processed, stop, worker, busy>>

(* submit and cancel push a command to the shard of its instrument; a full *)
(* queue makes them return false and changes nothing.                      *)
Send(i, d, cmd) ==
  LET e == shard_for(i)
  IN /\ BetweenCalls
     /\ submitted[e] < MaxCommands[e]
     /\ Len(cmds[e]) < QueueBound
     /\ cmds' = [cmds EXCEPT ![e] = Append(@, cmd)]
     /\ client' = "sent"
     /\ todo' = {e}
     /\ latest' = [latest EXCEPT ![i][d] = cmd.kind]
     /\ UNCHANGED <<vars, submitted, processed, stop, worker, busy>>

submit(s) ==
  /\ s \in held \ Queued
  /\ Send(ord[s].instrument, ord[s].id,
          [kind |-> "Submit", instrument |-> ord[s].instrument, order |-> s])

cancel(i, d) == Send(i, d, [kind |-> "Cancel", instrument |-> i, id |-> d])

(* submitted.fetch_add comes after the push: the worker may be faster. *)
CountSubmitted ==
  /\ client = "sent"
  /\ submitted' = [e \in Engines |-> submitted[e] + IF e \in todo THEN 1 ELSE 0]
  /\ client' = "ready"
  /\ todo' = {}
  /\ UNCHANGED <<vars, cmds, processed, stop, worker, busy, latest>>

-----------------------------------------------------------------------------
(* run_shard: either loop pops a command and starts to handle it. *)
Pop(e) ==
  /\ worker[e] \in {"run", "drain"}
  /\ ~busy[e]
  /\ cmds[e] # <<>>
  /\ cmds' = [cmds EXCEPT ![e] = Tail(@)]
  /\ busy' = [busy EXCEPT ![e] = TRUE]
  /\ UNCHANGED <<submitted, processed, stop, worker, clientVars>>

PopSubmit(e) ==
  /\ Pop(e)
  /\ Head(cmds[e]).kind = "Submit"
  /\ Submit(e, Head(cmds[e]).order)

\* Mutant: a cancel that finds nothing is not taken off the queue.
PopCancelFoundOnly(e) ==
  /\ Pop(e)
  /\ LET c == Head(cmds[e])
     IN /\ c.kind = "Cancel"
        /\ Finds(e, c.instrument, c.id)
        /\ Cancel(e, c.instrument, c.id)

PopCancel(e) ==
  /\ Pop(e)
  /\ LET c == Head(cmds[e])
     IN /\ c.kind = "Cancel"
        /\ IF Finds(e, c.instrument, c.id)
           THEN Cancel(e, c.instrument, c.id)
           ELSE UNCHANGED vars

\* Mutant: the worker releases the taker whether or not it is terminal.
HandleSubmitReleases(e) ==
  /\ \/ Trade(e) \/ StopMatching(e) \/ Settle(e)
     \/ /\ pc[e] = "return"
        /\ ord' = [ord EXCEPT ![taker[e]] = None]
        /\ pc' = [pc EXCEPT ![e] = "idle"]
        /\ taker' = [taker EXCEPT ![e] = None]
        /\ trades' = [trades EXCEPT ![e] = <<>>]
        /\ UNCHANGED <<live, bookVars, held>>
  /\ UNCHANGED shardVars

(* engine->submit runs on, and the worker releases a terminal taker. *)
HandleSubmit(e) ==
  /\ Trade(e) \/ StopMatching(e) \/ Settle(e) \/ Return(e)
  /\ UNCHANGED shardVars

\* Mutant: the first loop of run_shard does not count.
CountProcessedInDrain(e) ==
  /\ busy[e]
  /\ pc[e] = "idle"
  /\ processed' = [processed EXCEPT ![e] = IF worker[e] = "drain" THEN @ + 1 ELSE @]
  /\ busy' = [busy EXCEPT ![e] = FALSE]
  /\ UNCHANGED <<vars, cmds, submitted, stop, worker, clientVars>>

(* processed.fetch_add, once the command has been handled. *)
CountProcessed(e) ==
  /\ busy[e]
  /\ pc[e] = "idle"
  /\ processed' = [processed EXCEPT ![e] = @ + 1]
  /\ busy' = [busy EXCEPT ![e] = FALSE]
  /\ UNCHANGED <<vars, cmds, submitted, stop, worker, clientVars>>

(* The first loop sees stop; the second ends when the queue is empty. *)
SeeStop(e) ==
  /\ worker[e] = "run"
  /\ ~busy[e]
  /\ stop[e]
  /\ worker' = [worker EXCEPT ![e] = "drain"]
  /\ UNCHANGED <<vars, cmds, submitted, processed, stop, busy, clientVars>>

\* Mutant: leftovers are not drained.
ExitAtOnce(e) ==
  /\ worker[e] = "drain"
  /\ ~busy[e]
  /\ worker' = [worker EXCEPT ![e] = "exit"]
  /\ UNCHANGED <<vars, cmds, submitted, processed, stop, busy, clientVars>>

Exit(e) ==
  /\ worker[e] = "drain"
  /\ ~busy[e]
  /\ cmds[e] = <<>>
  /\ worker' = [worker EXCEPT ![e] = "exit"]
  /\ UNCHANGED <<vars, cmds, submitted, processed, stop, busy, clientVars>>

-----------------------------------------------------------------------------
(* wait_idle compares the counters of one shard after the other and starts *)
(* over when a pair differs.                                               *)
WaitIdle ==
  /\ BetweenCalls
  /\ client' = "waiting"
  /\ todo' = Engines
  /\ UNCHANGED <<vars, cmds, submitted, processed, stop, worker, busy, latest>>

\* Mutant: one idle shard is enough.
CheckOneShard(e) ==
  /\ client = "waiting"
  /\ e \in todo
  /\ todo' = IF submitted[e] = processed[e] THEN {} ELSE Engines
  /\ UNCHANGED <<vars, cmds, submitted, processed, stop, worker, busy, client, latest>>

CheckShard(e) ==
  /\ client = "waiting"
  /\ e \in todo
  /\ todo' = IF submitted[e] = processed[e] THEN todo \ {e} ELSE Engines
  /\ UNCHANGED <<vars, cmds, submitted, processed, stop, worker, busy, client, latest>>

WaitReturn ==
  /\ client = "waiting"
  /\ todo = {}
  /\ client' = "idle"
  /\ UNCHANGED <<vars, cmds, submitted, processed, stop, worker, busy, todo, latest>>

(* ~ShardedMatcher sets every stop flag, then joins every worker. *)
Destroy ==
  /\ BetweenCalls
  /\ client' = "stopping"
  /\ todo' = Engines
  /\ UNCHANGED <<vars, cmds, submitted, processed, stop, worker, busy, latest>>

\* Mutant: the stop flag is not set.
StopShardForgotten(e) ==
  /\ client = "stopping"
  /\ e \in todo
  /\ todo' = todo \ {e}
  /\ UNCHANGED <<vars, cmds, submitted, processed, stop, worker, busy, client, latest>>

StopShard(e) ==
  /\ client = "stopping"
  /\ e \in todo
  /\ stop' = [stop EXCEPT ![e] = TRUE]
  /\ todo' = todo \ {e}
  /\ UNCHANGED <<vars, cmds, submitted, processed, worker, busy, client, latest>>

JoinAll ==
  /\ client = "stopping"
  /\ todo = {}
  /\ \A e \in Engines : worker[e] = "exit"
  /\ client' = "destroyed"
  /\ UNCHANGED <<vars, cmds, submitted, processed, stop, worker, busy, todo, latest>>

-----------------------------------------------------------------------------
WorkerStep(e) ==
  \/ PopSubmit(e) \/ PopCancel(e) \/ HandleSubmit(e) \/ CountProcessed(e)
  \/ SeeStop(e) \/ Exit(e)

ShardNext ==
  \/ \E s \in Slots, e \in NewOrders : acquire_order(s, e)
  \/ \E s \in Slots : submit(s)
  \/ \E e \in NewOrders : cancel(e.instrument, e.id)
  \/ CountSubmitted
  \/ \E e \in Engines :
       \/ PopSubmit(e)
       \/ PopCancel(e)
       \/ HandleSubmit(e)
       \/ CountProcessed(e)
       \/ SeeStop(e)
       \/ Exit(e)
       \/ CheckShard(e)
       \/ StopShard(e)
  \/ WaitIdle
  \/ WaitReturn
  \/ Destroy
  \/ JoinAll

ShardSpec == ShardInit /\ [][ShardNext]_allVars

(* The steps by which the client thread goes on with the call it is in. *)
ClientStep ==
  \/ CountSubmitted \/ WaitReturn \/ JoinAll
  \/ \E e \in Engines : CheckShard(e) \/ StopShard(e)

(* A thread that can run does run; the client need not make another call. *)
FairShardSpec ==
  ShardSpec /\ WF_allVars(ClientStep) /\ \A e \in Engines : WF_allVars(WorkerStep(e))

(* The counters of a shard differ by exactly the work it still has to do,  *)
(* less the command whose fetch_add the client has not reached yet: so     *)
(* processed can run one ahead of submitted.                               *)
CountersMatchWork ==
  \A e \in Engines :
    submitted[e] + (IF client = "sent" /\ e \in todo THEN 1 ELSE 0)
      = processed[e] + Len(cmds[e]) + (IF busy[e] THEN 1 ELSE 0)

(* When wait_idle returns, "all previously enqueued commands are done":    *)
(* no shard has a command waiting or in hand, although the shards were     *)
(* looked at one after the other.                                          *)
IdleMeansDone ==
  client = "idle" =>
    \A e \in Engines : cmds[e] = <<>> /\ ~busy[e] /\ pc[e] = "idle"

(* A cancel never overtakes the submit it follows: once the shards are     *)
(* idle, an id whose last command was a cancel rests in no book.           *)
CancelledIsGone ==
  client = "idle" =>
    \A i \in Instruments, d \in Ids : latest[i][d] = "Cancel" =>
      \A s \in Resting : ord[s].instrument = i => ord[s].id # d

(* The destructor leaves no command behind: the workers drain what was     *)
(* queued when stop was set.                                               *)
DestroyedIsDrained ==
  client = "destroyed" => \A e \in Engines : cmds[e] = <<>> /\ ~busy[e]

(* wait_idle returns: processed catches up with submitted on every shard   *)
(* although the shards are polled one after the other and polled again.    *)
WaitIdleReturns == (client = "waiting") ~> (client = "idle")

(* The destructor returns: every worker sees its stop flag, drains its     *)
(* queue and can be joined.                                                *)
DestructorReturns == (client = "stopping") ~> (client = "destroyed")

(* A full queue does not stay full: a submit or a cancel that returned     *)
(* false gets through when the client tries again.                         *)
FullQueueDrains ==
  \A e \in Engines : Len(cmds[e]) = QueueBound ~> Len(cmds[e]) < QueueBound

(* "Terminal takers are released automatically by the worker": once the    *)
(* shards are idle every slot is in the pool, with the client or resting.  *)
NoSlotLostWhenIdle == client = "idle" => NoSlotLost
=============================================================================
