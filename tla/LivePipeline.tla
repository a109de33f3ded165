---------------------------- MODULE LivePipeline ----------------------------
(***************************************************************************)
(* The live path and the back-fill path that feed the index (spec 4.4,    *)
(* 4.5, 5, 7).  PayloadStreamer.Stream (src/pkg/eth/streamer.go) opens a   *)
(* statediff subscription that pushes each new block's payload into a      *)
(* bounded channel; a pool of workers takes payloads from it and runs      *)
(* convert -> publish -> index.  A subscription error, or a worker's       *)
(* transient error surfaced to the subscriber, tears the subscription      *)
(* down; once the channel and the workers have drained it subscribes again *)
(* and receives new blocks only, so blocks produced meanwhile are missed   *)
(* by the live path.  The back-fill controller ticks periodically: it      *)
(* lists every block outside the validation window that the index lacks,   *)
(* then fetches and indexed those blocks one by one; a block whose fetch   *)
(* fails is left for the next tick.  A block is a block number; the index  *)
(* is the set of indexed numbers.                                          *)
(***************************************************************************)
EXTENDS Naturals, Sequences, FiniteSets, FiniteSetsExt, Functions

CONSTANTS
    Workers,        \* the worker pool (model values)
    Capacity,       \* PayloadChanBufferSize
    Window,         \* back-fill validationWindow
    MaxHead,        \* bound: the upstream chain grows to this height
    MaxErrors       \* bound: subscription and worker errors

NoBlock == 0
Blocks == 1..MaxHead

VARIABLES
    head,       \* the upstream node's head block number
    sent,       \* the last block the subscription has pushed
    sub,        \* "up" or "down"
    chan,       \* the payload channel
    held,       \* the payload each worker is converting/publishing/indexing
    indexed,    \* block numbers in the index
    bfTodo,     \* the back-fill tick's list of missing blocks still to fetch
    errors      \* subscription, Subscribe, worker and back-fill errors

vars == <<head, sent, sub, chan, held, indexed, bfTodo, errors>>

(* The upstream node mines a block.                                        *)
NewHead ==
    /\ head < MaxHead
    /\ head' = head + 1
    /\ UNCHANGED <<sent, sub, chan, held, indexed, bfTodo, errors>>

(* Mutated: the channel is unbounded; the send never blocks.   *)
DeliverUnbounded ==
    /\ sub = "up" /\ sent < head
    /\ sent' = sent + 1
    /\ chan' = Append(chan, sent + 1)
    /\ UNCHANGED <<head, sub, held, indexed, bfTodo, errors>>

(* The subscription pushes the next block; on a full channel the send     *)
(* blocks (backpressure, spec 5).                                          *)
Deliver ==
    /\ sub = "up" /\ sent < head
    /\ Len(chan) < Capacity
    /\ sent' = sent + 1
    /\ chan' = Append(chan, sent + 1)
    /\ UNCHANGED <<head, sub, held, indexed, bfTodo, errors>>

(* Transport close or protocol error on the subscription.                 *)
SubscriptionFails ==
    /\ sub = "up" /\ errors < MaxErrors
    /\ sub' = "down"
    /\ errors' = errors + 1
    /\ UNCHANGED <<head, sent, chan, held, indexed, bfTodo>>

(* Stream: after the drain, Client.Subscribe(ctx, "statediff", payloadChan,*)
(* "stream", params) again; the stream carries blocks from the head on.    *)
Stream ==
    /\ sub = "down"
    /\ chan = << >> /\ \A w \in Workers : held[w] = NoBlock
    /\ sub' = "up"
    /\ sent' = head
    /\ UNCHANGED <<head, chan, held, indexed, bfTodo, errors>>

(* Stream returns Subscribe's error (node unreachable, handshake fails):  *)
(* no subscription; the subscriber backs off and tries again.              *)
StreamFails ==
    /\ sub = "down"
    /\ chan = << >> /\ \A w \in Workers : held[w] = NoBlock
    /\ errors < MaxErrors
    /\ errors' = errors + 1
    /\ UNCHANGED <<head, sent, sub, chan, held, indexed, bfTodo>>

(* Mutated: teardown stops the workers before the drain, so a payload left *)
(* in the channel is never taken.                                          *)
TakePayloadWhileUp(w) ==
    /\ held[w] = NoBlock /\ chan # << >> /\ sub = "up"
    /\ held' = [held EXCEPT ![w] = Head(chan)]
    /\ chan' = Tail(chan)
    /\ UNCHANGED <<head, sent, sub, indexed, bfTodo, errors>>

(* A worker receives the next payload; workers keep draining the channel  *)
(* while the subscription is torn down.                                    *)
TakePayload(w) ==
    /\ held[w] = NoBlock /\ chan # << >>
    /\ held' = [held EXCEPT ![w] = Head(chan)]
    /\ chan' = Tail(chan)
    /\ UNCHANGED <<head, sent, sub, indexed, bfTodo, errors>>

(* convert -> publish -> index commits.                                    *)
IndexPayload(w) ==
    /\ held[w] # NoBlock
    /\ indexed' = indexed \cup {held[w]}
    /\ held' = [held EXCEPT ![w] = NoBlock]
    /\ UNCHANGED <<head, sent, sub, chan, bfTodo, errors>>

(* A transient blob-store or database error: the payload is not advanced, *)
(* the error reaches the subscriber, which reconnects (spec 7).            *)
IndexPayloadFails(w) ==
    /\ held[w] # NoBlock /\ errors < MaxErrors
    /\ held' = [held EXCEPT ![w] = NoBlock]
    /\ sub' = "down"
    /\ errors' = errors + 1
    /\ UNCHANGED <<head, sent, chan, indexed, bfTodo>>

LastIndexed == IF indexed = {} THEN 0 ELSE Max(indexed)

(* Mutated: only the range above the highest indexed block is back-filled; *)
(* the scan for interior gaps is missing.                                  *)
BackfillMissingAboveLast ==
    {b \in (LastIndexed + 1)..(head - Window) : b \notin indexed}

(* [last+1, head-validationWindow] and the interior gaps below last.       *)
BackfillMissing ==
    {b \in 1..(head - Window) : b \notin indexed}

(* A tick starts: the maximum block_number and the upstream head are read *)
(* and the missing numbers listed (a tick may find nothing to do).  Ticks  *)
(* run one after the other.                                                *)
BackfillStart ==
    /\ bfTodo = {}
    /\ bfTodo' = BackfillMissing
    /\ UNCHANGED <<head, sent, sub, chan, held, indexed, errors>>

(* One listed block's historical diff is fetched and run through convert  *)
(* -> publish -> index; the list is not re-read against the index.         *)
BackfillBlock(b) ==
    /\ b \in bfTodo
    /\ indexed' = indexed \cup {b}
    /\ bfTodo' = bfTodo \ {b}
    /\ UNCHANGED <<head, sent, sub, chan, held, errors>>

(* A per-block failure is logged and the block left for the next tick.     *)
BackfillBlockFails(b) ==
    /\ b \in bfTodo /\ errors < MaxErrors
    /\ bfTodo' = bfTodo \ {b}
    /\ errors' = errors + 1
    /\ UNCHANGED <<head, sent, sub, chan, held, indexed>>

BackfillStep == \E b \in bfTodo : BackfillBlock(b)

Init ==
    /\ head = 0
    /\ sent = 0
    /\ sub = "up"
    /\ chan = << >>
    /\ held = [w \in Workers |-> NoBlock]
    /\ indexed = {}
    /\ bfTodo = {}
    /\ errors = 0

WorkerStep(w) == TakePayload(w) \/ IndexPayload(w)

Next ==
    \/ NewHead \/ Deliver \/ SubscriptionFails \/ Stream \/ StreamFails
    \/ BackfillStart \/ BackfillStep \/ \E b \in bfTodo : BackfillBlockFails(b)
    \/ \E w \in Workers : WorkerStep(w) \/ IndexPayloadFails(w)

(* Every task makes progress (spec 5: every call has a deadline, the back-*)
(* fill controller ticks every `frequency` seconds); the chain itself is   *)
(* not required to grow.                                                   *)
Fairness ==
    /\ WF_vars(Deliver) /\ WF_vars(Stream)
    /\ WF_vars(BackfillStart) /\ WF_vars(BackfillStep)
    /\ \A w \in Workers : WF_vars(WorkerStep(w))

Spec == Init /\ [][Next]_vars /\ Fairness

-----------------------------------------------------------------------------
TypeOK ==
    /\ head \in 0..MaxHead /\ sent \in 0..head
    /\ sub \in {"up", "down"}
    /\ chan \in Seq(Blocks) /\ Len(chan) <= Capacity
    /\ held \in [Workers -> Blocks \cup {NoBlock}]
    /\ indexed \subseteq Blocks /\ bfTodo \subseteq Blocks
    /\ errors \in 0..MaxErrors

(* Spec 4.4: on a subscription error the subscriber tears the pool down,  *)
(* waits for in-flight payloads to drain or fail, and subscribes again.     *)
(* The drain always completes, so the live path is always restored.        *)
SubscriptionEventuallyRestored ==
    sub = "down" ~> sub = "up"

(* Blocks missed while the subscription was down, or dropped by a failing *)
(* worker, are filled in: every block that falls outside the validation    *)
(* window is eventually indexed, also when later blocks already are.       *)
GapsEventuallyFilled ==
    \A b \in Blocks : (b <= head - Window) ~> (b \in indexed)
=============================================================================
