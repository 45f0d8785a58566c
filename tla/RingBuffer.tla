------------------------------ MODULE RingBuffer ------------------------------
(***************************************************************************)
(* The ring buffer between a publisher, whose goroutine pushes packets, and *)
(* the goroutine of a reader, which pulls them: the HLS muxer, or the       *)
(* writer of an RTSP session (gortsplib/pkg/ringbuffer: ringbuffer.go,     *)
(* event.go).                                                              *)
(*                                                                         *)
(* Atomic operations and the critical sections of the event are steps.     *)
(* Indexes are unsigned words that wrap; items are numbered in the order   *)
(* in which Push takes their indexes.                                      *)
(***************************************************************************)
EXTENDS Naturals, Sequences, FiniteSets

CONSTANTS
    Size,       \* size of the buffer
    Word,       \* values of an index, 2^64 in the code
    Producers,  \* goroutines that call Push
    MaxPushes,  \* bound: calls of Push
    Nil

ASSUME RingBufferAssumption ==
    /\ Size \in Nat \ {0} /\ Word \in Nat \ {0, 1} /\ MaxPushes \in Nat
    /\ Word % Size = 0   \* ErrBufferSize: "size must be a power of two"
    /\ Nil \notin Nat

VARIABLES
    readIndex, writeIndex, closed, buffer,  \* fields of RingBuffer
    value,      \* event.value
    producer,   \* where a producer is in Push, and the item it pushes
    consumer,   \* where the goroutine that calls Pull is
    closer,     \* where the goroutine that calls Close is
    pushes,     \* items that got an index
    pulled,     \* items Pull returned
    overrun     \* a push went around the buffer, over an item not yet pulled

ringVars == <<readIndex, writeIndex, closed, buffer, value, producer, consumer, closer, pushes,
          pulled, overrun>>

RingInit ==
    /\ readIndex = 1
    /\ writeIndex = 0
    /\ closed = FALSE
    /\ buffer = [i \in 0..Size - 1 |-> Nil]
    /\ value = FALSE
    /\ producer = [p \in Producers |-> [pc |-> "idle"]]
    /\ consumer = "pull"
    /\ closer = "idle"
    /\ pushes = 0
    /\ pulled = <<>>
    /\ overrun = FALSE

\* Broadcast wakes the consumer, if it is in cond.Wait.
Woken == IF consumer = "asleep" THEN "awake" ELSE consumer

(***************************************************************************)
(* Push                                                                    *)
(***************************************************************************)

\* Mutant of PushIndex: the index before the addition is used.
PushIndexOld(p) ==
    LET index == (writeIndex + 1) % Word IN
    /\ producer[p].pc = "idle"
    /\ pushes < MaxPushes
    /\ writeIndex' = index
    /\ pushes' = pushes + 1
    /\ producer' = [producer EXCEPT ![p] = [pc |-> "store", slot |-> writeIndex % Size, item |-> pushes + 1]]
    /\ overrun' = (overrun \/ pushes + 1 > Len(pulled) + Size)
    /\ UNCHANGED <<readIndex, closed, buffer, value, consumer, closer, pulled>>

\* atomic.AddUint64(&r.writeIndex, 1)
PushIndex(p) ==
    LET index == (writeIndex + 1) % Word IN
    /\ producer[p].pc = "idle"
    /\ pushes < MaxPushes
    /\ writeIndex' = index
    /\ pushes' = pushes + 1
    /\ producer' = [producer EXCEPT ![p] = [pc |-> "store", slot |-> index % Size, item |-> pushes + 1]]
    /\ overrun' = (overrun \/ pushes + 1 > Len(pulled) + Size)
    /\ UNCHANGED <<readIndex, closed, buffer, value, consumer, closer, pulled>>

\* atomic.SwapPointer
PushStore(p) ==
    /\ producer[p].pc = "store"
    /\ buffer' = [buffer EXCEPT ![producer[p].slot] = producer[p].item]
    /\ producer' = [producer EXCEPT ![p] = [pc |-> "signal"]]
    /\ UNCHANGED <<readIndex, writeIndex, closed, value, consumer, closer, pushes, pulled, overrun>>

\* event.signal: the value under the mutex, then Broadcast
PushSignal(p) ==
    /\ producer[p].pc = "signal"
    /\ value' = TRUE
    /\ producer' = [producer EXCEPT ![p] = [pc |-> "broadcast"]]
    /\ UNCHANGED <<readIndex, writeIndex, closed, buffer, consumer, closer, pushes, pulled, overrun>>

PushBroadcast(p) ==
    /\ producer[p].pc = "broadcast"
    /\ consumer' = Woken
    /\ producer' = [producer EXCEPT ![p] = [pc |-> "idle"]]
    /\ UNCHANGED <<readIndex, writeIndex, closed, buffer, value, closer, pushes, pulled, overrun>>

(***************************************************************************)
(* Pull, called again and again until it returns false                     *)
(***************************************************************************)

\* atomic.SwapPointer with nil
PullSwap ==
    LET i == readIndex % Size IN
    /\ consumer = "pull"
    /\ IF buffer[i] = Nil THEN consumer' = "empty" /\ UNCHANGED <<readIndex, pulled>>
       ELSE /\ pulled' = Append(pulled, buffer[i])
            /\ readIndex' = (readIndex + 1) % Word
            /\ UNCHANGED consumer
    /\ buffer' = [buffer EXCEPT ![i] = Nil]
    /\ UNCHANGED <<writeIndex, closed, value, producer, closer, pushes, overrun>>

\* atomic.SwapInt64(&r.closed, 0)
PullClosed ==
    /\ consumer = "empty"
    /\ closed' = FALSE
    /\ consumer' = IF closed THEN "returned" ELSE "wait"
    /\ UNCHANGED <<readIndex, writeIndex, buffer, value, producer, closer, pushes, pulled, overrun>>

\* event.wait up to cond.Wait, which gives the mutex up
WaitBegins ==
    /\ consumer = "wait"
    /\ IF value THEN consumer' = "pull" /\ value' = FALSE
       ELSE consumer' = "asleep" /\ UNCHANGED value
    /\ UNCHANGED <<readIndex, writeIndex, closed, buffer, producer, closer, pushes, pulled, overrun>>

\* event.wait after cond.Wait
WaitEnds ==
    /\ consumer = "awake"
    /\ value' = FALSE
    /\ consumer' = "pull"
    /\ UNCHANGED <<readIndex, writeIndex, closed, buffer, producer, closer, pushes, pulled, overrun>>

(***************************************************************************)
(* Close                                                                   *)
(***************************************************************************)

CloseStore ==
    /\ closer = "idle"
    /\ closed' = TRUE
    /\ closer' = "signal"
    /\ UNCHANGED <<readIndex, writeIndex, buffer, value, producer, consumer, pushes, pulled, overrun>>

CloseSignal ==
    /\ closer = "signal"
    /\ value' = TRUE
    /\ closer' = "broadcast"
    /\ UNCHANGED <<readIndex, writeIndex, closed, buffer, producer, consumer, pushes, pulled, overrun>>

CloseBroadcast ==
    /\ closer = "broadcast"
    /\ consumer' = Woken
    /\ closer' = "done"
    /\ UNCHANGED <<readIndex, writeIndex, closed, buffer, value, producer, pushes, pulled, overrun>>

Pull == PullSwap \/ PullClosed \/ WaitBegins \/ WaitEnds
Push(p) == PushIndex(p) \/ PushStore(p) \/ PushSignal(p) \/ PushBroadcast(p)
Close == CloseStore \/ CloseSignal \/ CloseBroadcast

RingNext == Pull \/ Close \/ \E p \in Producers : Push(p)

RingSpec == RingInit /\ [][RingNext]_ringVars

(***************************************************************************)
(* Properties                                                              *)
(***************************************************************************)

\* As long as producers are at most Size items ahead, packets are written in the
\* order in which they were pushed, none lost, none twice, over the wrap of the
\* indexes too: what the comment of New says of a size that is a power of two.
InOrder == ~overrun => pulled = [k \in 1..Len(pulled) |-> k]

\* Also when the buffer was overrun no packet is written twice.
NoneTwice == \A j, k \in 1..Len(pulled) : j # k => pulled[j] # pulled[k]

\* The consumer does not sleep over an item or over Close: once the calls of Push
\* and Close are over, it sleeps only if the slot it waits for is empty.
NoLostWakeup ==
    consumer = "asleep" /\ closer \in {"idle", "done"}
        /\ (\A p \in Producers : producer[p].pc = "idle") =>
        buffer[readIndex % Size] = Nil /\ ~closed

\* The goroutines are where they wait: nobody is in the middle of Push, Pull or Close.
Waiting ==
    /\ consumer \in {"asleep", "returned"} /\ closer \in {"idle", "done"}
    /\ \A p \in Producers : producer[p].pc = "idle"

\* Where the goroutines come to rest: after Close the consumer has returned, so that
\* a session or muxer that ends does not wait for it for ever; otherwise everything
\* that was pushed was pulled, unless the buffer was overrun.
AtRest ==
    Waiting =>
        /\ closer = "done" => consumer = "returned"
        /\ ~overrun /\ consumer # "returned" => Len(pulled) = pushes

\* Packets come out in order and once, and nobody sleeps over one or over Close.
RingBufferSafe == InOrder /\ NoneTwice /\ NoLostWakeup

\* And everyone comes to rest.
RingBufferSound == RingBufferSafe /\ AtRest
===============================================================================
