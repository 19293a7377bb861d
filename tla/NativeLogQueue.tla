---------------------------- MODULE NativeLogQueue ----------------------------
(***************************************************************************)
(* The lock-free queue between native threads and the Python log consumer  *)
(* (src/_native.cpp, NativeLogQueue): any number of producers, one         *)
(* consumer, a ring of cells with a sequence number each, and a budget of  *)
(* queued bytes.                                                           *)
(*                                                                         *)
(* One step per access to a shared atomic, except that a compare-exchange  *)
(* loop on a counter nobody decides on is one step.  A producer's copy     *)
(* into its cell lasts as long as it is at "fill", the consumer's copy out *)
(* of a cell as long as it is at "copy".  Memory is sequentially           *)
(* consistent here; the code orders the copies by release stores and       *)
(* acquire loads of the cell's sequence.                                   *)
(***************************************************************************)
EXTENDS Integers, Sequences, FiniteSets

CONSTANTS
  Producers,    \* native threads that log
  Capacity,     \* cells of the ring
  MaxBytes,     \* kMaxQueuedBytes
  Sizes,        \* the record sizes a producer may offer
  MaxOffers     \* bound: records offered by each producer

(* kMinCapacity: with one cell, "published" and "free again" would be the  *)
(* same sequence number.                                                   *)
ASSUME CapacityAssumption == Capacity \in Nat /\ Capacity >= 2
ASSUME QueueAssumption ==
  MaxBytes \in Nat /\ Sizes \subseteq Nat /\ MaxOffers \in Nat

VARIABLES
  active,       \* active_
  enqueuePos,   \* enqueue_pos_
  dequeuePos,   \* dequeue_pos_
  cellSeq,      \* cells_[i].sequence
  cellRec,      \* cells_[i].record
  queuedBytes,  \* queued_bytes_
  dropped,      \* history: the records dropped_ counted
  delivered,    \* history: the records drain() returned, in order
  ignored,      \* history: the records offered after deactivate()
  pc,           \* where each producer is in enqueue()
  rec,          \* its record (a producer offers one at a time)
  pos,          \* its local pos
  consumer,     \* where the consumer is in try_dequeue()
  copied        \* its local output

queueVars == <<active, enqueuePos, dequeuePos, cellSeq, cellRec, queuedBytes,
               dropped, delivered, ignored, pc, rec, pos, consumer, copied>>

NoRecord == [from |-> 0, num |-> 0, size |-> 0]
Records  == [from : Producers, num : 1..MaxOffers, size : Sizes]
Cells    == 0..(Capacity - 1)
Cell(p)  == p % Capacity

Init ==
  /\ active = TRUE
  /\ enqueuePos = 0 /\ dequeuePos = 0
  /\ cellSeq = [i \in Cells |-> i] /\ cellRec = [i \in Cells |-> NoRecord]
  /\ queuedBytes = 0
  /\ dropped = {} /\ delivered = <<>> /\ ignored = {}
  /\ pc = [p \in Producers |-> "idle"]
  /\ rec = [p \in Producers |-> NoRecord]
  /\ pos = [p \in Producers |-> 0]
  /\ consumer = "idle" /\ copied = NoRecord

-----------------------------------------------------------------------------
(* enqueue() *)

(* active_ is read once, on entry. *)
Offer(p, size) ==
  /\ pc[p] = "idle" /\ rec[p].num < MaxOffers
  /\ LET r == [from |-> p, num |-> rec[p].num + 1, size |-> size]
     IN  /\ rec' = [rec EXCEPT ![p] = r]
         /\ IF active
            THEN pc' = [pc EXCEPT ![p] = "reserve"] /\ UNCHANGED ignored
            ELSE ignored' = ignored \cup {r} /\ UNCHANGED pc
  /\ UNCHANGED <<active, enqueuePos, dequeuePos, cellSeq, cellRec, queuedBytes,
                 dropped, delivered, pos, consumer, copied>>

Fits(size) == queuedBytes <= MaxBytes - size

ReserveBytes(p) ==
  /\ pc[p] = "reserve"
  /\ IF Fits(rec[p].size)
     THEN /\ queuedBytes' = queuedBytes + rec[p].size
          /\ pc' = [pc EXCEPT ![p] = "load"]
          /\ UNCHANGED dropped
     ELSE /\ dropped' = dropped \cup {rec[p]}
          /\ pc' = [pc EXCEPT ![p] = "idle"]
          /\ UNCHANGED queuedBytes
  /\ UNCHANGED <<active, enqueuePos, dequeuePos, cellSeq, cellRec, delivered,
                 ignored, rec, pos, consumer, copied>>

LoadPosition(p) ==
  /\ pc[p] = "load"
  /\ pos' = [pos EXCEPT ![p] = enqueuePos]
  /\ pc' = [pc EXCEPT ![p] = "look"]
  /\ UNCHANGED <<active, enqueuePos, dequeuePos, cellSeq, cellRec, queuedBytes,
                 dropped, delivered, ignored, rec, consumer, copied>>

(* The cell's sequence says whether it is free for this position (0),      *)
(* still holds a record of the previous lap (< 0: the queue is full, give  *)
(* the bytes back) or was claimed by another producer (> 0: reload).       *)
Difference(p) == cellSeq[Cell(pos[p])] - pos[p]

LookAtCell(p) ==
  /\ pc[p] = "look"
  /\ \/ /\ Difference(p) = 0
        /\ pc' = [pc EXCEPT ![p] = "claim"]
        /\ UNCHANGED <<queuedBytes, dropped>>
     \/ /\ Difference(p) < 0
        /\ queuedBytes' = queuedBytes - rec[p].size
        /\ dropped' = dropped \cup {rec[p]}
        /\ pc' = [pc EXCEPT ![p] = "idle"]
     \/ /\ Difference(p) > 0
        /\ pc' = [pc EXCEPT ![p] = "load"]
        /\ UNCHANGED <<queuedBytes, dropped>>
  /\ UNCHANGED <<active, enqueuePos, dequeuePos, cellSeq, cellRec, delivered,
                 ignored, rec, pos, consumer, copied>>

(* compare_exchange on enqueue_pos_: a failure reloads pos. *)
ClaimIsBlind(p) == TRUE                                \* mutant
ClaimSucceeds(p) == enqueuePos = pos[p]

ClaimCell(p) ==
  /\ pc[p] = "claim"
  /\ IF ClaimSucceeds(p)
     THEN /\ enqueuePos' = pos[p] + 1
          /\ pc' = [pc EXCEPT ![p] = "fill"]
          /\ UNCHANGED pos
     ELSE /\ pos' = [pos EXCEPT ![p] = enqueuePos]
          /\ pc' = [pc EXCEPT ![p] = "look"]
          /\ UNCHANGED enqueuePos
  /\ UNCHANGED <<active, dequeuePos, cellSeq, cellRec, queuedBytes, dropped,
                 delivered, ignored, rec, consumer, copied>>

(* The end of the copy into the cell: the release store publishes it. *)
PublishCell(p) ==
  /\ pc[p] = "fill"
  /\ cellRec' = [cellRec EXCEPT ![Cell(pos[p])] = rec[p]]
  /\ cellSeq' = [cellSeq EXCEPT ![Cell(pos[p])] = pos[p] + 1]
  /\ pc' = [pc EXCEPT ![p] = "idle"]
  /\ UNCHANGED <<active, enqueuePos, dequeuePos, queuedBytes, dropped,
                 delivered, ignored, rec, pos, consumer, copied>>

-----------------------------------------------------------------------------
(* try_dequeue(), called by the one consumer thread *)

(* Nobody else moves dequeue_pos_, and a published cell stays so: finding  *)
(* it and claiming it are one step.                                        *)
ReadyWhenClaimed == dequeuePos < enqueuePos            \* mutant
HeadIsReady == cellSeq[Cell(dequeuePos)] = dequeuePos + 1

TakeCell ==
  /\ consumer = "idle" /\ HeadIsReady
  /\ dequeuePos' = dequeuePos + 1
  /\ consumer' = "copy"
  /\ UNCHANGED <<active, enqueuePos, cellSeq, cellRec, queuedBytes, dropped,
                 delivered, ignored, pc, rec, pos, copied>>

(* The end of the copy out of the cell, which is then freed for the        *)
(* producer of the next lap.                                               *)
NextLap(p) == p + Capacity

FreeCell ==
  /\ consumer = "copy"
  /\ LET i == Cell(dequeuePos - 1)
     IN  /\ copied' = cellRec[i]
         /\ cellRec' = [cellRec EXCEPT ![i] = NoRecord]
         /\ cellSeq' = [cellSeq EXCEPT ![i] = NextLap(dequeuePos - 1)]
         /\ delivered' = Append(delivered, cellRec[i])
  /\ consumer' = "release"
  /\ UNCHANGED <<active, enqueuePos, dequeuePos, queuedBytes, dropped, ignored,
                 pc, rec, pos>>

ReleaseBytes ==
  /\ consumer = "release"
  /\ queuedBytes' = queuedBytes - copied.size
  /\ consumer' = "idle"
  /\ copied' = NoRecord
  /\ UNCHANGED <<active, enqueuePos, dequeuePos, cellSeq, cellRec, dropped,
                 delivered, ignored, pc, rec, pos>>

Deactivate ==
  /\ active
  /\ active' = FALSE
  /\ UNCHANGED <<enqueuePos, dequeuePos, cellSeq, cellRec, queuedBytes,
                 dropped, delivered, ignored, pc, rec, pos, consumer, copied>>

Enqueue(p) == \/ ReserveBytes(p) \/ LoadPosition(p) \/ LookAtCell(p)
              \/ ClaimCell(p) \/ PublishCell(p)

Dequeue == TakeCell \/ FreeCell \/ ReleaseBytes

Next == \/ \E p \in Producers : (\E size \in Sizes : Offer(p, size)) \/ Enqueue(p)
        \/ Dequeue \/ Deactivate

(* Native threads that are inside enqueue() keep running, and the consumer *)
(* polls for as long as it lives; nobody has to log.                       *)
Fairness == (\A p \in Producers : WF_queueVars(Enqueue(p))) /\ WF_queueVars(Dequeue)

Spec == Init /\ [][Next]_queueVars
FairSpec == Spec /\ Fairness

-----------------------------------------------------------------------------
(* Properties *)

(* Every variable has its type; positions only grow. *)
TypeOK ==
  /\ active \in BOOLEAN
  /\ enqueuePos \in Nat /\ dequeuePos \in Nat /\ queuedBytes \in Nat
  /\ cellSeq \in [Cells -> Nat] /\ cellRec \in [Cells -> Records \cup {NoRecord}]
  /\ dropped \subseteq Records /\ ignored \subseteq Records
  /\ delivered \in Seq(Records)
  /\ pc \in [Producers -> {"idle", "reserve", "load", "look", "claim", "fill"}]
  /\ rec \in [Producers -> [from : Producers \cup {0}, num : 0..MaxOffers,
                            size : Sizes \cup {0}]]
  /\ pos \in [Producers -> Nat]
  /\ consumer \in {"idle", "copy", "release"}
  /\ copied \in Records \cup {NoRecord}

(* A cell is never written by two producers at once, nor written while the *)
(* consumer copies it out: no record is ever torn, whatever the order in   *)
(* which threads are preempted between claiming a cell and publishing it.  *)
NoTornRecord ==
  \A p \in Producers : pc[p] = "fill" =>
    /\ \A q \in Producers \ {p} : pc[q] = "fill" => Cell(pos[q]) # Cell(pos[p])
    /\ consumer = "copy" => Cell(dequeuePos - 1) # Cell(pos[p])

(* The record that position q holds, published or still being copied in. *)
Claimant(q) == {p \in Producers : pc[p] = "fill" /\ pos[p] = q}
RecordAt(q) == IF Claimant(q) = {} THEN cellRec[Cell(q)]
               ELSE rec[CHOOSE p \in Claimant(q) : TRUE]

Positions == dequeuePos..(enqueuePos - 1)

Reserved ==
  {rec[p] : p \in {x \in Producers : pc[x] \in {"load", "look", "claim", "fill"}}}
    \cup {RecordAt(q) : q \in Positions}
    \cup (CASE consumer = "copy"    -> {cellRec[Cell(dequeuePos - 1)]}
            [] consumer = "release" -> {copied}
            [] OTHER                -> {})

(* The queue implements the lossy first-in first-out channel: a record is  *)
(* lost only when the cells or the bytes are exhausted at that moment,     *)
(* each one is handed over once, in the order the slots were claimed.      *)
Channel == INSTANCE LogChannel WITH
  Size      <- LAMBDA r : r.size,
  reserved  <- Reserved,
  queue     <- [k \in 1..(enqueuePos - dequeuePos) |->
                  [rec   |-> RecordAt(dequeuePos + k - 1),
                   ready |-> cellSeq[Cell(dequeuePos + k - 1)] = dequeuePos + k]],
  taking    <- consumer = "copy",
  delivered <- IF consumer = "copy"
               THEN Append(delivered, cellRec[Cell(dequeuePos - 1)]) ELSE delivered,
  dropped   <- dropped

ImplementsChannel == Channel!ChannelSpec

(* The byte counter is exactly what the records in flight weigh, so it     *)
(* never drifts (a leak would end in dropping everything) nor exceeds the  *)
(* budget.                                                                 *)
ByteBudget == queuedBytes = Channel!Bytes(Reserved) /\ queuedBytes <= MaxBytes

(* One thread's lines reach the log in the order it emitted them. *)
ProducerOrder ==
  \A i, j \in DOMAIN delivered :
    i < j /\ delivered[i].from = delivered[j].from
      => delivered[i].num < delivered[j].num

(* Lapping producers and the consumer never disturb each other: no cell is  *)
(* copied in and out at once, the byte counter says what the ring holds,    *)
(* and each thread's lines keep their order (NativeLogQueue::enqueue and    *)
(* try_dequeue).                                                            *)
RingIsSound == TypeOK /\ NoTornRecord /\ ByteBudget /\ ProducerOrder

(* A record that has its cell reaches the consumer, even from behind a     *)
(* producer that was preempted before publishing: it only has to resume.   *)
QueuedIsDelivered ==
  \A r \in Records :
    (\E q \in Positions : RecordAt(q) = r)
      ~> (\E k \in DOMAIN delivered : delivered[k] = r)
===============================================================================
