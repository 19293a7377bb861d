------------------------------ MODULE LogChannel ------------------------------
(***************************************************************************)
(* What the native log bridge promises (src/_native.cpp, NativeLogQueue),  *)
(* without the ring of cells: a first-in first-out channel of at most      *)
(* Capacity records and MaxBytes bytes that never blocks a producer and    *)
(* loses a record only when one of the two limits is reached.              *)
(*                                                                         *)
(* A producer first takes its slot and fills it later, so the channel's    *)
(* order is the order of the claims, and a slot that is not ready yet      *)
(* holds back the ready ones behind it.                                    *)
(***************************************************************************)
EXTENDS Integers, Sequences, FiniteSetsExt

CONSTANTS
  Records,      \* the records the producers may offer
  Capacity,     \* cells of the ring
  MaxBytes,     \* kMaxQueuedBytes
  Size(_)       \* bytes of a record

VARIABLES
  reserved,     \* records that hold a part of the byte budget
  queue,        \* claimed slots, oldest first: [rec, ready]
  taking,       \* TRUE while the consumer has not yet freed the slot it took
  delivered,    \* records handed to the consumer, in order
  dropped       \* records lost to a limit

channelVars == <<reserved, queue, taking, delivered, dropped>>

Queued       == {queue[k].rec : k \in DOMAIN queue}
Bytes(recs)  == FoldSet(LAMBDA r, sum : sum + Size(r), 0, recs)
Slots        == Len(queue) + (IF taking THEN 1 ELSE 0)
Seen         == reserved \cup dropped \cup {delivered[k] : k \in DOMAIN delivered}

ChannelInit ==
  /\ reserved = {} /\ queue = <<>> /\ taking = FALSE
  /\ delivered = <<>> /\ dropped = {}

(* A record enters when its bytes fit the budget, else it is lost. *)
Reserve(r) ==
  /\ r \notin Seen
  /\ Bytes(reserved) + Size(r) <= MaxBytes
  /\ reserved' = reserved \cup {r}
  /\ UNCHANGED <<queue, taking, delivered, dropped>>

LoseToBudget(r) ==
  /\ r \notin Seen
  /\ Bytes(reserved) + Size(r) > MaxBytes
  /\ dropped' = dropped \cup {r}
  /\ UNCHANGED <<reserved, queue, taking, delivered>>

(* It then claims a slot, unless all of them are occupied. *)
Claim(r) ==
  /\ r \in reserved \ Queued
  /\ \A k \in DOMAIN delivered : delivered[k] # r
  /\ Slots < Capacity
  /\ queue' = Append(queue, [rec |-> r, ready |-> FALSE])
  /\ UNCHANGED <<reserved, taking, delivered, dropped>>

LoseToCapacity(r) ==
  /\ r \in reserved \ Queued
  /\ \A k \in DOMAIN delivered : delivered[k] # r
  /\ Slots >= Capacity
  /\ reserved' = reserved \ {r}
  /\ dropped' = dropped \cup {r}
  /\ UNCHANGED <<queue, taking, delivered>>

Publish(k) ==
  /\ ~queue[k].ready
  /\ queue' = [queue EXCEPT ![k].ready = TRUE]
  /\ UNCHANGED <<reserved, taking, delivered, dropped>>

(* The consumer takes the oldest slot if it is ready, frees the slot, and  *)
(* only then gives the bytes back.                                         *)
Take ==
  /\ ~taking /\ queue # <<>> /\ queue[1].ready
  /\ taking' = TRUE
  /\ delivered' = Append(delivered, queue[1].rec)
  /\ queue' = Tail(queue)
  /\ UNCHANGED <<reserved, dropped>>

Free ==
  /\ taking
  /\ taking' = FALSE
  /\ UNCHANGED <<reserved, queue, delivered, dropped>>

Release(r) ==
  /\ r \in reserved /\ ~taking
  /\ \E k \in DOMAIN delivered : delivered[k] = r
  /\ reserved' = reserved \ {r}
  /\ UNCHANGED <<queue, taking, delivered, dropped>>

ChannelNext ==
  \/ \E r \in Records : \/ Reserve(r) \/ LoseToBudget(r)
                        \/ Claim(r)   \/ LoseToCapacity(r) \/ Release(r)
  \/ \E k \in DOMAIN queue : Publish(k)
  \/ Take \/ Free

ChannelSpec == ChannelInit /\ [][ChannelNext]_channelVars
===============================================================================
