----------------------------- MODULE LatencyRing -----------------------------
(***************************************************************************)
(* LATENCY_EVENTS, the BPF ring buffer the block_rq_complete program fills *)
(* and the loader drains.  A producer reserves a slot and submits it; when *)
(* the reserve fails the event is dropped and nobody is told.  Consuming   *)
(* an item frees its slot.  TEMP_FILE_EVENTS works alike.                  *)
(*                                                                         *)
(* The kernel signals the consumer only for an event submitted while the   *)
(* consumer had caught up, so `ready` (the readiness tokio's AsyncFd holds *)
(* for the map's file descriptor) is edge-triggered; `fresh` says that a   *)
(* signal arrived after the consumer last took the descriptor's guard.     *)
(***************************************************************************)
EXTENDS Naturals, Sequences

CONSTANT RingCap    \* the events the ring holds (16 KiB / 24-byte events)

ASSUME RingAssumption == RingCap \in Nat \ {0}

VARIABLES
  ring,     \* submitted events, oldest first
  ready,    \* readiness of the loader's AsyncFd
  fresh     \* a signal arrived since the guard was taken

ringVars == <<ring, ready, fresh>>

RingInit == ring = <<>> /\ ready = FALSE /\ fresh = FALSE

(* reserve succeeded: the event is submitted. *)
Submit(event) ==
  /\ Len(ring) < RingCap
  /\ ring' = Append(ring, event)
  /\ ready' = (ready \/ ring = <<>>)
  /\ fresh' = (fresh \/ ring = <<>>)

(* reserve returned None: the event is gone. *)
ReserveFails ==
  /\ Len(ring) = RingCap
  /\ UNCHANGED ringVars

(* readable_mut() resolves and yields the guard. *)
TakeGuard ==
  /\ ready
  /\ fresh' = FALSE
  /\ UNCHANGED <<ring, ready>>

(* next() yields the oldest event; dropping it frees the slot. *)
Consume ==
  /\ ring # <<>>
  /\ ring' = Tail(ring)
  /\ UNCHANGED <<ready, fresh>>

(* Mutant: clear_ready() forgets later signals too. *)
ClearReadyBlindly == ready' = FALSE /\ UNCHANGED <<ring, fresh>>

(* clear_ready() forgets the readiness the guard saw, but not a signal     *)
(* that came later.                                                        *)
ClearReady ==
  /\ ready' = fresh
  /\ UNCHANGED <<ring, fresh>>
=============================================================================
