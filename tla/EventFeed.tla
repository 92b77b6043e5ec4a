----------------------------- MODULE EventFeed -----------------------------
(***************************************************************************)
(* What the event stream promises a client, without sessions, pages, queues *)
(* and buffers: events are published in order and expire from the oldest    *)
(* on; the client joins at the head, and from there its place moves only by *)
(* being handed the events that follow, or to a place below everything      *)
(* still stored. It may be sent back there, so events come at least once.   *)
(***************************************************************************)
EXTENDS Naturals

CONSTANT MaxSeq   \* bound: events published

VARIABLES
    head, low,    \* highest event published, lowest one still stored
    joined, at,   \* the client has a place in the stream, and which
    handed        \* events it was handed

feedVars == <<head, low, joined, at, handed>>

FeedInit == head = 0 /\ low = 1 /\ ~joined /\ at = 0 /\ handed = {}

Publish == head < MaxSeq /\ head' = head + 1 /\ UNCHANGED <<low, joined, at, handed>>

Lapse == low' \in low + 1..head + 1 /\ UNCHANGED <<head, joined, at, handed>>

(* The host's head was read a moment ago.                                    *)
Join ==
    /\ ~joined /\ joined' = TRUE
    /\ at' \in 0..head
    /\ UNCHANGED <<head, low, handed>>

(* One event, or a run of them that the client had buffered.                 *)
Hand ==
    /\ joined /\ at' \in at + 1..head
    /\ handed' = handed \cup (at + 1..at')
    /\ UNCHANGED <<head, low, joined>>

Resync == joined /\ at' \in 0..low - 1 /\ UNCHANGED <<head, low, joined, handed>>

FeedNext == Publish \/ Lapse \/ Join \/ Hand \/ Resync

FeedSpec == FeedInit /\ [][FeedNext]_feedVars
=============================================================================
