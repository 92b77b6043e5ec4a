------------------------------ MODULE MCClients -----------------------------
(***************************************************************************)
(* What the host's clients rely on, for TLC: the event stream, streamed     *)
(* text, devices and pairing, approvals and questions, and the delivery of  *)
(* messages. The parts share no state, so one run takes them one after the  *)
(* other: `part` is chosen at the start, the variables of the other parts   *)
(* keep their first values. The modules are extended, so that the theorems   *)
(* about them speak of this run.                                             *)
(*                                                                         *)
(* CaughtUp and ImplementsFeed are EventStream's, RevokedIsCut and OwnerStays *)
(* Access's, LandsAsDecided is Decisions', AnswersCountOnce Approvals' and    *)
(* TextIsWhole Ticks'.                                                       *)
(***************************************************************************)
EXTENDS EventStream, Access, Decisions, Approvals, Ticks

CONSTANTS k1, k2      \* interchangeable: the two devices, or two sessions

VARIABLE part

-----------------------------------------------------------------------------
(* Two bots with a message each, two lanes of one and one of the other.       *)
BotOfLane == [a1 |-> "b1", a2 |-> "b1", a3 |-> "b2"]
BotOfMessage == [m1 |-> "b1", m2 |-> "b2"]

-----------------------------------------------------------------------------
ClientInit ==
    /\ part \in {"feed", "text", "door", "asking", "routes"}
    /\ Init /\ TicksInit /\ AccessInit /\ ApprovalInit /\ RouteInit
    /\ part # "routes" => \A a \in DOMAIN lane : lane[a] = "idle"

FeedPart == part = "feed" /\ Next
            /\ UNCHANGED <<part, tickVars, accessVars, approvalVars, routeVars>>
TextPart == part = "text" /\ TicksNext
            /\ UNCHANGED <<part, vars, accessVars, approvalVars, routeVars>>
DoorPart == part = "door" /\ AccessNext
            /\ UNCHANGED <<part, vars, tickVars, approvalVars, routeVars>>
AskingPart == part = "asking" /\ ApprovalNext
              /\ UNCHANGED <<part, vars, tickVars, accessVars, routeVars>>
RoutesPart == part = "routes" /\ RouteNext
              /\ UNCHANGED <<part, vars, tickVars, accessVars, approvalVars>>

ClientNext == FeedPart \/ TextPart \/ DoorPart \/ AskingPart \/ RoutesPart

ClientSpec ==
    ClientInit /\ [][ClientNext]_<<part, vars, tickVars, accessVars, approvalVars, routeVars>>

Symmetry == Permutations({k1, k2})
=============================================================================
