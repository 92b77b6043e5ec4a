------------------------------ MODULE JobLife -------------------------------
(***************************************************************************)
(* What the host promises of a message, without locks, tasks, calls and     *)
(* recovery: it becomes one job, which is worked off in tries. Only the     *)
(* last try can be alive. The job is over when its try is, in one step, and *)
(* stays over unless it was cancelled for a move; only whether it failed or *)
(* was cancelled may still change. A restart fails the try that ran and     *)
(* begins another. The message goes from try to try and is never lost or    *)
(* doubled.                                                                 *)
(***************************************************************************)
EXTENDS Naturals, Sequences

CONSTANTS
    Lanes,
    Nowhere    \* the lane of a job that is not stored yet

VARIABLES
    state,     \* "new", "todo", or how the job has ended
    lane,      \* the lane it is on
    tries,     \* the states of its tries, oldest first
    holders    \* the tries that hold the message

jobVars == <<state, lane, tries, holders>>

JobInit == state = "new" /\ lane = Nowhere /\ tries = <<>> /\ holders = {}

Last == Len(tries)
Now(s) == Last > 0 /\ tries[Last] = s
Alive == Now("queued") \/ Now("running") \/ Now("waiting")
Becomes(s) == [tries EXCEPT ![Last] = s]

(* A new try that takes the message along.                                   *)
TryWithMessage == tries' = Append(tries, "queued") /\ holders' = {Last + 1}

Accept ==
    /\ state = "new" /\ state' = "todo"
    /\ lane' \in Lanes
    /\ UNCHANGED <<tries, holders>>

(* The first try takes the message. If a restart cut the delivery off, the    *)
(* message is stored when a try pauses or ends.                              *)
Try ==
    /\ state = "todo" /\ ~Alive /\ holders = {}
    /\ TryWithMessage \/ (tries' = Append(tries, "running") /\ holders' = {})
    /\ UNCHANGED <<state, lane>>

Start ==
    /\ Now("queued") /\ tries' = Becomes("running")
    /\ UNCHANGED <<state, lane, holders>>

Pause ==
    /\ Now("running") /\ tries' = Becomes("waiting") /\ holders' = {Last}
    /\ UNCHANGED <<state, lane>>

Resume ==
    /\ Now("waiting") /\ tries' = Becomes("running")
    /\ UNCHANGED <<state, lane, holders>>

End(how) ==
    /\ state = "todo" /\ Alive
    /\ how = "done" => Now("running")
    /\ how = "failed" => ~Now("queued")
    /\ state' = how /\ tries' = Becomes(how)
    /\ holders' \in {holders, {Last}}
    /\ UNCHANGED lane

(* A failure and a cancel that meet may each overwrite the other, on the job, *)
(* on its last try or on both.                                               *)
Amend ==
    LET Stopped == {"failed", "cancelled"}
    IN /\ state \in Stopped /\ state' \in Stopped
       /\ \E s \in Stopped : Now(s)
       /\ tries' \in {tries} \cup {Becomes(s) : s \in Stopped}
       /\ holders' \in {holders, {Last}}
       /\ UNCHANGED lane

(* A job that has no try is cancelled.                                       *)
Drop ==
    /\ state = "todo" /\ ~Alive /\ state' = "cancelled"
    /\ UNCHANGED <<lane, tries, holders>>

(* The host has stopped over a try that ran.                                 *)
Retry ==
    /\ state = "todo" /\ Now("running")
    /\ IF holders = {}
       THEN tries' = Becomes("failed") /\ UNCHANGED holders
       ELSE tries' = Append(Becomes("failed"), "queued") /\ holders' = {Last + 1}
    /\ UNCHANGED <<state, lane>>

(* A try that waits for its turn moves along, a cancelled one is followed by  *)
(* another.                                                                  *)
Move ==
    /\ state \in {"todo", "cancelled"} /\ ~Now("running") /\ ~Now("waiting")
    /\ state' = "todo" /\ lane' \in Lanes
    /\ IF state = "todo" \/ holders = {} THEN UNCHANGED <<tries, holders>> ELSE TryWithMessage

JobNext ==
    \/ Accept \/ Try \/ Start \/ Pause \/ Resume \/ Drop \/ Retry \/ Move \/ Amend
    \/ \E how \in {"done", "failed", "cancelled"} : End(how)

JobSpec == JobInit /\ [][JobNext]_jobVars
=============================================================================
