---------------------------- MODULE ClientProofs ----------------------------
(***************************************************************************)
(* What a client relies on, proved. Devices, for any number of connections, *)
(* devices and tickets: a revoked one is served no more, and remote owners  *)
(* leave an owner. Approvals, for any set of calls and clients and any      *)
(* number of rounds and restarts: a turn waits for somebody, and a question *)
(* is answered once. Text, for any number of turns, deltas, requests and    *)
(* connections and any queue limit: it comes whole.                         *)
(***************************************************************************)
EXTENDS Access, Approvals, Ticks, Induction, SequenceTheorems, FiniteSetTheorems

-----------------------------------------------------------------------------
(* DEVICES. A session is open long before it is a peer. It is bound to its    *)
(* device on a look that may be stale, and then the device is looked at for   *)
(* the second time; that order is what the invariants rest on.               *)

(* A connection that was not accepted, or was forgotten, has no device.      *)
Fresh == \A s \in Sessions : aPhase[s] = "off" => device[s] = NoDevice

(* Loopback sessions never get a device.                                     *)
LocalHasNone == \A s \in Sessions \cap Local : device[s] = NoDevice

(* A session whose device was looked up is no local one, and not ready yet.  *)
AuthIsClaimed ==
    \A s \in Sessions : await[s] = "auth" => s \notin Local /\ aPhase[s] = "auth"

(* Hub.close_device finds every open session of a device.                    *)
BoundIsFound == \A s \in open : device[s] \in Devices => <<device[s], s>> \in bound

(* The UPDATE of devices.revoke only meets rows of the table.                *)
RevokedIsRow == revoked \subseteq live

CutInv == AccessTypeOK /\ Fresh /\ LocalHasNone /\ BoundIsFound /\ AuthIsClaimed /\ RevokedIsCut

OwnerInv == AccessTypeOK /\ RevokedIsRow /\ OwnerStays

-----------------------------------------------------------------------------
(* The host starts with nobody connected and no device paired.               *)
LEMMA AccessInitTypes == AccessInit => AccessTypeOK
<1> SUFFICES ASSUME AccessInit PROVE AccessTypeOK
  OBVIOUS
<1>1. localCut \in BOOLEAN
  BY Zenon DEF AccessInit
<1>2. /\ aPhase \in [Sessions -> {"off", "hello", "auth", "ready", "paired"}]
      /\ claimed \in [Sessions -> Devices \cup {NoDevice}]
      /\ device \in [Sessions -> Devices \cup {NoDevice}]
      /\ scope \in [Sessions -> Scopes]
      /\ await \in [Sessions -> {"no", "auth", "seen", "seq", "cut"}]
      /\ target \in [Sessions -> Devices \cup {NoDevice}]
      /\ devScope \in [Devices -> Scopes] /\ tkScope \in [Tickets -> Scopes]
      /\ tkFailures \in [Tickets -> Nat] /\ failures \in Nat /\ guesses \in Nat
  BY DEF AccessInit, Scopes
<1>3. /\ open \subseteq Sessions /\ refused \subseteq Sessions /\ peers \subseteq Sessions
      /\ bound \subseteq Devices \X Sessions /\ live \subseteq Devices
      /\ revoked \subseteq Devices /\ tkOpen \subseteq Tickets
  BY DEF AccessInit
<1>4. \A s \in Sessions : await[s] = "no"
  BY DEF AccessInit
<1> QED
  BY <1>1, <1>2, <1>3, <1>4 DEF AccessTypeOK

(* The state keeps its types: every handler writes values of the tables and  *)
(* of _Phase only.                                                           *)
LEMMA AccessTypes == AccessTypeOK /\ [AccessNext]_accessVars => AccessTypeOK'
<1> SUFFICES ASSUME AccessTypeOK, [AccessNext]_accessVars PROVE AccessTypeOK'
  OBVIOUS
<1> USE DEF AccessTypeOK, Set, Scopes, sessionVars, devices, tickets
<1>1. ASSUME NEW s \in Sessions, SessionStep(s) PROVE AccessTypeOK'
  <2>1. CASE AcceptConnection(s)  BY <2>1 DEF AcceptConnection
  <2>2. CASE Close(s)             BY <2>2 DEF Close, Shut
  <2>3. CASE Forget(s)            BY <2>3 DEF Forget
  <2>4. CASE HelloLocal(s)        BY <2>4 DEF HelloLocal
  <2>5. CASE Token(s)             BY <2>5 DEF Token
  <2>6. ASSUME NEW d \in Devices, NEW served \in BOOLEAN, Challenge(s, d, served)
        PROVE  AccessTypeOK'
    BY <2>6 DEF Challenge
  <2>7. CASE DeviceAuth(s)        BY <2>7 DEF DeviceAuth
  <2>8. CASE Seen(s)              BY <2>8 DEF Seen, Shut
  <2>15. CASE BindDevice(s)       BY <2>15 DEF BindDevice
  <2>9. CASE AttachSession(s)     BY <2>9 DEF AttachSession
  <2>10. CASE CloseDevice(s)      BY <2>10 DEF CloseDevice
  <2>11. CASE WrongCode(s)        BY <2>11 DEF WrongCode, Shut
  <2>12. ASSUME NEW d \in Devices, Revoke(s, d) PROVE AccessTypeOK'
    BY <2>12 DEF Revoke
  <2>13. ASSUME NEW t \in Tickets, NEW sc \in Scopes, StartPairing(s, t, sc)
         PROVE  AccessTypeOK'
    BY <2>13 DEF StartPairing
  <2>14. ASSUME NEW t \in Tickets, NEW d \in Devices, NEW byCode \in BOOLEAN,
                Complete(s, t, d, byCode)
         PROVE  AccessTypeOK'
    BY <2>14 DEF Complete
  <2> QED
    BY <1>1, <2>1, <2>2, <2>3, <2>4, <2>5, <2>6, <2>7, <2>8, <2>9, <2>10, <2>11, <2>12,
       <2>13, <2>14, <2>15 DEF SessionStep
<1>2. ASSUME NEW t \in Tickets, Expire(t) PROVE AccessTypeOK'
  BY <1>2 DEF Expire
<1>3. CASE HourPasses
  BY <1>3 DEF HourPasses
<1>4. CASE UNCHANGED accessVars
  BY <1>4 DEF accessVars
<1> QED
  BY <1>1, <1>2, <1>3, <1>4 DEF AccessNext

-----------------------------------------------------------------------------
(* Each handler keeps the invariant behind RevokedIsCut. The hard cases are   *)
(* Seen, where a session gets ready, Revoke, which makes a device revoked     *)
(* while its sessions are ready, and CloseDevice, which ends the excuse.     *)
LEMMA CutStep == CutInv /\ [AccessNext]_accessVars => CutInv'
<1> SUFFICES ASSUME CutInv, [AccessNext]_accessVars PROVE CutInv'
  OBVIOUS
<1>0. AccessTypeOK'
  BY AccessTypes DEF CutInv
<1> DEFINE Part == Fresh /\ LocalHasNone /\ BoundIsFound /\ AuthIsClaimed /\ RevokedIsCut
<1> SUFFICES Part'
  BY <1>0 DEF CutInv
<1> USE NoDeviceAssumption
       DEF CutInv, AccessTypeOK, Fresh, LocalHasNone, BoundIsFound, AuthIsClaimed, RevokedIsCut, Set, Idle,
           sessionVars, devices, tickets
<1>1. ASSUME NEW s \in Sessions, SessionStep(s) PROVE Part'
  <2>1. CASE AcceptConnection(s)  BY <2>1 DEF AcceptConnection
  <2>2. CASE Close(s)             BY <2>2 DEF Close, Shut
  <2>3. CASE Forget(s)            BY <2>3 DEF Forget
  <2>4. CASE HelloLocal(s)        BY <2>4 DEF HelloLocal
  <2>5. CASE Token(s)             BY <2>5 DEF Token
  <2>6. ASSUME NEW d \in Devices, NEW served \in BOOLEAN, Challenge(s, d, served)
        PROVE  Part'
    BY <2>6 DEF Challenge
  <2>7. CASE DeviceAuth(s)        BY <2>7 DEF DeviceAuth
  <2>8. CASE Seen(s)              BY <2>8 DEF Seen, Shut
  <2>15. CASE BindDevice(s)       BY <2>15 DEF BindDevice
  <2>9. CASE AttachSession(s)     BY <2>9 DEF AttachSession
  <2>10. CASE CloseDevice(s)      BY <2>10 DEF CloseDevice
  <2>11. CASE WrongCode(s)        BY <2>11 DEF WrongCode, Shut
  <2>12. ASSUME NEW d \in Devices, Revoke(s, d) PROVE Part'
    BY <2>12 DEF Revoke, Owner
  <2>13. ASSUME NEW t \in Tickets, NEW sc \in Scopes, StartPairing(s, t, sc)
         PROVE  Part'
    BY <2>13 DEF StartPairing
  <2>14. ASSUME NEW t \in Tickets, NEW d \in Devices, NEW byCode \in BOOLEAN,
                Complete(s, t, d, byCode)
         PROVE  Part'
    BY <2>14 DEF Complete
  <2> QED
    BY <1>1, <2>1, <2>2, <2>3, <2>4, <2>5, <2>6, <2>7, <2>8, <2>9, <2>10, <2>11, <2>12,
       <2>13, <2>14, <2>15 DEF SessionStep
<1>2. ASSUME NEW t \in Tickets, Expire(t) PROVE Part'
  BY <1>2 DEF Expire
<1>3. CASE HourPasses
  BY <1>3 DEF HourPasses
<1>4. CASE UNCHANGED accessVars
  BY <1>4 DEF accessVars
<1> QED
  BY <1>1, <1>2, <1>3, <1>4 DEF AccessNext

(* Once devices.revoke has answered, no open session of the device is ready,  *)
(* whatever the session was awaiting when the revoke committed.              *)
THEOREM RevokeCutsSessions == AccessSpec => []RevokedIsCut
<1>1. AccessInit => CutInv
  BY AccessInitTypes DEF AccessInit, CutInv, Fresh, LocalHasNone, BoundIsFound, AuthIsClaimed, RevokedIsCut
<1>2. CutInv => RevokedIsCut
  BY DEF CutInv
<1> QED
  BY <1>1, <1>2, CutStep, PTL DEF AccessSpec

-----------------------------------------------------------------------------
(* Only Revoke and Complete touch the devices table: the first leaves another *)
(* live owner unless it came from loopback, the second adds a row.           *)
LEMMA OwnerStep == OwnerInv /\ [AccessNext]_accessVars => OwnerInv'
<1> SUFFICES ASSUME OwnerInv, [AccessNext]_accessVars PROVE OwnerInv'
  OBVIOUS
<1>0. AccessTypeOK'
  BY AccessTypes DEF OwnerInv
<1> DEFINE Part == RevokedIsRow /\ OwnerStays
<1> SUFFICES Part'
  BY <1>0 DEF OwnerInv
<1> USE DEF OwnerInv, AccessTypeOK, RevokedIsRow, OwnerStays
<1>1. ASSUME NEW s \in Sessions, NEW d \in Devices, Revoke(s, d) PROVE Part'
  BY <1>1 DEF Revoke, MayRevoke
<1>2. ASSUME NEW s \in Sessions, NEW t \in Tickets, NEW d \in Devices,
             NEW byCode \in BOOLEAN, Complete(s, t, d, byCode)
      PROVE  Part'
  BY <1>2 DEF Complete, Set
<1>3. ASSUME UNCHANGED <<devices, localCut>> PROVE Part'
  BY <1>3 DEF devices
<1>4. \/ UNCHANGED <<devices, localCut>>
      \/ \E s \in Sessions, d \in Devices : Revoke(s, d)
      \/ \E s \in Sessions, t \in Tickets, d \in Devices, byCode \in BOOLEAN :
            Complete(s, t, d, byCode)
  BY ZenonT(60) DEF AccessNext, SessionStep, AcceptConnection, Close, Forget, HelloLocal, Token,
         Challenge, DeviceAuth, Seen, AttachSession, CloseDevice, WrongCode, StartPairing,
         BindDevice, Expire, HourPasses, accessVars
<1> QED
  BY <1>1, <1>2, <1>3, <1>4

(* However remote owners revoke each other and themselves, one live owner     *)
(* device remains, as long as no loopback session has revoked one.           *)
THEOREM LastOwnerStays == AccessSpec => []OwnerStays
<1>1. AccessInit => OwnerInv
  BY AccessInitTypes DEF AccessInit, OwnerInv, RevokedIsRow, OwnerStays
<1>2. OwnerInv => OwnerStays
  BY DEF OwnerInv
<1> QED
  BY <1>1, <1>2, OwnerStep, PTL DEF AccessSpec

-----------------------------------------------------------------------------
(* APPROVALS AND QUESTIONS. The claim on a question is held by one client at  *)
(* a time, from the claim to the queued answer; an open card keeps the job    *)
(* waiting, and a decided one has its resume on the way.                     *)

(* A client that holds a claim on the question: it answered it and has not    *)
(* queued its answer yet, or it has.                                         *)
Claims(c) == \/ c \in answerJobs
             \/ aim[c] = Q /\ aPc[c] \in {"chat", "check", "decide", "queue"}

ClaimInv ==
    /\ \A c, d \in Clients : Claims(c) /\ Claims(d) => c = d
    /\ \A c \in Clients : Claims(c) => pend[Q] \notin {"none", "waiting"}
    /\ pend[Q] = "none" <=> aAsked = "no"

(* What a call is about was open when it began.                              *)
AimInv ==
    \A c \in Clients :
        /\ aPc[c] \in {"approve", "deny"} => aim[c] \in Ids /\ pend[aim[c]] # "none"
        /\ aPc[c] \in {"text", "chat", "queue"} => aim[c] = Q /\ pend[Q] # "none"

(* The rows: only calls of the stored response are open, later responses have *)
(* no rows yet, and what a resume names has been decided.                    *)
AskedRows ==
    /\ \A i \in Ids : pend[i] = "waiting" => i \in Current
    /\ aTurn \notin {"failed", "cancelled"} => \A i \in Ids : i[1] > aRound => pend[i] = "none"
    /\ \A w \in Tasks : \A d \in decided[w] : d[1] \in Ids /\ pend[d[1]] \notin {"none", "waiting"}
    /\ aLane = "first" => aRound = 0
    /\ aTurn \in {"failed", "cancelled"} => aLane = "free"

(* A turn that waits for nothing any more has decisions to go on with.        *)
HasDecisions == ~aRaced => (aTurn = "waiting" /\ ~HasWaiting => Saved # {})

(* Until a question is asked the job is started as long as its turn is open.  *)
JobOpen ==
    aAsked = "no" =>
        /\ aTurn \in {"running", "waiting"} => aJob = "started"
        /\ aLane # "free" => aTurn = "running"

(* While the end of a drive is stored, nothing but the question is open; what *)
(* it found open still is, unless somebody answered it.                      *)
EndInv ==
    /\ aEnds # "no" =>
         /\ aLane # "free" /\ \A i \in Ids : pend[i] # "waiting"
         /\ aWaits => aRound + 1 \in Rounds
         /\ aWants # {} => aWaits
         /\ aWaits /\ aWants = {} /\ ~aRaced => pend[Q] = "waiting" /\ Holds(Q)
    /\ aEnds = "write" => /\ aSaw = "done" => aTurn = "done"
                          /\ aAsked = "no" => aSaw = "running"
    /\ aRaced => aAsked # "no"

(* Whoever gave the last answer is on the way to the resume.                  *)
ResumeComes ==
    (aStops = 0 /\ ~aRaced) \/ aAsked = "no" =>
        (aTurn = "waiting" /\ aLane = "free" /\ ~HasWaiting =>
            resumes # {} \/ \E c \in Clients : aPc[c] \in {"check", "chat", "decide"})

AnswerInv ==
    /\ ApprovalTypeOK /\ ClaimInv /\ AimInv /\ AskedRows /\ HasDecisions /\ JobOpen
    /\ EndInv /\ ResumeComes

LEMMA QuestionApart == Q \notin Ids
BY DEF Q, Ids, Rounds

LEMMA RacesBool == Races => aRaced' \in BOOLEAN
<1> DEFINE b == aRaced \/ (aEnds # "no" /\ aWaits /\ aWants = {})
<1>1. b \in BOOLEAN
  OBVIOUS
<1>2. Races => aRaced' = b
  BY DEF Races
<1> QED BY <1>1, <1>2

LEMMA ApprovalTypes ==
    ApprovalTypeOK /\ EndInv /\ [ApprovalNext]_approvalVars => ApprovalTypeOK'
<1> SUFFICES ASSUME ApprovalTypeOK, EndInv, [ApprovalNext]_approvalVars PROVE ApprovalTypeOK'
  OBVIOUS
<1> USE ApprovalsAssumption, QuestionApart DEF ApprovalTypeOK, Tasks, Statuses, endVars, NoEnd
<1>s. Saved \in SUBSET (Ids \X BOOLEAN)
  <2>1. Current \subseteq Ids
    BY DEF Current, Ids, Rounds
  <2>2. ASSUME NEW i \in Ids PROVE <<i, pend[i] = "approve">> \in Ids \X BOOLEAN
    <3> DEFINE says == pend[i] = "approve"
    <3>1. says \in BOOLEAN
      OBVIOUS
    <3> HIDE DEF says
    <3>2. <<i, says>> \in Ids \X BOOLEAN
      BY <3>1
    <3> QED BY <3>2 DEF says
  <2>3. ASSUME NEW x \in Saved PROVE x \in Ids \X BOOLEAN
    <3>1. PICK i \in Current : x = <<i, pend[i] = "approve">>
      BY <2>3, Zenon DEF Saved
    <3> QED BY <2>1, <2>2, <3>1, Zenon
  <2> QED BY <2>3, Zenon
<1>e. Expired \in [Ids \cup {Q} -> {"none", "waiting", "approve", "deny", "text", "failed"}]
  BY DEF Expired
<1>1. ASSUME NEW how \in Asks, AskUser(how) PROVE ApprovalTypeOK'
  BY <1>1 DEF AskUser
<1>2. ASSUME NEW A \in SUBSET Calls, DriveEnds(A) PROVE ApprovalTypeOK'
  <2> DEFINE waits == A # {} \/ HasWaiting
  <2>1. waits \in BOOLEAN /\ aWaits' = waits
    BY <1>2 DEF DriveEnds
  <2> HIDE DEF waits
  <2> QED BY <1>2, <2>1 DEF DriveEnds
<1>8. CASE PersistReads
  BY <1>8 DEF PersistReads
<1>9. CASE PersistWrites
  <2>1. CASE ~aWaits
    BY <1>9, <2>1 DEF PersistWrites
  <2>2. CASE aWaits
    <3>1. /\ aCalls' = [aCalls EXCEPT ![aRound + 1] = aWants] /\ aRound + 1 \in Rounds
          /\ pend' = [i \in DOMAIN pend |->
                        IF i \in {aRound + 1} \X aWants THEN "waiting" ELSE pend[i]]
          /\ aRound' = aRound + 1 /\ aJob' = aJob
      BY <1>9, <2>2 DEF PersistWrites, EndInv
    <3>2. aCalls' \in [Rounds -> SUBSET Calls] /\ aRound' \in 0..MaxRounds
      BY <3>1 DEF Rounds
    <3>3. pend' \in [Ids \cup {Q} -> {"none", "waiting", "approve", "deny", "text", "failed"}]
      BY <3>1
    <3>4. aTurn' \in Statuses
      BY <1>9 DEF PersistWrites
    <3> QED BY <1>9, <3>1, <3>2, <3>3, <3>4 DEF PersistWrites
  <2> QED BY <2>1, <2>2
<1>3. CASE DriveFails
  <2>1. /\ aTurn' \in Statuses /\ aRound' \in 0..MaxRounds
        /\ aJob' \in {"started", "queued", "done", "failed", "cancelled"}
    BY <1>3 DEF DriveFails
  <2>2. pend' = pend \/ pend' = Expired
    BY <1>3 DEF DriveFails
  <2>3. /\ aLane' = "free" /\ NoEnd
        /\ UNCHANGED <<aCalls, aAsked, aRaced, decided, resumes, aPc, aim, answerJobs, aStops>>
    BY <1>3 DEF DriveFails
  <2> QED BY <1>e, <2>1, <2>2, <2>3
<1>4. CASE Stop
  <2>1. /\ aTurn' \in Statuses /\ aStops' \in Nat
        /\ aJob' \in {"started", "queued", "done", "failed", "cancelled"}
    BY <1>4 DEF Stop
  <2>2. /\ resumes' \subseteq Tasks /\ decided' \in [Tasks -> SUBSET (Ids \X BOOLEAN)]
        /\ \A c \in Clients : aPc'[c] \in {aPc[c], "end"}
        /\ DOMAIN aPc' = Clients
        /\ aPc' = [c \in Clients |-> IF aPc[c] = "off" THEN "off" ELSE "end"]
    BY <1>4, <1>s DEF Stop
  <2>3. /\ aLane' = "free" /\ NoEnd
        /\ UNCHANGED <<aRound, aCalls, pend, aAsked, aRaced, aim, answerJobs>>
    BY <1>4 DEF Stop
  <2> QED BY <2>1, <2>2, <2>3
<1>5. ASSUME NEW w \in Tasks, Resume(w) PROVE ApprovalTypeOK'
  BY <1>5 DEF Resume
<1>6. ASSUME NEW c \in Clients, ClientStep(c) PROVE ApprovalTypeOK'
  <2> USE DEF Turnwise, endVars, Goes
  <2>1. CASE Resolve(c)       BY <2>1 DEF Resolve
  <2>2. CASE Claim(c)
    <3>1. aRaced' \in BOOLEAN
      BY <2>2, RacesBool DEF Claim
    <3> QED BY <2>2, <3>1 DEF Claim, CloseTurn
  <2>3. CASE Check(c)         BY <2>3 DEF Check
  <2>4. CASE Decide(c)        BY <2>4, <1>s DEF Decide
  <2>5. CASE QueueAnswer(c)   BY <2>5 DEF QueueAnswer
  <2>6. CASE Chat(c)
    <3>1. aRaced' \in BOOLEAN
      BY <2>6, RacesBool DEF Chat
    <3> QED BY <2>6, <3>1 DEF Chat, CloseTurn
  <2>7. CASE Cancel(c)        BY <2>7, <1>e DEF Cancel
  <2>8. ASSUME NEW i \in Ids \cup {Q}, NEW how \in {"approve", "deny", "text"},
               OpenCard(c, i, how)
        PROVE  ApprovalTypeOK'
    BY <2>8 DEF OpenCard
  <2>9. CASE \E i \in Ids \cup {Q}, how \in {"approve", "deny", "text"} : OpenCard(c, i, how)
    <3>1. PICK i \in Ids \cup {Q}, how \in {"approve", "deny", "text"} : OpenCard(c, i, how)
      BY <2>9
    <3> HIDE DEF ApprovalTypeOK
    <3> QED BY <2>8, <3>1
  <2>10. \/ Resolve(c) \/ Claim(c) \/ Check(c) \/ Decide(c) \/ QueueAnswer(c)
         \/ Chat(c) \/ Cancel(c)
         \/ \E i \in Ids \cup {Q}, how \in {"approve", "deny", "text"} : OpenCard(c, i, how)
    BY <1>6 DEF ClientStep
  <2> QED BY <2>1, <2>2, <2>3, <2>4, <2>5, <2>6, <2>7, <2>9, <2>10
<1>7. CASE UNCHANGED approvalVars
  BY <1>7 DEF approvalVars, endVars
<1> QED
  BY <1>1, <1>2, <1>3, <1>4, <1>5, <1>6, <1>7, <1>8, <1>9 DEF ApprovalNext

(* One of the clients that answer a question wins its card.                  *)
LEMMA ClaimStep ==
    ApprovalTypeOK /\ ClaimInv /\ AimInv /\ [ApprovalNext]_approvalVars => ClaimInv' /\ AimInv'
<1> SUFFICES ASSUME ApprovalTypeOK, ClaimInv, AimInv, [ApprovalNext]_approvalVars
             PROVE  ClaimInv' /\ AimInv'
  OBVIOUS
<1> USE ApprovalsAssumption, QuestionApart DEF ApprovalTypeOK, ClaimInv, AimInv, Claims
<1>1. ASSUME NEW how \in Asks, AskUser(how) PROVE ClaimInv' /\ AimInv'
  BY <1>1 DEF AskUser
<1>2. ASSUME NEW A \in SUBSET Calls, DriveEnds(A) PROVE ClaimInv' /\ AimInv'
  BY <1>2 DEF DriveEnds
<1>8. CASE PersistReads
  BY <1>8 DEF PersistReads
<1>9. CASE PersistWrites
  <2>1. /\ pend'[Q] = pend[Q]
        /\ \A i \in Ids : pend'[i] = pend[i] \/ pend'[i] = "waiting"
    <3>1. Q \notin {aRound + 1} \X aWants
      BY DEF Q
    <3>2. CASE pend' = pend
      BY <3>2
    <3>3. CASE pend' = [i \in DOMAIN pend |->
                          IF i \in {aRound + 1} \X aWants THEN "waiting" ELSE pend[i]]
      BY <3>1, <3>3
    <3> QED BY <1>9, <3>2, <3>3 DEF PersistWrites
  <2>2. UNCHANGED <<aAsked, aPc, aim, answerJobs>>
    BY <1>9 DEF PersistWrites
  <2> QED BY <2>1, <2>2
<1>e. /\ \A i \in Ids \cup {Q} : Expired[i] = IF pend[i] = "waiting" THEN "failed" ELSE pend[i]
  BY DEF Expired
<1>3. CASE DriveFails
  BY <1>3, <1>e DEF DriveFails
<1>4. CASE Stop
  BY <1>4 DEF Stop
<1>5. ASSUME NEW w \in Tasks, Resume(w) PROVE ClaimInv' /\ AimInv'
  BY <1>5 DEF Resume
<1>6. ASSUME NEW c \in Clients, ClientStep(c) PROVE ClaimInv' /\ AimInv'
  <2> USE DEF Turnwise, endVars, Goes
  <2>1. CASE Resolve(c)       BY <2>1 DEF Resolve
  <2>2. CASE Claim(c)         BY <2>2 DEF Claim, CloseTurn
  <2>3. CASE Check(c)         BY <2>3 DEF Check
  <2>4. CASE Decide(c)        BY <2>4 DEF Decide
  <2>5. CASE QueueAnswer(c)
    <3>1. \A d \in Clients : aPc'[d] = IF d = c THEN "end" ELSE aPc[d]
      BY <2>5 DEF QueueAnswer
    <3>2. answerJobs' = answerJobs \cup {c} /\ aPc[c] = "queue"
          /\ UNCHANGED <<pend, aAsked, aim>>
      BY <2>5 DEF QueueAnswer
    <3>3. AimInv'
      BY <3>1, <3>2
    <3>4. aim[c] = Q => \A d \in Clients : Claims(d)' => Claims(d)
      BY <3>1, <3>2
    <3> QED BY <3>2, <3>3, <3>4
  <2>6. CASE Chat(c)          BY <2>6 DEF Chat, CloseTurn
  <2>7. CASE Cancel(c)        BY <2>7, <1>e DEF Cancel
  <2>8. ASSUME NEW i \in Ids \cup {Q}, NEW how \in {"approve", "deny", "text"},
               OpenCard(c, i, how)
        PROVE  ClaimInv' /\ AimInv'
    BY <2>8 DEF OpenCard, Pending
  <2> QED BY <1>6, <2>1, <2>2, <2>3, <2>4, <2>5, <2>6, <2>7, <2>8 DEF ClientStep
<1>7. CASE UNCHANGED approvalVars
  BY <1>7 DEF approvalVars, endVars
<1> QED
  BY <1>1, <1>2, <1>3, <1>4, <1>5, <1>6, <1>7, <1>8, <1>9 DEF ApprovalNext

LEMMA SavedSome == Saved # {} <=> \E i \in Current : pend[i] \notin {"none", "waiting"}
BY Zenon DEF Saved

LEMMA SavedThen == (\E i \in Current' : pend'[i] \notin {"none", "waiting"}) => Saved' # {}
BY Zenon DEF Saved

LEMMA SavedDecided ==
    ASSUME ApprovalTypeOK
    PROVE  \A d \in Saved : d[1] \in Current /\ pend[d[1]] \notin {"none", "waiting"}
<1> SUFFICES ASSUME NEW d \in Saved
             PROVE  d[1] \in Current /\ pend[d[1]] \notin {"none", "waiting"}
  OBVIOUS
<1>1. PICK i \in {j \in Current : pend[j] \notin {"none", "waiting"}} : d = <<i, pend[i] = "approve">>
  BY Zenon DEF Saved
<1>2. d[1] = i
  BY <1>1, Zenon
<1> QED BY <1>1, <1>2

LEMMA CurrentIds == ApprovalTypeOK => Current \subseteq Ids
BY DEF ApprovalTypeOK, Current, Ids, Rounds

(* A drive that goes on has every call of the stored response decided.        *)
LEMMA DrivingDecided ==
    ASSUME ApprovalTypeOK, AskedRows, Driving
    PROVE  \A i \in Ids : pend[i] # "waiting"
<1>1. CASE aLane \in Tasks
  <2>1. Named(aLane) = Current
    BY <1>1 DEF Driving
  <2>2. \A i \in Current : \E d \in decided[aLane] : d[1] = i
    BY <2>1 DEF Named
  <2> QED BY <1>1, <2>2 DEF AskedRows
<1>2. CASE aLane = "first"
  BY <1>2 DEF AskedRows, Current
<1> QED BY <1>1, <1>2 DEF Driving

LEMMA DrivingHeld == ApprovalTypeOK /\ Driving => aLane # "free"
BY ApprovalsAssumption DEF Driving, Tasks

LEMMA RowStep ==
    ApprovalTypeOK /\ AimInv /\ AskedRows /\ EndInv /\ [ApprovalNext]_approvalVars => AskedRows'
<1> SUFFICES ASSUME ApprovalTypeOK, AimInv, AskedRows, EndInv, [ApprovalNext]_approvalVars
             PROVE  AskedRows'
  OBVIOUS
<1> USE ApprovalsAssumption, QuestionApart DEF ApprovalTypeOK, AskedRows, Tasks
<1>c. Current \subseteq Ids
  BY CurrentIds
<1>s. \A d \in Saved : d[1] \in Ids /\ pend[d[1]] \notin {"none", "waiting"}
  BY SavedDecided, <1>c
<1>e. \A i \in Ids \cup {Q} : Expired[i] = IF pend[i] = "waiting" THEN "failed" ELSE pend[i]
  BY DEF Expired
<1>1. ASSUME NEW how \in Asks, AskUser(how) PROVE AskedRows'
  <2>1. \A i \in Ids : pend'[i] = pend[i]
    BY <1>1 DEF AskUser
  <2>2. aTurn' \in {"failed", "cancelled"} => aTurn \in {"failed", "cancelled"}
    BY <1>1 DEF AskUser
  <2>3. Current' = Current /\ UNCHANGED <<aRound, aLane, decided>>
    BY <1>1 DEF AskUser, Current
  <2>4. aTurn' \notin {"failed", "cancelled"} => aTurn \notin {"failed", "cancelled"}
    BY <1>1 DEF AskUser, Driving
  <2> QED BY <2>1, <2>2, <2>3, <2>4
<1>2. ASSUME NEW A \in SUBSET Calls, DriveEnds(A) PROVE AskedRows'
  BY <1>2 DEF DriveEnds, Current
<1>8. CASE PersistReads
  BY <1>8 DEF PersistReads, Current
<1>9. CASE PersistWrites
  <2>0. aTurn \notin {"failed", "cancelled"} /\ aTurn' \notin {"failed", "cancelled"}
        /\ aLane' = "free" /\ decided' = decided
        /\ \A i \in Ids : pend[i] # "waiting"
    BY <1>9 DEF PersistWrites, EndInv
  <2>1. CASE ~aWaits
    <3>1. UNCHANGED <<aRound, aCalls, pend>>
      BY <1>9, <2>1 DEF PersistWrites
    <3> QED BY <2>0, <3>1 DEF Current
  <2>2. CASE aWaits
    <3>1. /\ aCalls' = [aCalls EXCEPT ![aRound + 1] = aWants] /\ aRound + 1 \in Rounds
          /\ pend' = [i \in DOMAIN pend |->
                        IF i \in {aRound + 1} \X aWants THEN "waiting" ELSE pend[i]]
          /\ aRound' = aRound + 1
      BY <1>9, <2>2 DEF PersistWrites, EndInv
    <3>2. Current' = {aRound + 1} \X aWants
      BY <3>1 DEF Current, Rounds
    <3>3. \A i \in Ids : pend[i] # "waiting" /\ (i[1] > aRound => pend[i] = "none")
      BY <2>0
    <3>4. \A i \in Ids : /\ pend'[i] = "waiting" => i \in Current'
                         /\ i[1] > aRound + 1 => pend'[i] = "none"
      BY <3>1, <3>2, <3>3 DEF Ids, Rounds
    <3>5. \A i \in Ids : pend[i] \notin {"none", "waiting"} => pend'[i] = pend[i]
      BY <3>1, <3>3
    <3> QED BY <2>0, <3>1, <3>4, <3>5
  <2> QED BY <2>1, <2>2
<1>3. CASE DriveFails
  <2>1. CASE aTurn \in {"done", "cancelled"} \/ (aTurn = "waiting" /\ HasWaiting)
    BY <1>3, <2>1 DEF DriveFails, Current
  <2>2. CASE ~(aTurn \in {"done", "cancelled"} \/ (aTurn = "waiting" /\ HasWaiting))
    BY <1>3, <2>2, <1>e DEF DriveFails
  <2> QED BY <2>1, <2>2
<1>4. CASE Stop
  <2>1. UNCHANGED <<aRound, aCalls, pend>> /\ aLane' = "free"
        /\ \A w \in Tasks : decided'[w] = Saved \/ decided'[w] = {}
    BY <1>4 DEF Stop
  <2>2. Current' = Current
    BY <2>1 DEF Current
  <2>3. aTurn' = aTurn \/ aTurn' = "failed"
    BY <1>4 DEF Stop
  <2> QED BY <2>1, <2>2, <2>3, <1>s
<1>5. ASSUME NEW w \in Tasks, Resume(w) PROVE AskedRows'
  BY <1>5 DEF Resume, Current
<1>6. ASSUME NEW c \in Clients, ClientStep(c) PROVE AskedRows'
  <2> USE DEF Turnwise, endVars, Goes, AimInv
  <2>1. CASE Resolve(c)
    <3>1. /\ Current' = Current /\ UNCHANGED <<aRound, aTurn, aLane, decided>>
          /\ \A i \in Ids : pend'[i] = IF i = aim[c] THEN aPc[c] ELSE pend[i]
          /\ aPc[c] \in {"approve", "deny"} /\ pend[aim[c]] # "none" /\ aim[c] \in Ids
      BY <2>1 DEF Resolve, Current
    <3> QED BY <3>1
  <2>2. CASE Claim(c)
    <3>1. /\ Current' = Current /\ UNCHANGED <<aRound, aLane, decided>>
          /\ \A i \in Ids : pend'[i] = pend[i]
          /\ aTurn' = aTurn \/ (aTurn = "waiting" /\ aTurn' = "done")
      BY <2>2 DEF Claim, CloseTurn, Closed, Current
    <3> QED BY <3>1
  <2>3. CASE Check(c)         BY <2>3 DEF Check, Current
  <2>4. CASE Decide(c)
    <3>1. /\ Current' = Current /\ UNCHANGED <<aRound, aTurn, aLane, pend>>
          /\ \A w \in Tasks : decided'[w] = IF w = c THEN Saved ELSE decided[w]
      BY <2>4 DEF Decide, Current
    <3> QED BY <3>1, <1>s
  <2>5. CASE QueueAnswer(c)   BY <2>5 DEF QueueAnswer, Current
  <2>6. CASE Chat(c)
    <3>1. /\ Current' = Current /\ UNCHANGED <<aRound, aLane, decided>>
          /\ \A i \in Ids : pend'[i] = pend[i]
          /\ aTurn' = aTurn \/ (aTurn = "waiting" /\ aTurn' = "done")
      BY <2>6 DEF Chat, CloseTurn, Closed, Current
    <3> QED BY <3>1
  <2>7. CASE Cancel(c)        BY <2>7, <1>e DEF Cancel
  <2>8. ASSUME NEW i \in Ids \cup {Q}, NEW how \in {"approve", "deny", "text"},
               OpenCard(c, i, how)
        PROVE  AskedRows'
    BY <2>8 DEF OpenCard, Current
  <2> QED BY <1>6, <2>1, <2>2, <2>3, <2>4, <2>5, <2>6, <2>7, <2>8 DEF ClientStep
<1>7. CASE UNCHANGED approvalVars
  BY <1>7 DEF approvalVars, endVars, Current
<1> QED
  BY <1>1, <1>2, <1>3, <1>4, <1>5, <1>6, <1>7, <1>8, <1>9 DEF ApprovalNext

(* What an answer leaves: the turn is closed, or it still waits for somebody, *)
(* or some call of its response is decided.                                  *)
LEMMA CloseKeeps ==
    ASSUME ApprovalTypeOK, UNCHANGED <<aRound, aCalls, aAsked>>,
           NEW p \in [Ids \cup {Q} -> {"none", "waiting", "approve", "deny", "text", "failed"}],
           CloseTurn(p)
    PROVE  HasDecisions'
<1> SUFFICES ASSUME aTurn' = "waiting", ~HasWaiting' PROVE Saved' # {}
  BY DEF HasDecisions
<1>1. ~Closed(p) /\ pend' = p /\ aTurn = "waiting" /\ Current' = Current
  BY DEF CloseTurn, Current
<1>2. \A i \in Ids \cup {Q} : p[i] = "waiting" => ~Holds(i)
  BY <1>1 DEF HasWaiting, Pending, Holds
<1>3. PICK i \in Current : p[i] # "none"
  BY <1>1, <1>2 DEF Closed
<1>4. i \in Ids /\ Holds(i)
  BY <1>3, CurrentIds, QuestionApart DEF Holds
<1>5. p[i] \notin {"none", "waiting"}
  BY <1>2, <1>3, <1>4
<1>6. \E j \in Current' : pend'[j] \notin {"none", "waiting"}
  BY <1>1, <1>3, <1>5
<1> QED BY <1>6, SavedThen

LEMMA SavedKept ==
    ASSUME Saved # {}, UNCHANGED Current,
           \A i \in Current : pend[i] \notin {"none", "waiting"} => pend'[i] \notin {"none", "waiting"}
    PROVE  Saved' # {}
<1>1. PICK i \in Current : pend[i] \notin {"none", "waiting"}
  BY SavedSome
<1>2. \E j \in Current' : pend'[j] \notin {"none", "waiting"}
  BY <1>1
<1> QED BY <1>2, SavedThen

(* What is stored as waiting has an open request, unless the question was     *)
(* answered meanwhile.                                                       *)
LEMMA StoredWaits ==
    ASSUME ApprovalTypeOK, EndInv, PersistWrites, aWaits, ~aRaced
    PROVE  HasWaiting'
<1> USE QuestionApart DEF ApprovalTypeOK
<1>1. /\ aRound + 1 \in Rounds /\ aAsked' = aAsked
      /\ pend' = [i \in DOMAIN pend |->
                    IF i \in {aRound + 1} \X aWants THEN "waiting" ELSE pend[i]]
  BY DEF PersistWrites, EndInv
<1>2. CASE aWants # {}
  <2>1. PICK k \in aWants : TRUE
    BY <1>2
  <2>2. <<aRound + 1, k>> \in Ids /\ <<aRound + 1, k>> \in {aRound + 1} \X aWants
    BY <1>1, <2>1 DEF Ids
  <2>3. pend'[<<aRound + 1, k>>] = "waiting" /\ <<aRound + 1, k>> \in DOMAIN pend'
    BY <1>1, <2>2
  <2> QED BY <2>2, <2>3 DEF HasWaiting, Pending, Holds
<1>3. CASE aWants = {}
  <2>1. pend[Q] = "waiting" /\ Holds(Q) /\ aEnds = "write"
    BY <1>3 DEF EndInv, PersistWrites
  <2>2. pend'[Q] = "waiting" /\ Q \in DOMAIN pend'
    BY <1>1, <1>3, <2>1
  <2> QED BY <1>1, <2>1, <2>2 DEF HasWaiting, Pending, Holds
<1> QED BY <1>2, <1>3

LEMMA DecisionStep ==
    ApprovalTypeOK /\ AimInv /\ AskedRows /\ EndInv /\ JobOpen /\ HasDecisions
        /\ [ApprovalNext]_approvalVars
        => HasDecisions'
<1> SUFFICES ASSUME ApprovalTypeOK, AimInv, AskedRows, EndInv, JobOpen, HasDecisions,
                    [ApprovalNext]_approvalVars
             PROVE  HasDecisions'
  OBVIOUS
<1> USE QuestionApart DEF ApprovalTypeOK
<1>u. ASSUME UNCHANGED <<aRound, aCalls, pend, aAsked, aRaced>>,
             aTurn' # "waiting" \/ aTurn' = aTurn
      PROVE  HasDecisions'
  <2>1. HasWaiting' = HasWaiting /\ UNCHANGED Current
    BY <1>u DEF HasWaiting, Pending, Holds, Current
  <2>2. Saved # {} => Saved' # {}
    BY <1>u, <2>1, SavedKept
  <2> QED BY <1>u, <2>1, <2>2 DEF HasDecisions
<1>w. ASSUME aTurn' # "waiting" PROVE HasDecisions'
  BY <1>w DEF HasDecisions
<1>1. ASSUME NEW how \in Asks, AskUser(how) PROVE HasDecisions'
  <2>1. CASE how = "blocking"
    <3>1. pend'[Q] = "waiting" /\ Q \in DOMAIN pend' /\ aAsked' = "blocking"
      BY <1>1, <2>1 DEF AskUser
    <3> QED BY <3>1 DEF HasDecisions, HasWaiting, Pending, Holds
  <2>2. CASE how # "blocking"
    BY <1>1, <2>2, <1>w, ApprovalsAssumption DEF AskUser, Driving, JobOpen, Tasks
  <2> QED BY <2>1, <2>2
<1>2. ASSUME NEW A \in SUBSET Calls, DriveEnds(A) PROVE HasDecisions'
  BY <1>2, <1>u DEF DriveEnds
<1>8. CASE PersistReads
  BY <1>8, <1>u DEF PersistReads
<1>9. CASE PersistWrites
  <2>1. CASE ~aWaits
    <3>1. aTurn' # "waiting"
      BY <1>9, <2>1 DEF PersistWrites, EndInv
    <3> QED BY <3>1, <1>w
  <2>2. CASE aWaits /\ ~aRaced
    BY <1>9, <2>2, StoredWaits DEF HasDecisions
  <2>3. CASE aRaced
    BY <1>9, <2>3 DEF PersistWrites, HasDecisions
  <2> QED BY <2>1, <2>2, <2>3
<1>3. CASE DriveFails
  <2>1. CASE aTurn \in {"done", "cancelled"} \/ (aTurn = "waiting" /\ HasWaiting)
    BY <1>3, <2>1, <1>u DEF DriveFails
  <2>2. CASE ~(aTurn \in {"done", "cancelled"} \/ (aTurn = "waiting" /\ HasWaiting))
    BY <1>3, <2>2, <1>w DEF DriveFails
  <2> QED BY <2>1, <2>2
<1>4. CASE Stop
  BY <1>4, <1>u DEF Stop
<1>5. ASSUME NEW w \in Tasks, Resume(w) PROVE HasDecisions'
  BY <1>5, <1>u DEF Resume
<1>6. ASSUME NEW c \in Clients, ClientStep(c) PROVE HasDecisions'
  <2> USE DEF Turnwise, endVars, Goes
  <2>1. CASE Resolve(c)
    <3>1. /\ UNCHANGED Current /\ aTurn' = aTurn /\ aAsked' = aAsked /\ aRaced' = aRaced
          /\ \A i \in Ids \cup {Q} : pend'[i] = IF i = aim[c] THEN aPc[c] ELSE pend[i]
          /\ aPc[c] \in {"approve", "deny"} /\ aim[c] \in Ids
          /\ DOMAIN pend' = Ids \cup {Q}
      BY <2>1 DEF Resolve, Current, AimInv
    <3>2. CASE Saved # {}
      BY <3>1, <3>2, SavedKept, CurrentIds DEF HasDecisions
    <3>3. CASE aTurn = "waiting" /\ HasWaiting
      <4>1. CASE pend[aim[c]] = "waiting"
        <5>1. aim[c] \in Current' /\ pend'[aim[c]] \notin {"none", "waiting"}
          BY <3>1, <4>1 DEF AskedRows
        <5> QED BY <5>1, SavedThen DEF HasDecisions
      <4>2. CASE pend[aim[c]] # "waiting"
        BY <3>1, <3>3, <4>2 DEF HasDecisions, HasWaiting, Pending, Holds
      <4> QED BY <4>1, <4>2
    <3>4. CASE aTurn # "waiting"
      BY <3>1, <3>4, <1>w
    <3>5. CASE aRaced
      BY <3>1, <3>5 DEF HasDecisions
    <3> QED BY <3>2, <3>3, <3>4, <3>5 DEF HasDecisions
  <2>2. CASE Claim(c)
    <3>1. CASE pend[Q] = "waiting"
      BY <2>2, <3>1, CloseKeeps DEF Claim
    <3>2. CASE pend[Q] # "waiting"
      BY <2>2, <3>2, <1>u DEF Claim
    <3> QED BY <3>1, <3>2
  <2>3. CASE Check(c)         BY <2>3, <1>u DEF Check
  <2>4. CASE Decide(c)        BY <2>4, <1>u DEF Decide
  <2>5. CASE QueueAnswer(c)   BY <2>5, <1>u DEF QueueAnswer
  <2>6. CASE Chat(c)
    BY <2>6, CloseKeeps DEF Chat
  <2>7. CASE Cancel(c)        BY <2>7, <1>w DEF Cancel
  <2>8. ASSUME NEW i \in Ids \cup {Q}, NEW how \in {"approve", "deny", "text"},
               OpenCard(c, i, how)
        PROVE  HasDecisions'
    BY <2>8, <1>u DEF OpenCard
  <2> QED BY <1>6, <2>1, <2>2, <2>3, <2>4, <2>5, <2>6, <2>7, <2>8 DEF ClientStep
<1>7. CASE UNCHANGED approvalVars
  BY <1>7, <1>u DEF approvalVars, endVars
<1> QED
  BY <1>1, <1>2, <1>3, <1>4, <1>5, <1>6, <1>7, <1>8, <1>9 DEF ApprovalNext

LEMMA JobStep ==
    ApprovalTypeOK /\ ClaimInv /\ EndInv /\ JobOpen /\ [ApprovalNext]_approvalVars => JobOpen'
<1> SUFFICES ASSUME ApprovalTypeOK, ClaimInv, EndInv, JobOpen, [ApprovalNext]_approvalVars
             PROVE  JobOpen'
  OBVIOUS
<1> USE ApprovalsAssumption DEF ApprovalTypeOK, JobOpen, Tasks
<1>1. ASSUME NEW how \in Asks, AskUser(how) PROVE JobOpen'
  BY <1>1 DEF AskUser
<1>2. ASSUME NEW A \in SUBSET Calls, DriveEnds(A) PROVE JobOpen'
  BY <1>2 DEF DriveEnds
<1>8. CASE PersistReads
  BY <1>8 DEF PersistReads
<1>9. CASE PersistWrites
  BY <1>9 DEF PersistWrites, EndInv
<1>3. CASE DriveFails
  BY <1>3 DEF DriveFails
<1>4. CASE Stop
  BY <1>4 DEF Stop
<1>5. ASSUME NEW w \in Tasks, Resume(w) PROVE JobOpen'
  BY <1>5 DEF Resume
<1>6. ASSUME NEW c \in Clients, ClientStep(c) PROVE JobOpen'
  BY <1>6 DEF ClientStep, Turnwise, Resolve, Claim, Check, Decide, QueueAnswer, Chat, Cancel,
              OpenCard, ClaimInv
<1>7. CASE UNCHANGED approvalVars
  BY <1>7 DEF approvalVars, endVars
<1> QED
  BY <1>1, <1>2, <1>3, <1>4, <1>5, <1>6, <1>7, <1>8, <1>9 DEF ApprovalNext

(* An answer to the question while an end is stored is noted.                *)
LEMMA AnswerRaces ==
    ASSUME ApprovalTypeOK, ClaimInv, EndInv, pend[Q] = "waiting",
           CloseTurn([pend EXCEPT ![Q] = "text"]), Races,
           UNCHANGED <<aRound, aAsked, aLane, aEnds, aWants, aWaits, aSaw>>
    PROVE  EndInv'
<1>1. \A i \in Ids : pend'[i] = pend[i]
  BY QuestionApart DEF CloseTurn, ApprovalTypeOK
<1>2. aTurn' = aTurn \/ aTurn' = "done"
  BY DEF CloseTurn
<1>3. aRaced' <=> aRaced \/ (aEnds # "no" /\ aWaits /\ aWants = {})
  BY DEF Races
<1>4. aAsked # "no"
  BY DEF ClaimInv
<1> QED BY <1>1, <1>2, <1>3, <1>4 DEF EndInv, ApprovalTypeOK

LEMMA EndStep ==
    ApprovalTypeOK /\ ClaimInv /\ AimInv /\ AskedRows /\ EndInv /\ JobOpen
        /\ [ApprovalNext]_approvalVars
        => EndInv'
<1> SUFFICES ASSUME ApprovalTypeOK, ClaimInv, AimInv, AskedRows, EndInv, JobOpen,
                    [ApprovalNext]_approvalVars
             PROVE  EndInv'
  OBVIOUS
<1> USE ApprovalsAssumption, QuestionApart DEF ApprovalTypeOK, EndInv, NoEnd, Holds
<1>1. ASSUME NEW how \in Asks, AskUser(how) PROVE EndInv'
  BY <1>1 DEF AskUser, Driving, endVars
<1>2. ASSUME NEW A \in SUBSET Calls, DriveEnds(A) PROVE EndInv'
  <2>1. aEnds = "no" /\ aLane # "free"
    BY <1>2 DEF DriveEnds, Driving, Tasks
  <2>2. \A i \in Ids : pend[i] # "waiting"
    BY <1>2, DrivingDecided DEF DriveEnds
  <2>3. HasWaiting => pend[Q] = "waiting" /\ aAsked # "aside"
    BY <2>2 DEF HasWaiting, Pending
  <2>4. aWaits' <=> A # {} \/ HasWaiting
    BY <1>2 DEF DriveEnds
  <2> QED BY <1>2, <2>1, <2>2, <2>3, <2>4 DEF DriveEnds
<1>3. CASE DriveFails
  BY <1>3 DEF DriveFails
<1>4. CASE Stop
  BY <1>4 DEF Stop
<1>5. ASSUME NEW w \in Tasks, Resume(w) PROVE EndInv'
  BY <1>5 DEF Resume, endVars
<1>6. ASSUME NEW c \in Clients, ClientStep(c) PROVE EndInv'
  <2> USE DEF Turnwise, endVars, Goes, AimInv
  <2>1. CASE Resolve(c)       BY <2>1 DEF Resolve
  <2>2. CASE Claim(c)
    <3>1. CASE pend[Q] = "waiting"
      <4>1. CloseTurn([pend EXCEPT ![Q] = "text"]) /\ Races
            /\ UNCHANGED <<aRound, aAsked, aLane, aEnds, aWants, aWaits, aSaw>>
        BY <2>2, <3>1 DEF Claim
      <4> QED BY <3>1, <4>1, AnswerRaces
    <3>2. CASE pend[Q] # "waiting"
      BY <2>2, <3>2 DEF Claim
    <3> QED BY <3>1, <3>2
  <2>3. CASE Check(c)         BY <2>3 DEF Check
  <2>4. CASE Decide(c)        BY <2>4 DEF Decide
  <2>5. CASE QueueAnswer(c)   BY <2>5 DEF QueueAnswer
  <2>6. CASE Chat(c)
    <3>1. CloseTurn([pend EXCEPT ![Q] = "text"]) /\ Races /\ pend[Q] = "waiting"
          /\ UNCHANGED <<aRound, aAsked, aLane, aEnds, aWants, aWaits, aSaw>>
      BY <2>6 DEF Chat
    <3> QED BY <3>1, AnswerRaces
  <2>7. CASE Cancel(c)        BY <2>7 DEF Cancel
  <2>8. ASSUME NEW i \in Ids \cup {Q}, NEW how \in {"approve", "deny", "text"},
               OpenCard(c, i, how)
        PROVE  EndInv'
    BY <2>8 DEF OpenCard
  <2> QED BY <1>6, <2>1, <2>2, <2>3, <2>4, <2>5, <2>6, <2>7, <2>8 DEF ClientStep
<1>7. CASE UNCHANGED approvalVars
  BY <1>7 DEF approvalVars, endVars
<1>8. CASE PersistReads
  BY <1>8 DEF PersistReads, JobOpen
<1>9. CASE PersistWrites
  BY <1>9 DEF PersistWrites
<1> QED
  BY <1>1, <1>2, <1>3, <1>4, <1>5, <1>6, <1>7, <1>8, <1>9 DEF ApprovalNext

LEMMA ResumeStep ==
    AnswerInv /\ [ApprovalNext]_approvalVars => ResumeComes'
<1> SUFFICES ASSUME AnswerInv, [ApprovalNext]_approvalVars,
                    (aStops' = 0 /\ ~aRaced') \/ aAsked' = "no",
                    aTurn' = "waiting", aLane' = "free", ~HasWaiting'
             PROVE  resumes' # {} \/ \E c \in Clients : aPc'[c] \in {"check", "chat", "decide"}
  BY DEF ResumeComes
<1> USE ApprovalsAssumption, QuestionApart DEF AnswerInv, ApprovalTypeOK, Tasks
<1> DEFINE Comes == resumes # {} \/ \E c \in Clients : aPc[c] \in {"check", "chat", "decide"}
<1>r. ~aRaced'
  BY EndStep DEF EndInv
<1>u. ASSUME UNCHANGED <<pend, aAsked, aTurn, aLane, aRaced, aStops>> PROVE Comes
  <2>1. ~HasWaiting
    BY <1>u DEF HasWaiting, Pending, Holds
  <2> QED BY <1>u, <2>1 DEF ResumeComes
<1>1. ASSUME NEW how \in Asks, AskUser(how) PROVE FALSE
  BY <1>1, DrivingHeld DEF AskUser
<1>2. ASSUME NEW A \in SUBSET Calls, DriveEnds(A) PROVE FALSE
  BY <1>2, DrivingHeld DEF DriveEnds
<1>8. ASSUME PersistReads PROVE FALSE
  BY <1>8 DEF PersistReads, EndInv
<1>9. ASSUME PersistWrites PROVE FALSE
  <2>1. ~aRaced
    BY <1>9, <1>r DEF PersistWrites
  <2>2. CASE aWaits
    BY <1>9, <2>1, <2>2, StoredWaits
  <2>3. CASE ~aWaits
    BY <1>9, <2>3 DEF PersistWrites, EndInv
  <2> QED BY <2>2, <2>3
<1>3. ASSUME DriveFails PROVE FALSE
  <2>1. CASE aTurn \in {"done", "cancelled"} \/ (aTurn = "waiting" /\ HasWaiting)
    BY <1>3, <2>1 DEF DriveFails, HasWaiting, Pending, Holds
  <2>2. CASE ~(aTurn \in {"done", "cancelled"} \/ (aTurn = "waiting" /\ HasWaiting))
    BY <1>3, <2>2 DEF DriveFails
  <2> QED BY <2>1, <2>2
<1>4. CASE Stop
  <2>1. /\ aStops' = aStops + 1 /\ UNCHANGED <<pend, aAsked, aRound, aCalls>>
        /\ aTurn = "waiting"
    BY <1>4 DEF Stop
  <2>2. aAsked = "no" /\ aStops \in Nat
    BY <2>1
  <2>3. ~HasWaiting
    BY <2>1 DEF HasWaiting, Pending, Holds
  <2>0. ~aRaced
    BY <1>4, <1>r DEF Stop
  <2>4. Pending = {} /\ aJob = "started" /\ Saved # {}
    BY <2>0, <2>1, <2>2, <2>3 DEF HasWaiting, Pending, Holds, HasDecisions, JobOpen
  <2>5. aRound # 0
    BY <2>4, SavedSome DEF Current
  <2>6. resumes' = {"boot"}
    BY <1>4, <2>1, <2>4, <2>5 DEF Stop
  <2> QED BY <2>6
<1>5. ASSUME NEW w \in Tasks, Resume(w) PROVE FALSE
  BY <1>5 DEF Resume
<1>6. ASSUME NEW c \in Clients, ClientStep(c)
      PROVE  resumes' # {} \/ \E d \in Clients : aPc'[d] \in {"check", "chat", "decide"}
  <2> USE DEF Turnwise, endVars, Goes
  <2>1. CASE Resolve(c)
    BY <2>1 DEF Resolve
  <2>2. CASE Claim(c)
    <3>1. CASE pend[Q] = "waiting"
      <4>1. aPc' = [aPc EXCEPT ![c] = "check"]
        BY <2>2, <3>1, Zenon DEF Claim
      <4> QED BY <4>1
    <3>2. CASE pend[Q] # "waiting"
      BY <2>2, <3>2, <1>u DEF Claim
    <3> QED BY <3>1, <3>2
  <2>3. CASE Check(c)
    <3>1. ~HasWaiting
      BY <2>3 DEF Check, HasWaiting, Pending, Holds
    <3> QED BY <2>3, <3>1 DEF Check
  <2>4. CASE Decide(c)
    <3>1. ~HasWaiting /\ aTurn = "waiting"
      BY <2>4 DEF Decide, HasWaiting, Pending, Holds
    <3>2. Saved # {}
      BY <2>4, <3>1, <1>r DEF HasDecisions, Decide
    <3> QED BY <2>4, <3>2 DEF Decide
  <2>5. CASE QueueAnswer(c)   BY <2>5, <1>u DEF QueueAnswer
  <2>6. CASE Chat(c)          BY <2>6 DEF Chat
  <2>7. CASE Cancel(c)        BY <2>7 DEF Cancel
  <2>8. ASSUME NEW i \in Ids \cup {Q}, NEW how \in {"approve", "deny", "text"},
               OpenCard(c, i, how)
        PROVE  resumes' # {} \/ \E d \in Clients : aPc'[d] \in {"check", "chat", "decide"}
    BY <2>8, <1>u DEF OpenCard
  <2> QED BY <1>6, <2>1, <2>2, <2>3, <2>4, <2>5, <2>6, <2>7, <2>8 DEF ClientStep
<1>7. CASE UNCHANGED approvalVars
  BY <1>7, <1>u DEF approvalVars, endVars
<1> QED
  BY <1>1, <1>2, <1>3, <1>4, <1>5, <1>6, <1>7, <1>8, <1>9 DEF ApprovalNext

LEMMA AnswerInit == ApprovalInit => AnswerInv
<1> SUFFICES ASSUME ApprovalInit PROVE AnswerInv
  OBVIOUS
<1> USE ApprovalsAssumption, QuestionApart DEF ApprovalInit
<1>1. ApprovalTypeOK
  <2>1. aTurn \in Statuses /\ aSaw \in Statuses /\ aRound \in 0..MaxRounds
    BY DEF Statuses
  <2>3. aWaits \in BOOLEAN /\ aRaced \in BOOLEAN
    BY Zenon
  <2>2. /\ aCalls \in [Rounds -> SUBSET Calls] /\ decided \in [Tasks -> SUBSET (Ids \X BOOLEAN)]
        /\ pend \in [Ids \cup {Q} -> {"none", "waiting", "approve", "deny", "text", "failed"}]
        /\ aim \in [Clients -> Ids \cup {Q}]
    OBVIOUS
  <2> QED BY <2>1, <2>2, <2>3 DEF ApprovalTypeOK, Tasks
<1>2. ClaimInv /\ AimInv /\ AskedRows /\ JobOpen /\ EndInv
  BY DEF ClaimInv, Claims, AimInv, AskedRows, JobOpen, Tasks, EndInv
<1>3. HasDecisions /\ ResumeComes
  BY DEF HasDecisions, ResumeComes
<1> QED BY <1>1, <1>2, <1>3 DEF AnswerInv

(* For any number of calls, rounds and clients, a turn that waits has somebody *)
(* to wait for once nothing is under way, as long as its question, if it asks  *)
(* one, meets neither a restart nor the end of its drive being stored; and     *)
(* one answer to a question is queued (_resume_answered, _answered_turns,      *)
(* _claim_question).                                                         *)
THEOREM AnswersCount == ApprovalSpec => []AnswersCountOnce
<1>1. AnswerInv /\ [ApprovalNext]_approvalVars => AnswerInv'
  BY ApprovalTypes, ClaimStep, RowStep, DecisionStep, JobStep, EndStep, ResumeStep DEF AnswerInv
<1>2. AnswerInv => AnswersCountOnce
  <2> SUFFICES ASSUME AnswerInv PROVE AnswersCountOnce
    OBVIOUS
  <2>1. (aStops = 0 /\ ~aRaced) \/ aAsked = "no" => (aTurn = "waiting" /\ AtRest => HasWaiting)
    BY DEF AnswerInv, ResumeComes, AtRest
  <2>2. Cardinality(answerJobs) <= 1
    <3>1. \A c, d \in answerJobs : c = d
      BY DEF AnswerInv, ClaimInv, Claims, ApprovalTypeOK
    <3>2. CASE answerJobs = {}
      BY <3>2, FS_EmptySet
    <3>3. ASSUME NEW c \in answerJobs PROVE Cardinality(answerJobs) <= 1
      <4>1. answerJobs = {c}
        BY <3>1
      <4> QED BY <4>1, FS_Singleton
    <3> QED BY <3>2, <3>3
  <2> QED BY <2>1, <2>2 DEF AnswersCountOnce
<1> QED
  BY <1>1, <1>2, AnswerInit, PTL DEF ApprovalSpec

-----------------------------------------------------------------------------
(* TEXT. Deltas stay in one line, from the hub's tasks over the held and       *)
(* deferred frames to the send queue, and every step takes from its front or  *)
(* adds behind it.                                                           *)

(* All that is on its way to the session and the client, oldest first.       *)
Line == frames \o (laterTicks \o (heldTicks \o fanouts))

InRow(t) == \A k \in DOMAIN t : t[k] = t[1] + k - 1
Carries(t, n) == t # <<>> /\ t[1] <= n /\ n < t[1] + Len(t)
OnWay(s, n) ==
    Carries(buckets[s], n) \/ \E i \in DOMAIN Line : Line[i].of = s /\ Carries(Line[i].text, n)

(* The next delta that the client needs.                                     *)
Needs(s) == start[s] + Len(got[s])

(* Where ticks may wait.                                                    *)
Places ==
    /\ link # "ready" => frames = <<>> /\ request = "none"
    /\ request # "call" => laterTicks = <<>>
    /\ request # "sync" => heldTicks = <<>>
    /\ armed = timers
    /\ \A s \in Streams : buckets[s] # <<>> => s \in timers

(* Each text is a run of deltas, a later text of a stream follows an earlier  *)
(* one, and from the oldest text on none is missing.                         *)
InOrder ==
    /\ \A i \in DOMAIN Line : Line[i].text # <<>> /\ InRow(Line[i].text)
    /\ \A i, j \in DOMAIN Line : i < j /\ Line[i].of = Line[j].of
            => Line[i].text[1] + Len(Line[i].text) <= Line[j].text[1]
    /\ \A i \in DOMAIN Line : \A n \in Deltas :
            Line[i].text[1] <= n /\ n <= streamed[Line[i].of] => OnWay(Line[i].of, n)
    /\ \A i \in DOMAIN Line :
            Line[i].text[1] + Len(Line[i].text) <= streamed[Line[i].of] + 1

BucketInOrder ==
    \A s \in Streams : buckets[s] # <<>> =>
        /\ InRow(buckets[s]) /\ buckets[s][1] + Len(buckets[s]) = streamed[s] + 1
        /\ \A i \in DOMAIN Line : Line[i].of = s
              => Line[i].text[1] + Len(Line[i].text) <= buckets[s][1]

(* What the client has, and that what it needs is on its way.                *)
Reaches ==
    link = "ready" =>
        \A s \in Streams :
            /\ \A i \in DOMAIN got[s] : got[s][i] = start[s] + i - 1
            /\ Needs(s) <= streamed[s] + 1
            /\ \A n \in Deltas : Needs(s) <= n /\ n <= streamed[s] => OnWay(s, n)
            /\ \A i \in DOMAIN Line : Line[i].of = s => Needs(s) <= Line[i].text[1]
            /\ buckets[s] # <<>> => Needs(s) <= buckets[s][1]

TextInv == TicksTypeOK /\ Places /\ InOrder /\ BucketInOrder /\ Reaches

-----------------------------------------------------------------------------
(* Sequences of ticks.                                                      *)

(* T is what is left of S without its first k elements.                      *)
Drops(T, S, k) == Len(T) = Len(S) - k /\ \A i \in 1..Len(T) : T[i] = S[i + k]

LEMMA MaxIsNat == MaxDeltas \in Nat /\ Deltas \subseteq Nat
BY TicksAssumption DEF Deltas

LEMMA LineType ==
    ASSUME TicksTypeOK
    PROVE  /\ Line \in Seq(TickFrames) /\ Len(Line) \in Nat /\ DOMAIN Line = 1..Len(Line)
           /\ \A i \in 1..Len(Line) :
                  /\ Line[i].of \in Streams /\ Line[i].text \in Seq(Deltas)
                  /\ Len(Line[i].text) \in Nat
                  /\ DOMAIN Line[i].text = 1..Len(Line[i].text)
                  /\ Line[i].text # <<>> => Line[i].text[1] \in Deltas /\ Len(Line[i].text) > 0
<1>1. /\ fanouts \in Seq(TickFrames) /\ frames \in Seq(TickFrames)
      /\ heldTicks \in Seq(TickFrames) /\ laterTicks \in Seq(TickFrames)
  BY DEF TicksTypeOK
<1>2. Line \in Seq(TickFrames)
  BY <1>1, ConcatProperties DEF Line
<1>3. Len(Line) \in Nat /\ DOMAIN Line = 1..Len(Line)
  BY <1>2, LenProperties
<1>4. ASSUME NEW i \in 1..Len(Line)
      PROVE  /\ Line[i].of \in Streams /\ Line[i].text \in Seq(Deltas)
             /\ Len(Line[i].text) \in Nat
             /\ DOMAIN Line[i].text = 1..Len(Line[i].text)
             /\ Line[i].text # <<>> => Line[i].text[1] \in Deltas /\ Len(Line[i].text) > 0
  <2>1. Line[i] \in TickFrames
    BY <1>2, ElementOfSeq
  <2>2. Line[i].of \in Streams /\ Line[i].text \in Seq(Deltas)
    BY <2>1 DEF TickFrames
  <2> QED
    BY <2>2, LenProperties, EmptySeq, ElementOfSeq
<1> QED
  BY <1>2, <1>3, <1>4

LEMMA LineTypeLater ==
    ASSUME TicksTypeOK'
    PROVE  Line' \in Seq(TickFrames) /\ Len(Line') \in Nat /\ DOMAIN Line' = 1..Len(Line')
<1>1. /\ fanouts' \in Seq(TickFrames) /\ frames' \in Seq(TickFrames)
      /\ heldTicks' \in Seq(TickFrames) /\ laterTicks' \in Seq(TickFrames)
  BY DEF TicksTypeOK
<1>2. Line' \in Seq(TickFrames)
  BY <1>1, ConcatProperties DEF Line
<1> QED
  BY <1>2, LenProperties

LEMMA TextTypes ==
    ASSUME TicksTypeOK, NEW s \in Streams
    PROVE  /\ streamed[s] \in 0..MaxDeltas /\ start[s] \in 1..MaxDeltas + 1
           /\ buckets[s] \in Seq(Deltas) /\ Len(buckets[s]) \in Nat
           /\ DOMAIN buckets[s] = 1..Len(buckets[s])
           /\ buckets[s] # <<>> => buckets[s][1] \in Deltas /\ Len(buckets[s]) > 0
           /\ got[s] \in Seq(Deltas) /\ Len(got[s]) \in Nat /\ DOMAIN got[s] = 1..Len(got[s])
           /\ Needs(s) \in Nat /\ Needs(s) >= 1 /\ MaxDeltas \in Nat
<1>1. /\ streamed[s] \in 0..MaxDeltas /\ start[s] \in 1..MaxDeltas + 1
      /\ buckets[s] \in Seq(Deltas) /\ got[s] \in Seq(Deltas) /\ MaxDeltas \in Nat
  BY TicksAssumption DEF TicksTypeOK
<1>2. /\ Len(buckets[s]) \in Nat /\ DOMAIN buckets[s] = 1..Len(buckets[s])
      /\ Len(got[s]) \in Nat /\ DOMAIN got[s] = 1..Len(got[s])
  BY <1>1, LenProperties
<1>3. buckets[s] # <<>> => buckets[s][1] \in Deltas /\ Len(buckets[s]) > 0
  BY <1>1, <1>2, EmptySeq, ElementOfSeq
<1> QED
  BY <1>1, <1>2, <1>3 DEF Needs

(* Ticks that go from the front of the line leave it in order.               *)
LEMMA FrontGoes ==
    ASSUME TicksTypeOK, TicksTypeOK', InOrder, BucketInOrder,
           UNCHANGED <<streamed, buckets>>, NEW k \in Nat, Drops(Line', Line, k)
    PROVE  InOrder' /\ BucketInOrder'
<1>1. /\ Len(Line) \in Nat /\ DOMAIN Line = 1..Len(Line)
      /\ Len(Line') \in Nat /\ DOMAIN Line' = 1..Len(Line')
  BY LineType, LineTypeLater
<1>2. ASSUME NEW i \in DOMAIN Line' PROVE i + k \in DOMAIN Line /\ Line'[i] = Line[i + k]
  BY <1>1 DEF Drops
<1>3. ASSUME NEW i \in DOMAIN Line', NEW n \in Deltas, Line'[i].text[1] <= n,
             n <= streamed'[Line'[i].of]
      PROVE  OnWay(Line[i].of, n)'
  <2>s. PICK s : s = Line'[i].of
    OBVIOUS
  <2>1. OnWay(s, n)
    BY <1>2, <1>3, <2>s DEF InOrder
  <2>2. CASE Carries(buckets[s], n)
    BY <2>2, <2>s DEF OnWay
  <2>3. CASE \E j \in DOMAIN Line : Line[j].of = s /\ Carries(Line[j].text, n)
    <3>1. PICK j \in DOMAIN Line : Line[j].of = s /\ Carries(Line[j].text, n)
      BY <2>3
    <3>2. i + k \in DOMAIN Line /\ Line'[i] = Line[i + k]
      BY <1>2
    <3>3. ~(j < i + k)
      <4>1. SUFFICES ASSUME j < i + k PROVE FALSE
        OBVIOUS
      <4>2. Line[j].text[1] + Len(Line[j].text) <= Line[i + k].text[1]
        BY <2>s, <3>1, <3>2, <4>1 DEF InOrder
      <4>3. n < Line[j].text[1] + Len(Line[j].text)
        BY <3>1 DEF Carries
      <4>4. Line[i + k].text[1] <= n
        BY <1>3, <3>2
      <4>5. /\ Line[j].text # <<>> /\ Line[i + k].text # <<>>
        BY <3>1, <3>2 DEF InOrder
      <4>6. /\ Line[j].text[1] \in Nat /\ Len(Line[j].text) \in Nat
            /\ Line[i + k].text[1] \in Nat /\ n \in Nat
        <5>1. Line[j].text[1] \in Deltas /\ Len(Line[j].text) \in Nat
              /\ Line[i + k].text[1] \in Deltas
          BY <4>5, <3>1, <3>2, <1>1, LineType
        <5> QED
          BY <5>1, MaxIsNat DEF Deltas
      <4> QED
        BY <4>2, <4>3, <4>4, <4>6
    <3>4. j - k \in DOMAIN Line' /\ Line'[j - k] = Line[j]
      <4>1. j - k \in 1..Len(Line')
        BY <1>1, <3>2, <3>3 DEF Drops
      <4> QED
        BY <1>1, <1>2, <4>1, <3>1
    <3> QED
      BY <2>s, <3>1, <3>4 DEF OnWay
  <2> QED
    BY <2>1, <2>2, <2>3 DEF OnWay
<1>4. InOrder'
  <2>1. \A i \in DOMAIN Line' : Line'[i].text # <<>> /\ InRow(Line'[i].text)
    BY <1>2 DEF InOrder
  <2>2. ASSUME NEW i \in DOMAIN Line', NEW j \in DOMAIN Line', i < j, Line'[i].of = Line'[j].of
        PROVE  Line'[i].text[1] + Len(Line'[i].text) <= Line'[j].text[1]
    <3>1. /\ i + k \in DOMAIN Line /\ Line'[i] = Line[i + k]
          /\ j + k \in DOMAIN Line /\ Line'[j] = Line[j + k]
      BY <1>2
    <3>2. i + k < j + k
      BY <1>1, <2>2
    <3> QED
      BY <2>2, <3>1, <3>2 DEF InOrder
  <2>3. \A i \in DOMAIN Line' :
            Line'[i].text[1] + Len(Line'[i].text) <= streamed'[Line'[i].of] + 1
    BY <1>2 DEF InOrder
  <2> QED
    BY <1>3, <2>1, <2>2, <2>3 DEF InOrder
<1>5. BucketInOrder'
  BY <1>2 DEF BucketInOrder
<1> QED
  BY <1>4, <1>5

LEMMA InitTypes == TicksInit => TicksTypeOK
<1> SUFFICES ASSUME TicksInit PROVE TicksTypeOK
  OBVIOUS
<1>1. <<>> \in Seq(Deltas) /\ <<>> \in Seq(TickFrames)
  OBVIOUS
<1> QED
  BY <1>1, TicksAssumption DEF TicksInit, TicksTypeOK, Silent

LEMMA FrameType ==
    ASSUME NEW s \in Streams, NEW t \in Seq(Deltas)
    PROVE  [of |-> s, text |-> t] \in TickFrames
BY DEF TickFrames

LEMMA PutTypes ==
    ASSUME TicksTypeOK, NEW fs \in Seq(TickFrames), Put(fs)
    PROVE  frames' \in Seq(TickFrames) /\ link' \in {"off", "ready", "closing"}
<1>1. frames \in Seq(TickFrames) /\ link \in {"off", "ready", "closing"}
  BY DEF TicksTypeOK
<1>2. frames \o fs \in Seq(TickFrames) /\ <<>> \in Seq(TickFrames)
  BY <1>1, ConcatProperties
<1> QED
  BY <1>1, <1>2 DEF Put

LEMMA AddDeltaTypes ==
    ASSUME TicksTypeOK, NEW s \in Streams, AddDelta(s) PROVE TicksTypeOK'
<1>1. streamed[s] + 1 \in Deltas /\ streamed[s] + 1 \in 0..MaxDeltas
  BY TextTypes DEF AddDelta, Deltas
<1>2. streamed' \in [Streams -> 0..MaxDeltas] /\ buckets' \in [Streams -> Seq(Deltas)]
  BY <1>1 DEF TicksTypeOK, AddDelta, Merge
<1>3. armed' \subseteq Streams /\ timers' \subseteq Streams
  BY DEF TicksTypeOK, AddDelta, Arm
<1> QED
  BY <1>2, <1>3 DEF TicksTypeOK, AddDelta

LEMMA FireTypes ==
    ASSUME TicksTypeOK, NEW s \in Streams, Fire(s) PROVE TicksTypeOK'
<1>1. buckets' \in [Streams -> Seq(Deltas)]
  BY DEF TicksTypeOK, Fire
<1>2. fanouts' \in Seq(TickFrames)
  <2>1. buckets[s] \in Seq(Deltas)
    BY DEF TicksTypeOK
  <2>2. [of |-> s, text |-> buckets[s]] \in TickFrames
    BY <2>1, FrameType
  <2> QED
    BY <2>2, AppendProperties DEF TicksTypeOK, Fire
<1> QED
  BY <1>1, <1>2 DEF TicksTypeOK, Fire

(* What becomes of the tick that is fanned out.                             *)
LEMMA FanOutCases ==
    ASSUME FanOut
    PROVE  /\ fanouts # <<>> /\ fanouts' = Tail(fanouts)
           /\ UNCHANGED <<streamed, buckets, armed, timers, request, got, start, holds, links>>
           /\ \/ link # "ready" /\ UNCHANGED <<heldTicks, laterTicks, frames, link>>
              \/ /\ link = "ready" /\ request = "sync"
                 /\ heldTicks' = Append(heldTicks, Head(fanouts))
                 /\ UNCHANGED <<laterTicks, frames, link>>
              \/ /\ link = "ready" /\ request = "call"
                 /\ laterTicks' = Append(laterTicks, Head(fanouts))
                 /\ UNCHANGED <<heldTicks, frames, link>>
              \/ /\ link = "ready" /\ request \notin {"sync", "call"}
                 /\ UNCHANGED <<heldTicks, laterTicks>>
                 /\ \/ frames' = frames \o <<Head(fanouts)>> /\ UNCHANGED link
                    \/ frames' = <<>> /\ link' = "closing"
BY DEF FanOut, Put

LEMMA FanOutTypes ==
    ASSUME TicksTypeOK, FanOut PROVE TicksTypeOK'
<1>1. fanouts \in Seq(TickFrames) /\ fanouts # <<>>
  BY DEF TicksTypeOK, FanOut
<1>2. Head(fanouts) \in TickFrames /\ fanouts' \in Seq(TickFrames)
  BY <1>1, HeadTailProperties DEF FanOut
<1>3. /\ heldTicks' \in Seq(TickFrames) /\ laterTicks' \in Seq(TickFrames)
      /\ frames' \in Seq(TickFrames) /\ link' \in {"off", "ready", "closing"}
  <2>1. <<Head(fanouts)>> \in Seq(TickFrames)
    BY <1>2
  <2>2. /\ Append(heldTicks, Head(fanouts)) \in Seq(TickFrames)
        /\ Append(laterTicks, Head(fanouts)) \in Seq(TickFrames)
    BY <1>2, AppendProperties DEF TicksTypeOK
  <2>3. CASE Put(<<Head(fanouts)>>) /\ UNCHANGED <<heldTicks, laterTicks>>
    BY <2>1, <2>3, PutTypes DEF TicksTypeOK
  <2>4. CASE UNCHANGED <<heldTicks, laterTicks, frames, link>>
    BY <2>4 DEF TicksTypeOK
  <2>5. CASE heldTicks' = Append(heldTicks, Head(fanouts)) /\ UNCHANGED <<laterTicks, frames, link>>
    BY <2>2, <2>5 DEF TicksTypeOK
  <2>6. CASE laterTicks' = Append(laterTicks, Head(fanouts)) /\ UNCHANGED <<heldTicks, frames, link>>
    BY <2>2, <2>6 DEF TicksTypeOK
  <2> QED
    BY <2>3, <2>4, <2>5, <2>6 DEF FanOut
<1> QED
  BY <1>2, <1>3 DEF TicksTypeOK, FanOut

LEMMA SendTickTypes ==
    ASSUME TicksTypeOK, SendTick PROVE TicksTypeOK'
<1>1. frames \in Seq(TickFrames) /\ frames # <<>>
  BY DEF TicksTypeOK, SendTick
<1>2. Head(frames) \in TickFrames /\ frames' \in Seq(TickFrames)
  BY <1>1, HeadTailProperties DEF SendTick
<1>3. Head(frames).of \in Streams /\ Head(frames).text \in Seq(Deltas)
  BY <1>2 DEF TickFrames
<1>4. got[Head(frames).of] \o Head(frames).text \in Seq(Deltas)
  BY <1>3, ConcatProperties DEF TicksTypeOK
<1>5. got' \in [Streams -> Seq(Deltas)]
  BY <1>4 DEF TicksTypeOK, SendTick
<1> QED
  BY <1>2, <1>5 DEF TicksTypeOK, SendTick, tickSide

(* What a client that connects now will need first.                          *)
LEMMA FirstAheadIs ==
    ASSUME TicksTypeOK, InOrder, BucketInOrder, Line = fanouts, NEW s \in Streams
    PROVE  /\ FirstAhead(s) \in 1..streamed[s] + 1 /\ FirstAhead(s) \in 1..MaxDeltas + 1
           /\ \A i \in DOMAIN Line : Line[i].of = s => FirstAhead(s) <= Line[i].text[1]
           /\ buckets[s] # <<>> => FirstAhead(s) <= buckets[s][1]
           /\ \A n \in Deltas : FirstAhead(s) <= n /\ n <= streamed[s] => OnWay(s, n)
<1> DEFINE B == {buckets[s][i] : i \in DOMAIN buckets[s]}
           F == {fanouts[i].text[1] : i \in {j \in DOMAIN fanouts : fanouts[j].of = s}}
           A == {streamed[s] + 1} \cup B \cup F
<1>1. B \subseteq Deltas
  BY TextTypes, ElementOfSeq
<1>2. F \subseteq Deltas
  <2> SUFFICES ASSUME NEW i \in DOMAIN Line, Line[i].of = s PROVE Line[i].text[1] \in Deltas
    OBVIOUS
  <2>1. Line[i].text # <<>>
    BY DEF InOrder
  <2> QED
    BY <2>1, LineType
<1>3. streamed[s] \in 0..MaxDeltas /\ streamed[s] + 1 \in Nat
  BY TextTypes
<1>4. A \subseteq Nat /\ A # {}
  BY <1>1, <1>2, <1>3, MaxIsNat
<1>5. \E x \in A : \A y \in A : x <= y
  <2> HIDE DEF A
  <2> QED
    BY <1>4, LeastElement
<1>6. FirstAhead(s) \in A /\ \A y \in A : FirstAhead(s) <= y
  <2>1. FirstAhead(s) = CHOOSE x \in A : \A y \in A : x <= y
    BY DEF FirstAhead, Min
  <2> HIDE DEF A
  <2> QED
    BY <1>5, <2>1
<1>7. FirstAhead(s) >= 1 /\ FirstAhead(s) <= streamed[s] + 1 /\ FirstAhead(s) \in Nat
  <2>1. \A y \in A : y >= 1
    BY <1>1, <1>2, <1>3 DEF Deltas
  <2>2. streamed[s] + 1 \in A
    OBVIOUS
  <2> HIDE DEF A
  <2> QED
    BY <1>4, <1>6, <2>1, <2>2
<1>8. \A i \in DOMAIN Line : Line[i].of = s => FirstAhead(s) <= Line[i].text[1]
  BY <1>6
<1>9. ASSUME buckets[s] # <<>> PROVE FirstAhead(s) <= buckets[s][1]
  <2>1. 1 \in DOMAIN buckets[s]
    BY <1>9, TextTypes
  <2>2. buckets[s][1] \in A
    BY <2>1
  <2> QED
    BY <1>6, <2>2
<1>10. ASSUME NEW n \in Deltas, FirstAhead(s) <= n, n <= streamed[s] PROVE OnWay(s, n)
  <2>0. n \in Nat
    BY MaxIsNat
  <2>1. CASE FirstAhead(s) = streamed[s] + 1
    BY <1>3, <1>10, <2>0, <2>1
  <2>2. CASE FirstAhead(s) \in B
    <3>1. PICK i \in DOMAIN buckets[s] : FirstAhead(s) = buckets[s][i]
      BY <2>2
    <3>2. buckets[s] # <<>> /\ i >= 1 /\ i \in Nat
      BY <3>1, TextTypes
    <3>3. InRow(buckets[s]) /\ buckets[s][1] + Len(buckets[s]) = streamed[s] + 1
      BY <3>2 DEF BucketInOrder
    <3>4. buckets[s][i] = buckets[s][1] + i - 1
      BY <3>1, <3>3 DEF InRow
    <3>5. buckets[s][1] \in Nat /\ Len(buckets[s]) \in Nat
      BY <3>2, TextTypes, MaxIsNat
    <3>6. buckets[s][1] <= n /\ n < buckets[s][1] + Len(buckets[s])
      <4> DEFINE first == buckets[s][1]
                 size  == Len(buckets[s])
                 ahead == FirstAhead(s)
                 end   == streamed[s]
      <4>1. /\ first \in Nat /\ size \in Nat /\ end \in Nat /\ ahead = first + i - 1
            /\ first + size = end + 1 /\ ahead <= n /\ n <= end
        BY <1>3, <1>10, <3>1, <3>3, <3>4, <3>5
      <4> HIDE DEF first, size, ahead, end
      <4>2. first <= n /\ n < first + size
        BY <2>0, <3>2, <4>1
      <4> QED
        BY <4>2 DEF first, size
    <3> QED
      BY <3>2, <3>6 DEF OnWay, Carries
  <2>3. CASE FirstAhead(s) \in F
    <3>1. PICK i \in DOMAIN Line : Line[i].of = s /\ FirstAhead(s) = Line[i].text[1]
      BY <2>3
    <3> QED
      BY <1>10, <3>1 DEF InOrder
  <2> QED
    BY <1>6, <2>1, <2>2, <2>3
<1>11. FirstAhead(s) \in 1..streamed[s] + 1 /\ FirstAhead(s) \in 1..MaxDeltas + 1
  BY <1>3, <1>7, MaxIsNat
<1> QED
  BY <1>8, <1>9, <1>10, <1>11

LEMMA OnlyFanouts ==
    ASSUME TicksTypeOK, Places, link # "ready" PROVE Line = fanouts
<1>1. fanouts \in Seq(TickFrames) /\ frames = <<>> /\ laterTicks = <<>> /\ heldTicks = <<>>
  BY DEF TicksTypeOK, Places
<1> QED
  BY <1>1, ConcatEmptySeq DEF Line

LEMMA OnlyFanoutsLater ==
    ASSUME TicksTypeOK', Places', link' # "ready" PROVE Line' = fanouts'
<1>1. /\ fanouts' \in Seq(TickFrames)
      /\ frames' = <<>> /\ laterTicks' = <<>> /\ heldTicks' = <<>>
  BY DEF TicksTypeOK, Places
<1> QED
  BY <1>1, ConcatEmptySeq DEF Line

LEMMA EnterReadyTypes ==
    ASSUME TicksTypeOK, Places, InOrder, BucketInOrder, EnterReady PROVE TicksTypeOK'
<1>1. \A s \in Streams : FirstAhead(s) \in 1..MaxDeltas + 1
  BY OnlyFanouts, FirstAheadIs DEF EnterReady
<1>2. start' \in [Streams -> 1..MaxDeltas + 1]
  BY <1>1 DEF EnterReady
<1>3. got' \in [Streams -> Seq(Deltas)]
  <2>1. <<>> \in Seq(Deltas)
    OBVIOUS
  <2> QED
    BY <2>1 DEF EnterReady, Silent
<1>4. links' \in 0..MaxLinks
  BY TicksAssumption DEF EnterReady, TicksTypeOK
<1> QED
  BY <1>2, <1>3, <1>4 DEF EnterReady, TicksTypeOK, tickSide

LEMMA NextTypes ==
    ASSUME TextInv, [TicksNext]_tickVars PROVE TicksTypeOK'
<1> USE DEF TextInv
<1>1. ASSUME NEW s \in Streams, AddDelta(s) PROVE TicksTypeOK'
  BY <1>1, AddDeltaTypes
<1>2. ASSUME NEW s \in Streams, Fire(s) PROVE TicksTypeOK'
  BY <1>2, FireTypes
<1>3. CASE FanOut
  BY <1>3, FanOutTypes
<1>4. CASE Release
  <2>1. laterTicks \o heldTicks \in Seq(TickFrames) /\ <<>> \in Seq(TickFrames)
    BY ConcatProperties DEF TicksTypeOK
  <2> QED
    BY <1>4, <2>1 DEF Release, TicksTypeOK, tickSide
<1>5. CASE EndRequest
  <2>1. /\ frames' \in Seq(TickFrames) /\ link' \in {"off", "ready", "closing"}
        /\ <<>> \in Seq(TickFrames)
    BY <1>5, PutTypes DEF EndRequest, TicksTypeOK
  <2> QED
    BY <1>5, <2>1 DEF EndRequest, TicksTypeOK, tickSide
<1>6. CASE SendTick
  BY <1>6, SendTickTypes
<1>7. CASE EnterReady
  BY <1>7, EnterReadyTypes
<1>8. CASE Detach
  <2>1. <<>> \in Seq(TickFrames)
    OBVIOUS
  <2> QED
    BY <1>8, <2>1 DEF Detach, TicksTypeOK, tickSide
<1>9. ASSUME NEW r \in {"sync", "call"}, BeginRequest(r) PROVE TicksTypeOK'
  BY <1>9, TicksAssumption DEF BeginRequest, TicksTypeOK, tickSide
<1>10. CASE UNCHANGED tickVars
  BY <1>10 DEF TicksTypeOK, tickVars, tickSide
<1> QED
  BY <1>1, <1>2, <1>3, <1>4, <1>5, <1>6, <1>7, <1>8, <1>9, <1>10 DEF TicksNext

LEMMA NextPlaces ==
    ASSUME TextInv, [TicksNext]_tickVars PROVE Places'
<1> USE DEF TextInv
<1>1. ASSUME NEW s \in Streams, AddDelta(s) PROVE Places'
  BY <1>1 DEF AddDelta, Arm, Merge, Places, TicksTypeOK
<1>2. ASSUME NEW s \in Streams, Fire(s) PROVE Places'
  BY <1>2 DEF Fire, Places, TicksTypeOK
<1>3. CASE FanOut
  BY <1>3, FanOutCases DEF Places, TicksTypeOK
<1>4. CASE Release
  BY <1>4 DEF Release, Places, tickSide
<1>5. CASE EndRequest
  BY <1>5 DEF EndRequest, Put, Places, tickSide
<1>6. CASE SendTick
  BY <1>6 DEF SendTick, Places, tickSide
<1>7. CASE EnterReady
  BY <1>7 DEF EnterReady, Places, tickSide
<1>8. CASE Detach
  BY <1>8 DEF Detach, Places, tickSide
<1>9. ASSUME NEW r \in {"sync", "call"}, BeginRequest(r) PROVE Places'
  BY <1>9 DEF BeginRequest, Places, tickSide
<1>10. CASE UNCHANGED tickVars
  BY <1>10 DEF Places, tickVars, tickSide
<1> QED
  BY <1>1, <1>2, <1>3, <1>4, <1>5, <1>6, <1>7, <1>8, <1>9, <1>10 DEF TicksNext

-----------------------------------------------------------------------------
(* How each step changes the line.                                          *)

LEMMA SameLine ==
    ASSUME TextInv, TicksTypeOK', Line' = Line,
           UNCHANGED <<streamed, buckets>>, link' = "ready" => link = "ready" /\ UNCHANGED <<got, start>>
    PROVE  InOrder' /\ BucketInOrder' /\ Reaches'
BY DEF TextInv, InOrder, BucketInOrder, Reaches, OnWay, Needs

LEMMA HeadMoves ==
    ASSUME NEW S, NEW a \in Seq(S), NEW b \in Seq(S), b # <<>>
    PROVE  /\ Append(a, Head(b)) \o Tail(b) = a \o b
           /\ (a \o <<Head(b)>>) \o Tail(b) = a \o b
<1>1. Head(b) \in S /\ Tail(b) \in Seq(S) /\ <<Head(b)>> \in Seq(S)
  BY HeadTailProperties
<1>2. <<Head(b)>> \o Tail(b) = b
  <2>1. /\ <<Head(b)>> \o Tail(b) \in Seq(S)
        /\ Len(<<Head(b)>> \o Tail(b)) = 1 + Len(Tail(b))
        /\ \A i \in 1..1 + Len(Tail(b)) : (<<Head(b)>> \o Tail(b))[i] =
               IF i <= 1 THEN Head(b) ELSE Tail(b)[i - 1]
    <3>1. Len(<<Head(b)>>) = 1 /\ \A i \in 1..1 : <<Head(b)>>[i] = Head(b)
      OBVIOUS
    <3> QED
      BY <1>1, <3>1, ConcatProperties, LenProperties
  <2>2. /\ Len(Tail(b)) = Len(b) - 1 /\ \A i \in 1..Len(Tail(b)) : Tail(b)[i] = b[i + 1]
        /\ Len(b) \in Nat /\ Head(b) = b[1]
    BY HeadTailProperties, LenProperties
  <2> QED
    BY <2>1, <2>2, SeqEqual
<1>3. (a \o <<Head(b)>>) \o Tail(b) = a \o b
  BY <1>1, <1>2, ConcatAssociative
<1> QED
  BY <1>1, <1>3, AppendIsConcat

(* The fan-outs are the back of the line.                                   *)
LEMMA BackOfLine ==
    ASSUME TicksTypeOK
    PROVE  \E k \in Nat :
               /\ Drops(fanouts, Line, k)
               /\ fanouts # <<>> => Drops(Tail(fanouts), Line, k + 1)
<1> DEFINE front == frames \o (laterTicks \o heldTicks)
<1>1. front \in Seq(TickFrames) /\ fanouts \in Seq(TickFrames)
  BY ConcatProperties DEF TicksTypeOK
<1>2. Line = front \o fanouts
  <2>1. /\ frames \in Seq(TickFrames) /\ laterTicks \in Seq(TickFrames)
        /\ heldTicks \in Seq(TickFrames)
    BY DEF TicksTypeOK
  <2>2. laterTicks \o heldTicks \in Seq(TickFrames)
    BY <2>1, ConcatProperties
  <2>3. (laterTicks \o heldTicks) \o fanouts = laterTicks \o (heldTicks \o fanouts)
    BY <1>1, <2>1, ConcatAssociative
  <2>4. (frames \o (laterTicks \o heldTicks)) \o fanouts
            = frames \o ((laterTicks \o heldTicks) \o fanouts)
    <3> DEFINE mid == laterTicks \o heldTicks
    <3>1. mid \in Seq(TickFrames) /\ frames \in Seq(TickFrames) /\ fanouts \in Seq(TickFrames)
      BY <1>1, <2>1, <2>2
    <3> HIDE DEF mid
    <3>2. (frames \o mid) \o fanouts = frames \o (mid \o fanouts)
      BY <3>1, ConcatAssociative
    <3> QED
      BY <3>2 DEF mid
  <2> QED
    BY <2>3, <2>4 DEF Line
<1> HIDE DEF front
<1>3. Len(front) \in Nat /\ Len(fanouts) \in Nat
  BY <1>1, LenProperties
<1>4. Drops(fanouts, Line, Len(front))
  BY <1>1, <1>2, <1>3, ConcatProperties DEF Drops
<1>5. ASSUME fanouts # <<>> PROVE Drops(Tail(fanouts), Line, Len(front) + 1)
  <2>1. /\ Len(Tail(fanouts)) = Len(fanouts) - 1
        /\ \A i \in 1..Len(Tail(fanouts)) : Tail(fanouts)[i] = fanouts[i + 1]
    BY <1>1, <1>5, HeadTailProperties
  <2> QED
    BY <1>3, <1>4, <2>1 DEF Drops
<1> QED
  BY <1>3, <1>4, <1>5

LEMMA FanOutLine ==
    ASSUME TextInv, TicksTypeOK', Places', FanOut
    PROVE  \/ Line' = Line /\ UNCHANGED link
           \/ link' # "ready" /\ \E k \in Nat : Drops(Line', Line, k)
<1> USE DEF TextInv
<1>1. fanouts # <<>> /\ fanouts' = Tail(fanouts)
  BY FanOutCases
<1>2. /\ frames \in Seq(TickFrames) /\ laterTicks \in Seq(TickFrames)
      /\ heldTicks \in Seq(TickFrames) /\ fanouts \in Seq(TickFrames)
  BY DEF TicksTypeOK
<1>3. Head(fanouts) \in TickFrames /\ Tail(fanouts) \in Seq(TickFrames)
  BY <1>1, <1>2, HeadTailProperties
<1>8. \A a \in Seq(TickFrames) :
          /\ Append(a, Head(fanouts)) \o Tail(fanouts) = a \o fanouts
          /\ (a \o <<Head(fanouts)>>) \o Tail(fanouts) = a \o fanouts
  BY <1>1, <1>2, HeadMoves
<1>4. CASE link' # "ready"
  <2>1. Line' = Tail(fanouts)
    BY <1>1, <1>4, OnlyFanoutsLater
  <2> QED
    BY <1>1, <1>4, <2>1, BackOfLine
<1>5. CASE link' = "ready" /\ request = "sync"
  <2>1. heldTicks' = Append(heldTicks, Head(fanouts)) /\ UNCHANGED <<laterTicks, frames, link>>
    BY <1>5, FanOutCases
  <2> QED
    BY <1>1, <1>2, <2>1, <1>8 DEF Line
<1>6. CASE link' = "ready" /\ request = "call"
  <2>1. laterTicks' = Append(laterTicks, Head(fanouts)) /\ UNCHANGED <<heldTicks, frames, link>>
    BY <1>6, FanOutCases
  <2>2. heldTicks = <<>> /\ heldTicks \o fanouts = fanouts /\ heldTicks' \o fanouts' = Tail(fanouts)
    BY <1>1, <1>2, <1>3, <1>6, <2>1, ConcatEmptySeq DEF Places
  <2> QED
    BY <1>1, <1>2, <2>1, <2>2, <1>8 DEF Line
<1>7. CASE link' = "ready" /\ request \notin {"sync", "call"}
  <2>1. frames' = frames \o <<Head(fanouts)>> /\ UNCHANGED <<heldTicks, laterTicks, link>>
    BY <1>7, FanOutCases
  <2>2. /\ laterTicks \o (heldTicks \o fanouts) = fanouts
        /\ laterTicks' \o (heldTicks' \o fanouts') = Tail(fanouts)
    BY <1>1, <1>2, <1>3, <1>7, <2>1, ConcatEmptySeq DEF Places
  <2> QED
    BY <1>1, <1>2, <2>1, <2>2, <1>8 DEF Line
<1> QED
  BY <1>4, <1>5, <1>6, <1>7

LEMMA RequestLine ==
    ASSUME TextInv, TicksTypeOK', Places', Release \/ EndRequest
    PROVE  \/ Line' = Line /\ UNCHANGED link
           \/ link' # "ready" /\ \E k \in Nat : Drops(Line', Line, k)
<1> USE DEF TextInv
<1>1. /\ frames \in Seq(TickFrames) /\ laterTicks \in Seq(TickFrames)
      /\ heldTicks \in Seq(TickFrames) /\ fanouts \in Seq(TickFrames)
  BY DEF TicksTypeOK
<1>2. CASE link' # "ready"
  <2>1. Line' = fanouts
    BY <1>2, OnlyFanoutsLater DEF Release, EndRequest, tickSide
  <2> QED
    BY <1>2, <2>1, BackOfLine
<1>3. CASE Release
  <2>1. laterTicks = <<>> /\ UNCHANGED <<frames, fanouts, link>>
    BY <1>3 DEF Release, Places, tickSide
  <2>2. laterTicks' = heldTicks /\ heldTicks' = <<>>
    BY <1>1, <1>3, <2>1, ConcatEmptySeq DEF Release
  <2>3. /\ laterTicks \o (heldTicks \o fanouts) = heldTicks \o fanouts
        /\ laterTicks' \o (heldTicks' \o fanouts') = heldTicks \o fanouts
    BY <1>1, <2>1, <2>2, ConcatEmptySeq, ConcatProperties
  <2> QED
    BY <2>1, <2>3 DEF Line
<1>4. CASE EndRequest /\ link' = "ready"
  <2>1. heldTicks = <<>> /\ UNCHANGED <<heldTicks, fanouts, link>>
    BY <1>4 DEF EndRequest, Put, Places, tickSide
  <2>2. frames' = frames \o laterTicks /\ laterTicks' = <<>>
    BY <1>4 DEF EndRequest, Put
  <2>3. heldTicks \o fanouts = fanouts /\ laterTicks' \o (heldTicks' \o fanouts') = fanouts
    BY <1>1, <2>1, <2>2, ConcatEmptySeq
  <2>4. frames \o (laterTicks \o fanouts) = (frames \o laterTicks) \o fanouts
    <3>1. (frames \o laterTicks) \o fanouts = frames \o (laterTicks \o fanouts)
      BY <1>1, ConcatAssociative
    <3> QED
      BY <3>1
  <2> QED
    BY <2>1, <2>2, <2>3, <2>4 DEF Line
<1> QED
  BY <1>2, <1>3, <1>4

LEMMA SendTickLine ==
    ASSUME TextInv, SendTick
    PROVE  /\ Line # <<>> /\ Head(frames) = Line[1] /\ Drops(Line', Line, 1)
           /\ UNCHANGED link /\ 1 \in DOMAIN Line
<1> DEFINE rest == laterTicks \o (heldTicks \o fanouts)
<1>1. frames \in Seq(TickFrames) /\ frames # <<>> /\ rest \in Seq(TickFrames)
  BY ConcatProperties DEF SendTick, TextInv, TicksTypeOK
<1>2. Line = frames \o rest /\ Line' = Tail(frames) \o rest
  BY DEF Line, SendTick, tickSide
<1> HIDE DEF rest
<1>3. /\ Tail(frames) \in Seq(TickFrames) /\ Len(Tail(frames)) = Len(frames) - 1
      /\ \A i \in 1..Len(Tail(frames)) : Tail(frames)[i] = frames[i + 1]
      /\ Len(frames) \in Nat /\ Len(rest) \in Nat /\ Len(frames) > 0
  BY <1>1, HeadTailProperties, LenProperties, EmptySeq
<1>4. /\ Line \in Seq(TickFrames) /\ Len(Line) = Len(frames) + Len(rest)
      /\ \A i \in 1..Len(frames) + Len(rest) :
             Line[i] = IF i <= Len(frames) THEN frames[i] ELSE rest[i - Len(frames)]
  BY <1>1, <1>2, ConcatProperties
<1>5. /\ Len(Line') = Len(frames) - 1 + Len(rest)
      /\ \A i \in 1..Len(frames) - 1 + Len(rest) : Line'[i] =
             IF i <= Len(frames) - 1 THEN frames[i + 1] ELSE rest[i - (Len(frames) - 1)]
  <2>1. /\ Len(Tail(frames) \o rest) = Len(Tail(frames)) + Len(rest)
        /\ \A i \in 1..Len(Tail(frames)) + Len(rest) : (Tail(frames) \o rest)[i] =
               IF i <= Len(Tail(frames)) THEN Tail(frames)[i] ELSE rest[i - Len(Tail(frames))]
    BY <1>1, <1>3, ConcatProperties
  <2> QED
    BY <1>2, <1>3, <2>1
<1>6. Drops(Line', Line, 1)
  <2>1. Len(Line') = Len(Line) - 1 /\ Len(Line') \in Nat
    BY <1>3, <1>4, <1>5
  <2>2. ASSUME NEW i \in 1..Len(Line') PROVE Line'[i] = Line[i + 1]
    <3>1. i \in 1..Len(frames) - 1 + Len(rest) /\ i + 1 \in 1..Len(frames) + Len(rest)
      BY <1>3, <1>5, <2>1
    <3>2. CASE i <= Len(frames) - 1
      BY <1>3, <1>4, <1>5, <3>1, <3>2
    <3>3. CASE ~(i <= Len(frames) - 1)
      <4>1. ~(i + 1 <= Len(frames)) /\ i + 1 - Len(frames) = i - (Len(frames) - 1)
        BY <1>3, <3>1, <3>3
      <4>2. Line'[i] = rest[i - (Len(frames) - 1)]
        BY <1>5, <3>1, <3>3
      <4>3. Line[i + 1] = rest[i + 1 - Len(frames)]
        BY <1>4, <3>1, <4>1
      <4> QED
        BY <4>1, <4>2, <4>3
    <3> QED
      BY <3>2, <3>3
  <2> QED
    BY <2>1, <2>2 DEF Drops
<1>7. Head(frames) = Line[1] /\ 1 \in DOMAIN Line /\ Line # <<>>
  <2>1. Head(frames) = frames[1]
    BY <1>1, <1>3
  <2>2. DOMAIN Line = 1..Len(Line)
    BY <1>4, LenProperties
  <2> QED
    BY <1>3, <1>4, <2>1, <2>2
<1> QED
  BY <1>6, <1>7 DEF SendTick

(* A step that adds no text and takes none from a client that stays.          *)
LEMMA LineGoesOn ==
    ASSUME TextInv, TicksTypeOK', UNCHANGED <<streamed, buckets, got, start>>,
           \/ Line' = Line /\ (link' = "ready" => link = "ready")
           \/ link' # "ready" /\ \E k \in Nat : Drops(Line', Line, k)
    PROVE  InOrder' /\ BucketInOrder' /\ Reaches'
<1>1. CASE Line' = Line /\ (link' = "ready" => link = "ready")
  BY <1>1 DEF TextInv, InOrder, BucketInOrder, Reaches, OnWay, Needs
<1>2. CASE link' # "ready" /\ \E k \in Nat : Drops(Line', Line, k)
  BY <1>2, FrontGoes DEF TextInv, Reaches
<1> QED
  BY <1>1, <1>2

-----------------------------------------------------------------------------
(* A delta is added, a text is fanned out, a text is sent.                    *)

LEMMA RowGrows ==
    ASSUME NEW t \in Seq(Nat), NEW n \in Nat, t # <<>> => InRow(t) /\ t[1] + Len(t) = n
    PROVE  \A u : u = Append(t, n) =>
               /\ u # <<>> /\ Len(u) = Len(t) + 1 /\ InRow(u) /\ u[1] \in Nat /\ u[1] <= n
               /\ u[1] + Len(u) = n + 1 /\ (t = <<>> => u[1] = n) /\ (t # <<>> => u[1] = t[1])
<1> TAKE u
<1> HAVE u = Append(t, n)
<1>1. /\ u \in Seq(Nat) /\ u # <<>> /\ Len(u) = Len(t) + 1 /\ u[Len(t) + 1] = n
      /\ \A i \in 1..Len(t) : u[i] = t[i]
  BY AppendProperties
<1>2. Len(t) \in Nat /\ DOMAIN u = 1..Len(t) + 1 /\ DOMAIN t = 1..Len(t)
  BY <1>1, LenProperties
<1>3. CASE t = <<>>
  BY <1>1, <1>2, <1>3 DEF InRow
<1>4. CASE t # <<>>
  <2>1. Len(t) > 0 /\ 1 \in 1..Len(t)
    BY <1>2, <1>4, EmptySeq
  <2>2. t[1] \in Nat /\ u[1] = t[1] /\ t[1] + Len(t) = n
    BY <1>1, <1>4, <2>1, ElementOfSeq
  <2>3. ASSUME NEW k \in DOMAIN u PROVE u[k] = u[1] + k - 1
    <3>1. CASE k \in 1..Len(t)
      <4>1. t[k] = t[1] + k - 1
        BY <1>2, <1>4, <3>1 DEF InRow
      <4> QED
        BY <1>1, <2>2, <3>1, <4>1
    <3>2. CASE k = Len(t) + 1
      BY <1>1, <1>2, <2>2, <3>2
    <3> QED
      BY <1>2, <3>1, <3>2
  <2>4. InRow(u)
    BY <2>3 DEF InRow
  <2> QED
    <3>1. u[1] \in Nat /\ u[1] <= n /\ u[1] + Len(u) = n + 1
      BY <1>1, <1>2, <2>1, <2>2
    <3> QED
      BY <1>1, <1>4, <2>2, <2>4, <3>1
<1> QED
  BY <1>3, <1>4

LEMMA AddDeltaKeeps ==
    ASSUME TextInv, TicksTypeOK', NEW s \in Streams, AddDelta(s)
    PROVE  InOrder' /\ BucketInOrder' /\ Reaches'
<1> USE DEF TextInv
<1>1. Line' = Line /\ UNCHANGED <<link, got, start>>
  BY DEF AddDelta, Line
<1>2. /\ streamed[s] \in Nat /\ streamed[s] + 1 \in Deltas
      /\ streamed' = [streamed EXCEPT ![s] = streamed[s] + 1]
      /\ buckets' = [buckets EXCEPT ![s] = Append(buckets[s], streamed[s] + 1)]
      /\ streamed'[s] = streamed[s] + 1 /\ buckets'[s] = Append(buckets[s], streamed[s] + 1)
      /\ \A r \in Streams : r # s => streamed'[r] = streamed[r] /\ buckets'[r] = buckets[r]
  BY TextTypes DEF AddDelta, Merge, TicksTypeOK, Deltas
<1>3. /\ buckets[s] \in Seq(Deltas) /\ Len(buckets[s]) \in Nat
      /\ buckets'[s] # <<>> /\ Len(buckets'[s]) = Len(buckets[s]) + 1
      /\ DOMAIN buckets'[s] = 1..Len(buckets[s]) + 1
      /\ \A i \in 1..Len(buckets[s]) : buckets'[s][i] = buckets[s][i]
      /\ buckets'[s][Len(buckets[s]) + 1] = streamed[s] + 1
  <2>1. buckets[s] \in Seq(Deltas) /\ Len(buckets[s]) \in Nat
    BY TextTypes
  <2>2. Append(buckets[s], streamed[s] + 1) \in Seq(Deltas)
    BY <1>2, <2>1, AppendProperties
  <2> QED
    BY <1>2, <2>1, <2>2, AppendProperties, LenProperties
<1>4. /\ buckets'[s][1] \in Nat /\ buckets'[s][1] <= streamed[s] + 1 /\ InRow(buckets'[s])
      /\ buckets'[s][1] + Len(buckets'[s]) = streamed[s] + 2
      /\ buckets'[s][1] = IF buckets[s] = <<>> THEN streamed[s] + 1 ELSE buckets[s][1]
  <2>1. buckets[s] \in Seq(Nat)
    BY <1>3, MaxIsNat, SeqMonotonic
  <2>2. buckets[s] # <<>> =>
            InRow(buckets[s]) /\ buckets[s][1] + Len(buckets[s]) = streamed[s] + 1
    BY DEF BucketInOrder
  <2> QED
    <3>1. PICK n \in Nat : n = streamed[s] + 1
      BY <1>2
    <3>2. /\ InRow(buckets'[s]) /\ buckets'[s][1] \in Nat /\ buckets'[s][1] <= n
          /\ buckets'[s][1] + Len(buckets'[s]) = n + 1
          /\ buckets[s] = <<>> => buckets'[s][1] = n
          /\ buckets[s] # <<>> => buckets'[s][1] = buckets[s][1]
      <4>1. buckets'[s] = Append(buckets[s], n)
        BY <1>2, <3>1
      <4>2. buckets[s] # <<>> => InRow(buckets[s]) /\ buckets[s][1] + Len(buckets[s]) = n
        BY <2>2, <3>1
      <4>3. PICK t \in Seq(Nat) : t = buckets[s]
        BY <2>1
      <4>4. t # <<>> => InRow(t) /\ t[1] + Len(t) = n
        BY <4>2, <4>3
      <4>5. \A u : u = Append(t, n) =>
                /\ u # <<>> /\ Len(u) = Len(t) + 1 /\ InRow(u) /\ u[1] \in Nat /\ u[1] <= n
                /\ u[1] + Len(u) = n + 1 /\ (t = <<>> => u[1] = n) /\ (t # <<>> => u[1] = t[1])
        BY <3>1, <4>4, RowGrows
      <4> QED
        BY <4>1, <4>3, <4>5
    <3> QED
      BY <1>2, <3>1, <3>2
<1>5. ASSUME NEW r \in Streams, NEW n \in Deltas, OnWay(r, n) \/ (r = s /\ n = streamed[s] + 1)
      PROVE  OnWay(r, n)'
  <2>1. CASE OnWay(r, n) /\ ~Carries(buckets[r], n)
    BY <1>1, <2>1 DEF OnWay
  <2>2. CASE Carries(buckets[r], n) /\ r # s
    BY <1>2, <2>2 DEF OnWay
  <2>3. CASE Carries(buckets[s], n) /\ r = s
    <3>1. /\ buckets[s] # <<>> /\ buckets[s][1] <= n /\ n < buckets[s][1] + Len(buckets[s])
          /\ buckets[s][1] \in Nat /\ n \in Nat
      BY <2>3, MaxIsNat, TextTypes DEF Carries
    <3>2. Carries(buckets'[s], n)
      BY <1>3, <1>4, <3>1 DEF Carries
    <3> QED
      BY <2>3, <3>2 DEF OnWay
  <2>4. CASE r = s /\ n = streamed[s] + 1
    <3>1. Carries(buckets'[s], n)
      BY <1>2, <1>3, <1>4, <2>4 DEF Carries
    <3> QED
      BY <2>4, <3>1 DEF OnWay
  <2> QED
    BY <1>5, <2>1, <2>2, <2>3, <2>4
<1>6. \A i \in DOMAIN Line : /\ Line[i].of \in Streams /\ Line[i].text # <<>>
                             /\ Line[i].text[1] \in Nat /\ Len(Line[i].text) \in Nat
  BY LineType, MaxIsNat DEF InOrder
<1>7. \A r \in Streams : streamed[r] \in Nat /\ streamed[r] <= streamed'[r]
  BY <1>2, TextTypes
<1>8. \A r \in Streams, n \in Deltas :
          n <= streamed'[r] => n <= streamed[r] \/ (r = s /\ n = streamed[s] + 1)
  BY <1>2, <1>7, MaxIsNat
<1>9. InOrder'
  <2>1. ASSUME NEW i \in DOMAIN Line, NEW n \in Deltas,
               Line[i].text[1] <= n, n <= streamed'[Line[i].of]
        PROVE  OnWay(Line[i].of, n)'
    <3>1. PICK r \in Streams : r = Line[i].of
      BY <1>6
    <3>2. OnWay(r, n) \/ (r = s /\ n = streamed[s] + 1)
      BY <1>8, <2>1, <3>1 DEF InOrder
    <3>3. OnWay(r, n)'
      BY <1>5, <3>2
    <3> QED
      BY <1>1, <3>1, <3>3 DEF OnWay
  <2>2. \A i \in DOMAIN Line :
            Line[i].text[1] + Len(Line[i].text) <= streamed'[Line[i].of] + 1
    <3> SUFFICES ASSUME NEW i \in DOMAIN Line
                 PROVE  Line[i].text[1] + Len(Line[i].text) <= streamed'[Line[i].of] + 1
      OBVIOUS
    <3>1. PICK r \in Streams : r = Line[i].of
      BY <1>6
    <3>2. Line[i].text[1] + Len(Line[i].text) <= streamed[r] + 1
      BY <3>1 DEF InOrder
    <3> DEFINE end == Line[i].text[1] + Len(Line[i].text)
               now == streamed[r]
               new == streamed'[r]
    <3>3. new \in Nat /\ now \in Nat /\ end \in Nat /\ now <= new /\ end <= now + 1
      BY <1>2, <1>6, <1>7, <3>2
    <3> HIDE DEF end, now, new
    <3>4. end <= new + 1
      BY <3>3
    <3> QED
      BY <3>1, <3>4 DEF end, new
  <2> QED
    BY <1>1, <2>1, <2>2 DEF InOrder
<1>10. BucketInOrder'
  <2>1. ASSUME NEW r \in Streams, r # s, buckets'[r] # <<>>
        PROVE  /\ InRow(buckets'[r]) /\ buckets'[r][1] + Len(buckets'[r]) = streamed'[r] + 1
               /\ \A i \in DOMAIN Line : Line[i].of = r
                     => Line[i].text[1] + Len(Line[i].text) <= buckets'[r][1]
    BY <1>2, <2>1 DEF BucketInOrder
  <2>2. ASSUME NEW i \in DOMAIN Line, Line[i].of = s
        PROVE  Line[i].text[1] + Len(Line[i].text) <= buckets'[s][1]
    BY <1>4, <2>2 DEF InOrder, BucketInOrder
  <2>3. buckets'[s][1] + Len(buckets'[s]) = streamed'[s] + 1
    BY <1>2, <1>4
  <2> QED
    BY <1>1, <1>4, <2>1, <2>2, <2>3 DEF BucketInOrder
<1>11. Reaches'
  <2> SUFFICES ASSUME link = "ready", NEW r \in Streams
               PROVE  /\ \A i \in DOMAIN got[r] : got[r][i] = start[r] + i - 1
                      /\ Needs(r) <= streamed'[r] + 1
                      /\ \A n \in Deltas : Needs(r) <= n /\ n <= streamed'[r] => OnWay(r, n)'
                      /\ \A i \in DOMAIN Line : Line[i].of = r => Needs(r) <= Line[i].text[1]
                      /\ buckets'[r] # <<>> => Needs(r) <= buckets'[r][1]
    BY <1>1 DEF Reaches, Needs
  <2>1. Needs(r) \in Nat /\ Needs(r) <= streamed[r] + 1
    BY TextTypes DEF Reaches
  <2>2. Needs(r) <= streamed'[r] + 1
    BY <1>2, <1>7, <2>1
  <2>3. \A n \in Deltas : Needs(r) <= n /\ n <= streamed'[r] => OnWay(r, n)'
    BY <1>5, <1>8 DEF Reaches
  <2>4. buckets'[r] # <<>> => Needs(r) <= buckets'[r][1]
    BY <1>2, <1>4, <2>1 DEF Reaches
  <2> QED
    BY <2>2, <2>3, <2>4 DEF Reaches
<1> QED
  BY <1>9, <1>10, <1>11

LEMMA FireKeeps ==
    ASSUME TextInv, TicksTypeOK', NEW s \in Streams, Fire(s)
    PROVE  InOrder' /\ BucketInOrder' /\ Reaches'
<1> USE DEF TextInv
<1> DEFINE f == [of |-> s, text |-> buckets[s]]
<1>1. /\ UNCHANGED <<link, got, start, streamed>> /\ buckets'[s] = <<>>
      /\ \A r \in Streams : r # s => buckets'[r] = buckets[r]
  BY DEF Fire, TicksTypeOK
<1>2. CASE buckets[s] = <<>>
  <2>1. Line' = Line /\ buckets' = buckets
    BY <1>2 DEF Fire, Line, TicksTypeOK
  <2> QED
    BY <1>1, <2>1, LineGoesOn
<1>3. CASE buckets[s] # <<>>
  <2>1. /\ buckets[s] \in Seq(Deltas) /\ buckets[s][1] \in Nat /\ Len(buckets[s]) \in Nat
        /\ InRow(buckets[s]) /\ buckets[s][1] + Len(buckets[s]) = streamed[s] + 1
    BY <1>3, TextTypes, MaxIsNat DEF BucketInOrder
  <2>2. f \in TickFrames /\ f.of = s /\ f.text = buckets[s]
    BY <2>1, FrameType
  <2>3. Line' = Append(Line, f)
    <3>1. /\ frames \in Seq(TickFrames) /\ laterTicks \in Seq(TickFrames)
          /\ heldTicks \in Seq(TickFrames) /\ fanouts \in Seq(TickFrames)
      BY DEF TicksTypeOK
    <3>2. \A a, b \in Seq(TickFrames) : a \o Append(b, f) = Append(a \o b, f)
      <4> SUFFICES ASSUME NEW a \in Seq(TickFrames), NEW b \in Seq(TickFrames)
                   PROVE  a \o Append(b, f) = Append(a \o b, f)
        OBVIOUS
      <4>1. <<f>> \in Seq(TickFrames) /\ a \o b \in Seq(TickFrames)
        BY <2>2, ConcatProperties
      <4>2. (a \o b) \o <<f>> = a \o (b \o <<f>>)
        BY <4>1, ConcatAssociative
      <4> QED
        BY <2>2, <4>1, <4>2, AppendIsConcat
    <3>3. UNCHANGED <<frames, laterTicks, heldTicks>> /\ fanouts' = Append(fanouts, f)
      BY <1>3 DEF Fire
    <3>5. heldTicks \o Append(fanouts, f) = Append(heldTicks \o fanouts, f)
      BY <3>1, <3>2
    <3>4. heldTicks \o fanouts \in Seq(TickFrames) /\ laterTicks \o (heldTicks \o fanouts) \in Seq(TickFrames)
      BY <3>1, ConcatProperties
    <3>6. laterTicks \o Append(heldTicks \o fanouts, f)
              = Append(laterTicks \o (heldTicks \o fanouts), f)
      BY <3>1, <3>2, <3>4
    <3>7. frames \o Append(laterTicks \o (heldTicks \o fanouts), f) = Append(Line, f)
      BY <3>1, <3>2, <3>4 DEF Line
    <3>8. Line' = frames \o (laterTicks \o (heldTicks \o Append(fanouts, f)))
      BY <3>3 DEF Line
    <3> QED
      BY <3>5, <3>6, <3>7, <3>8, Zenon
  <2> HIDE DEF f
  <2>4. /\ Len(Line) \in Nat /\ DOMAIN Line = 1..Len(Line) /\ DOMAIN Line' = 1..Len(Line) + 1
        /\ Len(Line') = Len(Line) + 1
        /\ \A i \in DOMAIN Line : Line'[i] = Line[i] /\ i \in DOMAIN Line' /\ i < Len(Line) + 1
        /\ Line'[Len(Line) + 1] = f
    BY <2>2, <2>3, LineType, LineTypeLater, AppendProperties
  <2>5. \A i \in DOMAIN Line' : i \in DOMAIN Line \/ i = Len(Line) + 1
    BY <2>4
  <2>6. ASSUME NEW r \in Streams, NEW n \in Deltas, OnWay(r, n) PROVE OnWay(r, n)'
    <3>1. CASE Carries(buckets[r], n) /\ r # s
      BY <1>1, <3>1 DEF OnWay
    <3>2. CASE Carries(buckets[s], n) /\ r = s
      <4>1. Len(Line) + 1 \in DOMAIN Line' /\ Line'[Len(Line) + 1].of = s
            /\ Line'[Len(Line) + 1].text = buckets[s]
        BY <2>2, <2>4
      <4> QED
        BY <3>2, <4>1 DEF OnWay
    <3>3. CASE \E i \in DOMAIN Line : Line[i].of = r /\ Carries(Line[i].text, n)
      BY <2>4, <3>3 DEF OnWay
    <3> QED
      BY <2>6, <3>1, <3>2, <3>3 DEF OnWay
  <2>7. \A i \in DOMAIN Line : Line[i].of \in Streams
    BY <2>4, LineType
  <2>8. InOrder'
    <3>1. \A i \in DOMAIN Line' : Line'[i].text # <<>> /\ InRow(Line'[i].text)
      BY <1>3, <2>1, <2>2, <2>4, <2>5 DEF InOrder
    <3>2. ASSUME NEW i \in DOMAIN Line', NEW j \in DOMAIN Line', i < j, Line'[i].of = Line'[j].of
          PROVE  Line'[i].text[1] + Len(Line'[i].text) <= Line'[j].text[1]
      <4>1. i \in DOMAIN Line
        BY <2>4, <2>5, <3>2
      <4>2. CASE j \in DOMAIN Line
        BY <2>4, <3>2, <4>1, <4>2 DEF InOrder
      <4>3. CASE j = Len(Line) + 1
        BY <1>3, <2>2, <2>4, <3>2, <4>1, <4>3 DEF BucketInOrder
      <4> QED
        BY <2>5, <4>2, <4>3
    <3>3. ASSUME NEW i \in DOMAIN Line', NEW n \in Deltas,
                 Line'[i].text[1] <= n, n <= streamed'[Line'[i].of]
          PROVE  OnWay(Line[i].of, n)'
      <4>1. PICK r \in Streams : r = Line'[i].of
        BY <2>2, <2>4, <2>5, <2>7
      <4>2. CASE i \in DOMAIN Line
        <5>1. OnWay(r, n)
          BY <1>1, <2>4, <3>3, <4>1, <4>2 DEF InOrder
        <5>2. OnWay(r, n)'
          BY <2>6, <5>1
        <5> QED
          BY <4>1, <5>2 DEF OnWay
      <4>3. CASE i = Len(Line) + 1
        <5>1. Line'[i].text = buckets[s] /\ Line'[i].of = s
          BY <2>2, <2>4, <4>3
        <5>2. Carries(Line'[i].text, n)
          BY <1>1, <1>3, <2>1, <3>3, <5>1, TextTypes, MaxIsNat DEF Carries
        <5> QED
          BY <5>2 DEF OnWay
      <4> QED
        BY <2>5, <4>2, <4>3
    <3>4. \A i \in DOMAIN Line' :
              Line'[i].text[1] + Len(Line'[i].text) <= streamed'[Line'[i].of] + 1
      <4>1. Line'[Len(Line) + 1].text = buckets[s] /\ Line'[Len(Line) + 1].of = s
        BY <2>2, <2>4
      <4>2. streamed[s] \in Nat
        BY TextTypes
      <4>3. ASSUME NEW i \in DOMAIN Line' PROVE Line'[i].text[1] + Len(Line'[i].text) <= streamed'[Line'[i].of] + 1
        <5>1. CASE i \in DOMAIN Line
          BY <1>1, <2>4, <5>1 DEF InOrder
        <5>2. CASE i = Len(Line) + 1
          BY <1>1, <2>1, <4>1, <4>2, <5>2
        <5> QED
          BY <2>5, <5>1, <5>2
      <4> QED
        BY <4>3
    <3> QED
      BY <3>1, <3>2, <3>3, <3>4 DEF InOrder
  <2>9. BucketInOrder'
    <3> SUFFICES ASSUME NEW r \in Streams, buckets'[r] # <<>>
                 PROVE  /\ InRow(buckets'[r])
                        /\ buckets'[r][1] + Len(buckets'[r]) = streamed'[r] + 1
                        /\ \A i \in DOMAIN Line' : Line'[i].of = r
                              => Line'[i].text[1] + Len(Line'[i].text) <= buckets'[r][1]
      BY DEF BucketInOrder
    <3>1. r # s /\ buckets'[r] = buckets[r]
      BY <1>1
    <3> QED
      BY <1>1, <2>2, <2>4, <2>5, <3>1 DEF BucketInOrder
  <2>10. Reaches'
    <3> SUFFICES ASSUME link = "ready", NEW r \in Streams
                 PROVE  /\ \A i \in DOMAIN got[r] : got[r][i] = start[r] + i - 1
                        /\ Needs(r) <= streamed[r] + 1
                        /\ \A n \in Deltas : Needs(r) <= n /\ n <= streamed[r] => OnWay(r, n)'
                        /\ \A i \in DOMAIN Line' : Line'[i].of = r => Needs(r) <= Line'[i].text[1]
                        /\ buckets'[r] # <<>> => Needs(r) <= buckets'[r][1]
      BY <1>1 DEF Reaches, Needs
    <3>1. \A n \in Deltas : Needs(r) <= n /\ n <= streamed[r] => OnWay(r, n)'
      BY <2>6 DEF Reaches
    <3>2. \A i \in DOMAIN Line' : Line'[i].of = r => Needs(r) <= Line'[i].text[1]
      BY <1>3, <2>2, <2>4, <2>5 DEF Reaches
    <3>3. buckets'[r] # <<>> => Needs(r) <= buckets'[r][1]
      BY <1>1 DEF Reaches
    <3> QED
      BY <3>1, <3>2, <3>3 DEF Reaches
  <2> QED
    BY <2>8, <2>9, <2>10
<1> QED
  BY <1>2, <1>3

LEMMA SendTickKeeps ==
    ASSUME TextInv, TicksTypeOK', SendTick
    PROVE  InOrder' /\ BucketInOrder' /\ Reaches'
<1> USE DEF TextInv
<1>1. /\ Head(frames) = Line[1] /\ Drops(Line', Line, 1) /\ 1 \in DOMAIN Line
      /\ UNCHANGED <<link, streamed, buckets, start>> /\ link = "ready"
  BY SendTickLine DEF SendTick, tickSide
<1>2. InOrder' /\ BucketInOrder'
  BY <1>1, FrontGoes
<1>3. PICK s \in Streams : s = Line[1].of
  BY <1>1, LineType
<1> DEFINE t == Line[1].text
<1>4. /\ t \in Seq(Deltas) /\ t # <<>> /\ InRow(t) /\ t[1] \in Nat /\ t[1] \in Deltas
      /\ Len(t) \in Nat /\ Len(t) > 0 /\ DOMAIN t = 1..Len(t)
  <2>1. t # <<>> /\ InRow(t)
    BY <1>1 DEF InOrder
  <2> QED
    BY <1>1, <2>1, LineType, MaxIsNat
<1>5. t[1] + Len(t) <= streamed[s] + 1 /\ streamed[s] \in Nat /\ streamed[s] <= MaxDeltas
  BY <1>1, <1>3, TextTypes DEF InOrder
<1>6. \A i \in DOMAIN Line' : /\ i + 1 \in DOMAIN Line /\ Line'[i] = Line[i + 1] /\ 1 < i + 1
  <2>1. /\ Len(Line) \in Nat /\ DOMAIN Line = 1..Len(Line)
        /\ Len(Line') \in Nat /\ DOMAIN Line' = 1..Len(Line')
    BY LineType, LineTypeLater
  <2> QED
    BY <1>1, <2>1 DEF Drops
<1>7. \A i \in DOMAIN Line : i = 1 \/ (1 < i /\ i - 1 \in DOMAIN Line' /\ Line'[i - 1] = Line[i])
  <2>1. /\ Len(Line) \in Nat /\ DOMAIN Line = 1..Len(Line)
        /\ Len(Line') \in Nat /\ DOMAIN Line' = 1..Len(Line')
    BY LineType, LineTypeLater
  <2>2. Len(Line') = Len(Line) - 1 /\ \A i \in 1..Len(Line') : Line'[i] = Line[i + 1]
    BY <1>1 DEF Drops
  <2> SUFFICES ASSUME NEW i \in DOMAIN Line, i # 1
               PROVE  1 < i /\ i - 1 \in DOMAIN Line' /\ Line'[i - 1] = Line[i]
    OBVIOUS
  <2>3. 1 < i /\ i - 1 \in 1..Len(Line') /\ i - 1 + 1 = i
    BY <2>1, <2>2
  <2> QED
    BY <2>1, <2>2, <2>3
(* What follows the first text starts behind it.                             *)
<1>8. \A i \in DOMAIN Line : 1 < i /\ Line[i].of = s =>
          t[1] + Len(t) <= Line[i].text[1] /\ Line[i].text[1] \in Nat
  <2> SUFFICES ASSUME NEW i \in DOMAIN Line, 1 < i, Line[i].of = s
               PROVE  t[1] + Len(t) <= Line[i].text[1] /\ Line[i].text[1] \in Nat
    OBVIOUS
  <2>1. Line[i].text # <<>> /\ Line[i].text[1] \in Nat
    BY LineType, MaxIsNat DEF InOrder
  <2> QED
    BY <1>1, <1>3, <2>1 DEF InOrder
<1>9. buckets[s] # <<>> => t[1] + Len(t) <= buckets[s][1] /\ buckets[s][1] \in Nat
  BY <1>1, <1>3, TextTypes, MaxIsNat DEF BucketInOrder
(* The first text is the one the client needs.                               *)
<1>10. Needs(s) = t[1]
  <2>1. Needs(s) <= t[1] /\ Needs(s) \in Nat /\ Needs(s) >= 1
    BY <1>1, <1>3, TextTypes DEF Reaches
  <2>2. Needs(s) \in Deltas /\ Needs(s) <= streamed[s]
    BY <1>4, <1>5, <2>1, MaxIsNat DEF Deltas
  <2>3. OnWay(s, Needs(s))
    BY <1>1, <1>3, <2>1, <2>2 DEF Reaches
  <2>4. CASE Carries(buckets[s], Needs(s))
    BY <1>4, <1>9, <2>1, <2>4 DEF Carries
  <2>5. CASE \E i \in DOMAIN Line : Line[i].of = s /\ Carries(Line[i].text, Needs(s))
    <3>1. PICK i \in DOMAIN Line : Line[i].of = s /\ Carries(Line[i].text, Needs(s))
      BY <2>5
    <3>2. CASE i = 1
      BY <1>4, <2>1, <3>1, <3>2 DEF Carries
    <3>3. CASE 1 < i
      BY <1>4, <1>8, <2>1, <3>1, <3>3 DEF Carries
    <3> QED
      BY <1>7, <3>2, <3>3
  <2> QED
    BY <2>3, <2>4, <2>5 DEF OnWay
<1>11. /\ got'[s] = got[s] \o t /\ got[s] \in Seq(Deltas)
       /\ \A r \in Streams : r # s => got'[r] = got[r]
  BY <1>1, <1>3, TextTypes DEF SendTick, TicksTypeOK
<1>12. /\ Len(got'[s]) = Len(got[s]) + Len(t) /\ Len(got[s]) \in Nat
       /\ DOMAIN got'[s] = 1..Len(got[s]) + Len(t)
       /\ \A i \in 1..Len(got[s]) + Len(t) :
              got'[s][i] = IF i <= Len(got[s]) THEN got[s][i] ELSE t[i - Len(got[s])]
  <2>1. got[s] \o t \in Seq(Deltas)
    BY <1>4, <1>11, ConcatProperties
  <2> HIDE DEF t
  <2> QED
    BY <1>4, <1>11, <2>1, ConcatProperties, LenProperties
<1>13. /\ start[s] \in Nat /\ Needs(s) = start[s] + Len(got[s])
       /\ Needs(s)' = t[1] + Len(t)
  <2>1. start[s] \in Nat /\ Needs(s) = start[s] + Len(got[s])
    BY TextTypes, MaxIsNat DEF Needs
  <2>2. Needs(s)' = start[s] + Len(got'[s])
    BY <1>1 DEF Needs
  <2> HIDE DEF t
  <2> QED
    BY <1>4, <1>10, <1>12, <2>1, <2>2
<1>14. \A r \in Streams : r # s => Needs(r)' = Needs(r)
  BY <1>1, <1>11 DEF Needs
<1> HIDE DEF t
<1>15. \A i \in DOMAIN got'[s] : got'[s][i] = start[s] + i - 1
  <2> SUFFICES ASSUME NEW i \in DOMAIN got'[s] PROVE got'[s][i] = start[s] + i - 1
    OBVIOUS
  <2>1. i \in 1..Len(got[s]) + Len(t)
    BY <1>12
  <2>2. CASE i <= Len(got[s])
    <3>1. got'[s][i] = got[s][i] /\ i \in DOMAIN got[s]
      BY <1>12, <2>1, <2>2, TextTypes
    <3> QED
      BY <1>1, <3>1 DEF Reaches
  <2>3. CASE ~(i <= Len(got[s]))
    <3>1. got'[s][i] = t[i - Len(got[s])] /\ i - Len(got[s]) \in DOMAIN t
      <4> DEFINE old == Len(got[s])
                 new == got'[s]
      <4>1. /\ old \in Nat /\ i \in 1..old + Len(t) /\ ~(i <= old)
            /\ \A j \in 1..old + Len(t) : new[j] = IF j <= old THEN got[s][j] ELSE t[j - old]
        BY <1>12, <2>1, <2>3
      <4>2. DOMAIN t = 1..Len(t) /\ Len(t) \in Nat
        BY <1>4
      <4> HIDE DEF old, new
      <4>3. new[i] = t[i - old] /\ i - old \in DOMAIN t
        BY <4>1, <4>2
      <4> QED
        BY <4>3 DEF old, new
    <3>2. t[i - Len(got[s])] = t[1] + (i - Len(got[s])) - 1
      BY <1>4, <3>1 DEF InRow
    <3> QED
      <4>1. t[1] = start[s] + Len(got[s]) /\ i \in Int
        BY <1>10, <1>13, <2>1
      <4> DEFINE old == Len(got[s])
                 new == got'[s]
                 at  == start[s]
      <4>2. /\ old \in Nat /\ at \in Nat /\ t[1] = at + old
            /\ new[i] = t[1] + (i - old) - 1
        BY <1>12, <1>13, <3>1, <3>2, <4>1
      <4> HIDE DEF old, new, at
      <4>3. new[i] = at + i - 1
        BY <4>1, <4>2
      <4> QED
        BY <4>3 DEF new, at
  <2> QED
    BY <2>2, <2>3
<1>16. \A n \in Deltas : t[1] + Len(t) <= n /\ n <= streamed[s] => OnWay(s, n)'
  <2> SUFFICES ASSUME NEW n \in Deltas, t[1] + Len(t) <= n, n <= streamed[s]
               PROVE  OnWay(s, n)'
    OBVIOUS
  <2>1. n \in Nat /\ Needs(s) <= n
    BY <1>4, <1>10, MaxIsNat
  <2>2. OnWay(s, n)
    BY <1>1, <2>1 DEF Reaches
  <2>3. CASE Carries(buckets[s], n)
    BY <1>1, <2>3 DEF OnWay
  <2>4. CASE \E i \in DOMAIN Line : Line[i].of = s /\ Carries(Line[i].text, n)
    <3>1. PICK i \in DOMAIN Line : Line[i].of = s /\ Carries(Line[i].text, n)
      BY <2>4
    <3>2. i # 1
      BY <1>4, <2>1, <3>1 DEF Carries, t
    <3>3. i - 1 \in DOMAIN Line' /\ Line'[i - 1] = Line[i]
      BY <1>7, <3>2
    <3> QED
      BY <3>1, <3>3 DEF OnWay
  <2> QED
    BY <2>2, <2>3, <2>4 DEF OnWay
<1>17. ASSUME NEW r \in Streams, r # s, NEW n \in Deltas, OnWay(r, n) PROVE OnWay(r, n)'
  <2>1. CASE Carries(buckets[r], n)
    BY <1>1, <2>1 DEF OnWay
  <2>2. CASE \E i \in DOMAIN Line : Line[i].of = r /\ Carries(Line[i].text, n)
    BY <1>3, <1>7, <1>17, <2>2 DEF OnWay
  <2> QED
    BY <1>17, <2>1, <2>2 DEF OnWay
<1>18. Reaches'
  <2> SUFFICES ASSUME NEW r \in Streams
               PROVE  /\ \A i \in DOMAIN got'[r] : got'[r][i] = start[r] + i - 1
                      /\ Needs(r)' <= streamed[r] + 1
                      /\ \A n \in Deltas : Needs(r)' <= n /\ n <= streamed[r] => OnWay(r, n)'
                      /\ \A i \in DOMAIN Line' : Line'[i].of = r => Needs(r)' <= Line'[i].text[1]
                      /\ buckets[r] # <<>> => Needs(r)' <= buckets[r][1]
    BY <1>1 DEF Reaches
  <2>1. CASE r = s
    <3>1. \A i \in DOMAIN Line' : Line'[i].of = s => t[1] + Len(t) <= Line'[i].text[1]
      BY <1>6, <1>8
    <3> QED
      BY <1>5, <1>9, <1>13, <1>15, <1>16, <2>1, <3>1
  <2>2. CASE r # s
    BY <1>1, <1>6, <1>11, <1>14, <1>17, <2>2 DEF Reaches
  <2> QED
    BY <2>1, <2>2
<1> QED
  BY <1>2, <1>18

LEMMA EnterReadyKeeps ==
    ASSUME TextInv, TicksTypeOK', EnterReady
    PROVE  InOrder' /\ BucketInOrder' /\ Reaches'
<1> USE DEF TextInv
<1>1. Line' = Line /\ UNCHANGED <<streamed, buckets>> /\ Line = fanouts
  BY OnlyFanouts DEF EnterReady, Line, tickSide
<1>2. InOrder' /\ BucketInOrder'
  BY <1>1 DEF InOrder, BucketInOrder, OnWay
<1>3. ASSUME NEW s \in Streams
      PROVE  got'[s] = <<>> /\ Needs(s)' = FirstAhead(s) /\ start'[s] = FirstAhead(s)
  <2>1. got'[s] = <<>> /\ start'[s] = FirstAhead(s)
    BY DEF EnterReady, Silent
  <2>2. FirstAhead(s) \in Nat /\ Len(<<>>) = 0
    BY <1>1, FirstAheadIs
  <2> QED
    BY <2>1, <2>2 DEF Needs
<1>4. Reaches'
  <2> SUFFICES ASSUME NEW s \in Streams
               PROVE  /\ \A i \in DOMAIN got'[s] : got'[s][i] = start'[s] + i - 1
                      /\ Needs(s)' <= streamed[s] + 1
                      /\ \A n \in Deltas : Needs(s)' <= n /\ n <= streamed[s] => OnWay(s, n)'
                      /\ \A i \in DOMAIN Line : Line[i].of = s => Needs(s)' <= Line[i].text[1]
                      /\ buckets[s] # <<>> => Needs(s)' <= buckets[s][1]
    BY <1>1 DEF Reaches
  <2>1. \A n \in Deltas : OnWay(s, n) => OnWay(s, n)'
    BY <1>1 DEF OnWay
  <2>2. DOMAIN got'[s] = {}
    BY <1>3
  <2>3. FirstAhead(s) <= streamed[s] + 1
    BY <1>1, FirstAheadIs, TextTypes
  <2> QED
    BY <1>1, <1>3, <2>1, <2>2, <2>3, FirstAheadIs
<1> QED
  BY <1>2, <1>4

-----------------------------------------------------------------------------
LEMMA TicksInitInv == TicksInit => TextInv
<1> SUFFICES ASSUME TicksInit PROVE TextInv
  OBVIOUS
<1>1. TicksTypeOK
  BY InitTypes
<1>2. Places
  BY DEF TicksInit, Places, Silent
<1>3. Line = <<>> /\ DOMAIN Line = {}
  <2>1. <<>> \in Seq(TickFrames)
    OBVIOUS
  <2>2. Line = <<>>
    BY <2>1, ConcatEmptySeq DEF TicksInit, Line
  <2> QED
    BY <2>2
<1>4. InOrder /\ BucketInOrder /\ Reaches
  BY <1>3 DEF TicksInit, InOrder, BucketInOrder, Reaches, Silent
<1> QED
  BY <1>1, <1>2, <1>4 DEF TextInv

LEMMA TicksNextInv == TextInv /\ [TicksNext]_tickVars => TextInv'
<1> SUFFICES ASSUME TextInv, [TicksNext]_tickVars PROVE TextInv'
  OBVIOUS
<1>1. TicksTypeOK' /\ Places'
  BY NextTypes, NextPlaces
<1>2. ASSUME NEW s \in Streams, AddDelta(s) PROVE InOrder' /\ BucketInOrder' /\ Reaches'
  BY <1>1, <1>2, AddDeltaKeeps
<1>3. ASSUME NEW s \in Streams, Fire(s) PROVE InOrder' /\ BucketInOrder' /\ Reaches'
  BY <1>1, <1>3, FireKeeps
<1>4. CASE FanOut
  BY <1>1, <1>4, FanOutCases, FanOutLine, LineGoesOn DEF TextInv
<1>5. CASE Release \/ EndRequest
  BY <1>1, <1>5, RequestLine, LineGoesOn DEF Release, EndRequest, tickSide, TextInv
<1>6. CASE SendTick
  BY <1>1, <1>6, SendTickKeeps DEF TextInv
<1>7. CASE EnterReady
  BY <1>1, <1>7, EnterReadyKeeps DEF TextInv
<1>8. CASE Detach
  <2>1. Line' = fanouts /\ link' # "ready" /\ UNCHANGED <<streamed, buckets, got, start>>
    BY <1>1, <1>8, OnlyFanoutsLater DEF Detach, tickSide
  <2>2. \E k \in Nat : Drops(Line', Line, k)
    BY <2>1, BackOfLine DEF TextInv
  <2> QED
    BY <1>1, <2>1, <2>2, LineGoesOn DEF TextInv
<1>9. ASSUME NEW r \in {"sync", "call"}, BeginRequest(r)
      PROVE  InOrder' /\ BucketInOrder' /\ Reaches'
  <2>1. Line' = Line /\ UNCHANGED <<link, streamed, buckets, got, start>>
    BY <1>9 DEF BeginRequest, Line, tickSide
  <2> QED
    BY <1>1, <2>1, LineGoesOn DEF TextInv
<1>10. CASE UNCHANGED tickVars
  <2>1. Line' = Line /\ UNCHANGED <<link, streamed, buckets, got, start>>
    BY <1>10 DEF Line, tickVars, tickSide
  <2> QED
    BY <1>1, <2>1, LineGoesOn DEF TextInv
<1> QED
  BY <1>1, <1>2, <1>3, <1>4, <1>5, <1>6, <1>7, <1>8, <1>9, <1>10 DEF TextInv, TicksNext

(* Over one connection the client gets the text of each turn without a gap, a *)
(* repeat or a swap, and all of it in the end (TickCoalescer._arm and _fire,  *)
(* Session.deliver, release_live), for every number of turns, deltas,         *)
(* requests and connections and every limit of the queue.                     *)
THEOREM TextArrivesWhole == TicksSpec => []TextIsWhole
<1>1. TextInv => TextIsWhole
  <2> SUFFICES ASSUME TextInv, link = "ready", NEW s \in Streams
               PROVE  /\ \A i \in DOMAIN got[s] : got[s][i] = start[s] + i - 1
                      /\ timers = {} /\ fanouts = <<>> /\ frames = <<>> /\ request = "none"
                             => Len(got[s]) = streamed[s] + 1 - start[s]
    BY DEF TextIsWhole
  <2>1. \A i \in DOMAIN got[s] : got[s][i] = start[s] + i - 1
    BY DEF TextInv, Reaches
  <2>2. ASSUME timers = {}, fanouts = <<>>, frames = <<>>, request = "none"
        PROVE  Len(got[s]) = streamed[s] + 1 - start[s]
    <3>1. buckets[s] = <<>> /\ laterTicks = <<>> /\ heldTicks = <<>>
      BY <2>2 DEF TextInv, Places
    <3>2. DOMAIN Line = {}
      <4>1. <<>> \in Seq(TickFrames)
        OBVIOUS
      <4>2. Line = <<>>
        BY <2>2, <3>1, <4>1, ConcatEmptySeq DEF Line
      <4> QED
        BY <4>2
    <3>3. /\ Needs(s) \in Nat /\ Needs(s) >= 1 /\ Needs(s) <= streamed[s] + 1
          /\ Needs(s) = start[s] + Len(got[s]) /\ start[s] \in Nat /\ Len(got[s]) \in Nat
          /\ streamed[s] \in 0..MaxDeltas
      BY TextTypes DEF TextInv, Reaches, Needs
    <3>4. ~(Needs(s) <= streamed[s])
      <4>1. SUFFICES ASSUME Needs(s) <= streamed[s] PROVE FALSE
        OBVIOUS
      <4>2. Needs(s) \in Deltas
        BY <3>3, <4>1, MaxIsNat DEF Deltas
      <4>3. OnWay(s, Needs(s))
        BY <3>3, <4>1, <4>2 DEF TextInv, Reaches
      <4> QED
        BY <3>1, <3>2, <4>3 DEF OnWay, Carries
    <3> QED
      BY <3>3, <3>4
  <2> QED
    BY <2>1, <2>2
<1> QED
  BY <1>1, TicksInitInv, TicksNextInv, PTL DEF TicksSpec
=============================================================================
