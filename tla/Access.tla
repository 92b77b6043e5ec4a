------------------------------- MODULE Access -------------------------------
(***************************************************************************)
(* Who may talk to the host: sessions and their handshake, pairing tickets, *)
(* paired devices and their revocation. A loopback session is the owner     *)
(* with the host's token or cookie; any other one answers a challenge with  *)
(* the key of a paired device, or spends a pairing ticket.                  *)
(*                                                                         *)
(* A single UPDATE is one step, and so is a block that begins with a write  *)
(* (pairing.complete): it holds the write lock. The awaits of the handshake *)
(* lie between steps, and a session may be closed at each of them.          *)
(***************************************************************************)
EXTENDS Naturals, FiniteSets

CONSTANTS
    Sessions, Local,  \* connections, and those from the local machine
    Devices, Tickets,
    CodeFailures,     \* TICKET_FAILURES
    HostFailures,     \* HOST_FAILURES_PER_HOUR
    MaxGuesses,       \* bound: wrong codes
    NoDevice          \* a session without a device

ASSUME NoDeviceAssumption == NoDevice \notin Devices

Scopes == {"owner", "member", "read_only"}

VARIABLES
    aPhase,    \* _Phase of each session; "off" before it connects
    open,      \* sessions that are not _closed
    refused,   \* sessions whose origin or cookie is refused
    claimed, device, scope,   \* hello.device, device_id and scope of a session
    await,     \* where its handshake or request awaits
    target,    \* the device its revoke is about
    peers,     \* hub._peers
    bound,     \* hub._device_peers: <<device, session>>
    devScope, live, revoked,  \* the devices table
    tkScope, tkOpen, tkFailures,  \* tickets neither used nor expired
    failures,  \* failed attempts of the last hour
    guesses,
    localCut   \* a loopback session has revoked a device

sessionVars == <<aPhase, open, refused, claimed, device, scope, await, target, peers, bound>>
devices == <<devScope, live, revoked>>
tickets == <<tkScope, tkOpen, tkFailures, failures, guesses>>
accessVars == <<sessionVars, devices, tickets, localCut>>

AccessTypeOK ==
    /\ aPhase \in [Sessions -> {"off", "hello", "auth", "ready", "paired"}]
    /\ open \subseteq Sessions /\ refused \subseteq Sessions
    /\ claimed \in [Sessions -> Devices \cup {NoDevice}]
    /\ device \in [Sessions -> Devices \cup {NoDevice}]
    /\ scope \in [Sessions -> Scopes]
    /\ await \in [Sessions -> {"no", "auth", "seen", "seq", "cut"}]
    /\ \A s \in Sessions : /\ await[s] = "auth" => claimed[s] \in Devices
                           /\ await[s] = "seen" => device[s] \in Devices
    /\ target \in [Sessions -> Devices \cup {NoDevice}]
    /\ peers \subseteq Sessions /\ bound \subseteq Devices \X Sessions
    /\ devScope \in [Devices -> Scopes] /\ live \subseteq Devices /\ revoked \subseteq Devices
    /\ tkScope \in [Tickets -> Scopes] /\ tkOpen \subseteq Tickets
    /\ tkFailures \in [Tickets -> Nat] /\ failures \in Nat /\ guesses \in Nat
    /\ localCut \in BOOLEAN

AccessInit ==
    /\ aPhase = [s \in Sessions |-> "off"] /\ open = {} /\ refused = {}
    /\ claimed = [s \in Sessions |-> NoDevice] /\ device = [s \in Sessions |-> NoDevice]
    /\ scope = [s \in Sessions |-> "read_only"]
    /\ await = [s \in Sessions |-> "no"] /\ target = [s \in Sessions |-> NoDevice]
    /\ peers = {} /\ bound = {}
    /\ devScope = [d \in Devices |-> "member"] /\ live = {} /\ revoked = {}
    /\ tkScope = [t \in Tickets |-> "member"] /\ tkOpen = {}
    /\ tkFailures = [t \in Tickets |-> 0] /\ failures = 0 /\ guesses = 0
    /\ localCut = FALSE

Set(f, s, v) == [f EXCEPT ![s] = v]
Idle(s) == s \in open /\ await[s] = "no"

-----------------------------------------------------------------------------
(* Session.close: the hub forgets the session, and it answers nothing more.  *)
Shut(S) ==
    /\ open' = open \ S /\ peers' = peers \ S
    /\ bound' = bound \ {<<device[s], s>> : s \in S \cap open}

(* A connection is accepted; the cookie of a local one is looked at.         *)
AcceptConnection(s) ==
    /\ aPhase[s] = "off" /\ aPhase' = Set(aPhase, s, "hello") /\ open' = open \cup {s}
    /\ UNCHANGED <<refused, claimed, device, scope, await, target, peers, bound, devices,
                   tickets, localCut>>

(* The client goes, the deadline passes, or a frame is wrong or not expected  *)
(* here.                                                                     *)
Close(s) ==
    /\ s \in open /\ Shut({s})
    /\ UNCHANGED <<aPhase, refused, claimed, device, scope, await, target, devices,
                   tickets, localCut>>

(* A closed connection whose handler has returned is forgotten.              *)
Forget(s) ==
    /\ aPhase[s] # "off" /\ s \notin open /\ await[s] = "no"
    /\ aPhase' = Set(aPhase, s, "off") /\ device' = Set(device, s, NoDevice)
    /\ claimed' = Set(claimed, s, NoDevice) /\ scope' = Set(scope, s, "read_only")
    /\ refused' = refused \ {s} /\ bound' = bound \ {<<d, s>> : d \in Devices}
    /\ UNCHANGED <<open, await, target, peers, devices, tickets, localCut>>

(* hello of a local session: the cookie, or the token comes next.            *)
HelloLocal(s) ==
    /\ s \in Local /\ Idle(s) /\ aPhase[s] = "hello"
    /\ aPhase' = Set(aPhase, s, "auth")
    /\ UNCHANGED <<open, refused, claimed, device, scope, await, target, peers, bound,
                   devices, tickets, localCut>>

(* The token is right: _enter_ready.                                         *)
Token(s) ==
    /\ s \in Local /\ Idle(s) /\ aPhase[s] = "auth"
    /\ scope' = Set(scope, s, "owner") /\ aPhase' = Set(aPhase, s, "ready")
    /\ await' = Set(await, s, "seq")
    /\ UNCHANGED <<open, refused, claimed, device, target, peers, bound, devices, tickets,
                   localCut>>

(* hello of another session: a challenge over a fresh nonce and its origin,   *)
(* or a decoy when the origin is not served.                                 *)
Challenge(s, d, served) ==
    /\ s \notin Local /\ Idle(s) /\ aPhase[s] = "hello"
    /\ aPhase' = Set(aPhase, s, "auth")
    /\ claimed' = IF served THEN Set(claimed, s, d) ELSE claimed
    /\ refused' = IF served THEN refused ELSE refused \cup {s}
    /\ UNCHANGED <<open, device, scope, await, target, peers, bound, devices, tickets, localCut>>

(* auth of a device: live_device finds it, and the signature is over this     *)
(* nonce and origin.                                                         *)
DeviceAuth(s) ==
    /\ s \notin Local \cup refused /\ Idle(s) /\ aPhase[s] = "auth"
    /\ claimed[s] \in live \ revoked
    /\ await' = Set(await, s, "auth")
    /\ UNCHANGED <<aPhase, open, refused, claimed, device, scope, target, peers, bound,
                   devices, tickets, localCut>>

(* bind_device, on what was read: the device may have been revoked and its    *)
(* sessions closed meanwhile, or this session closed.                        *)
BindDevice(s) ==
    /\ await[s] = "auth" /\ await' = Set(await, s, "seen")
    /\ device' = Set(device, s, claimed[s]) /\ bound' = bound \cup {<<claimed[s], s>>}
    /\ UNCHANGED <<aPhase, open, refused, claimed, scope, target, peers, devices, tickets,
                   localCut>>

(* Faulty variant: the device is not looked at again once it is bound.       *)
SeenUnchecked(s) ==
    /\ await[s] = "seen" /\ scope' = Set(scope, s, devScope[device[s]])
    /\ await' = Set(await, s, "seq") /\ aPhase' = Set(aPhase, s, "ready")
    /\ UNCHANGED <<open, refused, claimed, device, target, peers, bound, devices, tickets,
                   localCut>>

(* mark_seen: the device was revoked meanwhile, or the session gets ready.    *)
Seen(s) ==
    /\ await[s] = "seen"
    /\ IF device[s] \in revoked
       THEN await' = Set(await, s, "no") /\ Shut({s}) /\ UNCHANGED <<aPhase, scope>>
       ELSE /\ await' = Set(await, s, "seq") /\ aPhase' = Set(aPhase, s, "ready")
            /\ scope' = Set(scope, s, devScope[device[s]])
            /\ UNCHANGED <<open, peers, bound>>
    /\ UNCHANGED <<refused, claimed, device, target, devices, tickets, localCut>>

(* host_seq is read; a session that was closed meanwhile is not attached.     *)
AttachSession(s) ==
    /\ await[s] = "seq" /\ await' = Set(await, s, "no")
    /\ peers' = IF s \in open THEN peers \cup {s} ELSE peers
    /\ UNCHANGED <<aPhase, open, refused, claimed, device, scope, target, bound, devices,
                   tickets, localCut>>

-----------------------------------------------------------------------------
(* Requests of a ready session. Every method here is the owner's, and a       *)
(* member's session passes for an owner's (scope_allows).                    *)
Owner(s) ==
    Idle(s) /\ aPhase[s] = "ready" /\ s \in peers /\ scope[s] \in {"owner", "member"}

(* pairing.start: an owner's ticket only for a loopback session.             *)
StartPairing(s, t, sc) ==
    /\ Owner(s) /\ t \notin tkOpen /\ (sc = "owner" => s \in Local)
    /\ tkOpen' = tkOpen \cup {t} /\ tkScope' = Set(tkScope, t, sc)
    /\ tkFailures' = Set(tkFailures, t, 0)
    /\ UNCHANGED <<sessionVars, devices, failures, guesses, localCut>>

(* Faulty variant: revoked devices count as owners.                          *)
MayRevokeAny(s, d) ==
    \/ s \in Local \/ devScope[d] # "owner"
    \/ \E e \in live : e # d /\ devScope[e] = "owner"

(* devices.revoke: one UPDATE that leaves the last live owner to a loopback   *)
(* session.                                                                  *)
MayRevoke(s, d) ==
    \/ s \in Local \/ devScope[d] # "owner"
    \/ \E e \in live \ revoked : e # d /\ devScope[e] = "owner"

Revoke(s, d) ==
    /\ Owner(s) /\ d \in live \ revoked /\ MayRevoke(s, d)
    /\ revoked' = revoked \cup {d}
    /\ await' = Set(await, s, "cut") /\ target' = Set(target, s, d)
    /\ localCut' = (localCut \/ s \in Local)
    /\ UNCHANGED <<aPhase, open, refused, claimed, device, scope, peers, bound, devScope,
                   live, tickets>>

(* close_device: every bound session of the device is closed.                *)
CloseDevice(s) ==
    /\ await[s] = "cut" /\ await' = Set(await, s, "no") /\ target' = Set(target, s, NoDevice)
    /\ LET cut == {x \in Sessions : <<target[s], x>> \in bound}
       IN /\ open' = open \ cut /\ peers' = peers \ cut
          /\ bound' = bound \ ({target[s]} \X Sessions)
    /\ UNCHANGED <<aPhase, refused, claimed, device, scope, devices, tickets, localCut>>

-----------------------------------------------------------------------------
(* pair.complete before auth: the ticket (or its code, while neither the      *)
(* ticket nor the host had too many failures) is spent for a new device.     *)
Complete(s, t, d, byCode) ==
    /\ s \notin Local \cup refused /\ Idle(s) /\ aPhase[s] = "auth"
    /\ t \in tkOpen /\ d \notin live
    /\ byCode => tkFailures[t] < CodeFailures /\ failures < HostFailures
    /\ tkOpen' = tkOpen \ {t}
    /\ live' = live \cup {d} /\ devScope' = Set(devScope, d, tkScope[t])
    /\ aPhase' = Set(aPhase, s, "paired")
    /\ UNCHANGED <<open, refused, claimed, device, scope, await, target, peers, bound,
                   revoked, tkScope, tkFailures, failures, guesses, localCut>>

(* A code that fits no ticket counts against the host and every open one.    *)
WrongCode(s) ==
    /\ s \notin Local \cup refused /\ Idle(s) /\ aPhase[s] = "auth"
    /\ guesses < MaxGuesses /\ guesses' = guesses + 1
    /\ IF failures >= HostFailures THEN UNCHANGED <<failures, tkFailures>>
       ELSE /\ failures' = failures + 1
            /\ tkFailures' = [t \in Tickets |-> IF t \in tkOpen THEN tkFailures[t] + 1
                                                ELSE tkFailures[t]]
    /\ Shut({s})
    /\ UNCHANGED <<aPhase, refused, claimed, device, scope, await, target, devices, tkScope,
                   tkOpen, localCut>>

(* TICKET_TTL passes, or the hour of a failed attempt.                       *)
Expire(t) ==
    /\ t \in tkOpen /\ tkOpen' = tkOpen \ {t}
    /\ UNCHANGED <<sessionVars, devices, tkScope, tkFailures, failures, guesses, localCut>>

HourPasses ==
    /\ failures > 0 /\ failures' = failures - 1
    /\ UNCHANGED <<sessionVars, devices, tkScope, tkOpen, tkFailures, guesses, localCut>>

-----------------------------------------------------------------------------
SessionStep(s) ==
    \/ AcceptConnection(s) \/ Close(s) \/ Forget(s) \/ HelloLocal(s) \/ Token(s)
    \/ (\E d \in Devices, served \in BOOLEAN : Challenge(s, d, served))
    \/ DeviceAuth(s) \/ BindDevice(s) \/ Seen(s) \/ AttachSession(s) \/ CloseDevice(s) \/ WrongCode(s)
    \/ (\E d \in Devices : Revoke(s, d))
    \/ \E t \in Tickets :
         \/ \E sc \in Scopes : StartPairing(s, t, sc)
         \/ \E d \in Devices, byCode \in BOOLEAN : Complete(s, t, d, byCode)

AccessNext ==
    \/ \E s \in Sessions : SessionStep(s)
    \/ \E t \in Tickets : Expire(t)
    \/ HourPasses

AccessSpec == AccessInit /\ [][AccessNext]_accessVars

-----------------------------------------------------------------------------
(* Once devices.revoke has answered, no session of the device is served, also *)
(* not one that was anywhere in its handshake when the device was revoked: a  *)
(* revoke that commits after mark_seen finds the session bound and closes it, *)
(* and one that closed the device's sessions before the bind is seen by       *)
(* mark_seen (_on_device_auth).                                              *)
RevokedIsCut ==
    \A s \in open :
        device[s] \in revoked /\ aPhase[s] = "ready"
            => \E c \in Sessions : await[c] = "cut" /\ target[c] = device[s]

(* Remote owners cannot lock the owner out: unless a loopback session revoked *)
(* a device, an owner device that was paired leaves a live one               *)
(* (devices.revoke: "the last live owner device stays").                     *)
OwnerStays ==
    ~localCut /\ (\E d \in live : devScope[d] = "owner")
        => \E d \in live \ revoked : devScope[d] = "owner"
=============================================================================
