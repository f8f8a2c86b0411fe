-------------------------------- MODULE Calls --------------------------------
(***************************************************************************)
(* Audio and video calls between two Profiles: the sessions the server     *)
(* keeps (webrtc-signaling.service.ts), the gateway that answers and       *)
(* relays (app.gateway.ts), and the clients (useCallStore.ts,              *)
(* useCallListeners.ts, webrtc.service.ts).                                *)
(*                                                                         *)
(* A socket keeps the order of its messages, and a handler that awaits     *)
(* lets the next message in.  A client has one socket, and sets up one     *)
(* connection at a time.  Candidates, media and screens are left out.      *)
(***************************************************************************)
EXTENDS Naturals, Sequences, FiniteSets

CONSTANTS
    Profiles,
    Calls,       \* invitations, each the session it may become
    None,
    MaxFaults    \* bound: sockets lost and sessions whose time runs out

ASSUME CallsAssumption ==
    /\ None \notin Profiles \union Calls
    /\ MaxFaults \in Nat

VARIABLES
    stage,      \* an invitation: "none", "sent", "check", a CallState, "over"
    from, to,   \* its callerId and calleeId
    overdue,    \* sessions past their expiresAt
    announce,   \* sessions registered whose callee is not told yet
    userCalls,  \* the session a Profile is in
    leaving,    \* Profiles whose lost socket is not handled yet
    up, down,   \* messages to the server, and to each client
    status, remote, \* useCallStore
    job,        \* startCall or handleOffer in progress
    pc, cam,    \* clients with a connection, with the stream they hold on
    faults,
    agreed,     \* history: <<p, q>>, p accepted a call of q
    raced       \* history: two invitations of a Profile were checked at once

serverVars == <<stage, from, to, overdue, announce, userCalls, leaving>>
clientVars == <<status, remote, job, pc, cam>>
vars == <<serverVars, up, down, clientVars, faults, agreed, raced>>

CallStates == {"RINGING", "ACTIVE"}
NoJob      == [at |-> "none", peer |-> None, sends |-> "none"]
Msg(kind, peer) == [kind |-> kind, peer |-> peer]

Init ==
    /\ stage = [c \in Calls |-> "none"]
    /\ from = [c \in Calls |-> None] /\ to = [c \in Calls |-> None]
    /\ overdue = {} /\ announce = {}
    /\ userCalls = [p \in Profiles |-> None]
    /\ leaving = {}
    /\ up = [p \in Profiles |-> <<>>] /\ down = [p \in Profiles |-> <<>>]
    /\ status = [p \in Profiles |-> "idle"]
    /\ remote = [p \in Profiles |-> None]
    /\ job = [p \in Profiles |-> NoJob]
    /\ pc = {} /\ cam = {}
    /\ faults = 0
    /\ agreed = {} /\ raced = FALSE

Fault == faults < MaxFaults /\ faults' = faults + 1

Send(p, kind, peer) == up' = [up EXCEPT ![p] = Append(@, Msg(kind, peer))]
Emit(p, kind, peer) == down' = [down EXCEPT ![p] = Append(@, Msg(kind, peer))]

-----------------------------------------------------------------------------
(* The server.                                                             *)
Session(c)     == stage[c] \in CallStates
Party(c, p)    == p \in {from[c], to[c]}
Overlap(c, d)  == \E p \in Profiles : Party(c, p) /\ Party(d, p)
Peers(c, p, q) == {p, q} = {from[c], to[c]}

(* deleteSession: both parties are freed, whatever session they are in. *)
Ended(C) == [c \in Calls |-> IF c \in C THEN "over" ELSE stage[c]]

(* The bug of freeing the caller alone. *)
FreedCaller(C) ==
    [p \in Profiles |-> IF \E c \in C : from[c] = p THEN None ELSE userCalls[p]]

Freed(C) == [p \in Profiles |-> IF \E c \in C : Party(c, p) THEN None ELSE userCalls[p]]

(* pruneExpiredSessions opens every operation but the disconnection. *)
Pruned == {c \in overdue : Session(c)}

(* The session of p, once the expired ones are pruned. *)
CallOf(p) == Freed(Pruned)[p]

DeleteSessions(C) ==
    /\ stage' = Ended(C)
    /\ userCalls' = Freed(C)
    /\ overdue' = overdue \ C

Receive(p, kind) ==
    /\ up[p] # <<>>
    /\ Head(up[p]).kind = kind
    /\ up' = [up EXCEPT ![p] = Tail(@)]

(* The bug of asking only whether the caller is busy. *)
BusyCaller(c) == \E p \in Profiles : p = from[c] /\ CallOf(p) # None

Busy(c) == \E p \in Profiles : Party(c, p) /\ CallOf(p) # None

(* authorizeAndInitiateCall, up to its first await. *)
Invite(p, c) ==
    LET busy == Busy(c) IN
    /\ Receive(p, "invite")
    /\ Head(up[p]).peer = c /\ stage[c] = "sent"
    /\ stage' = [Ended(Pruned) EXCEPT ![c] = IF busy THEN "over" ELSE "check"]
    /\ userCalls' = Freed(Pruned)
    /\ overdue' = overdue \ Pruned
    /\ IF busy THEN Emit(p, "declined", None) ELSE UNCHANGED down
    /\ raced' = (raced \/ \E d \in Calls : stage[d] = "check" /\ Overlap(c, d))
    /\ UNCHANGED <<from, to, announce, leaving, clientVars, faults, agreed>>

(* A block stands between them, or no conversation: nobody is told. *)
Refuse(c) ==
    /\ stage[c] = "check"
    /\ stage' = [stage EXCEPT ![c] = "over"]
    /\ UNCHANGED <<from, to, overdue, announce, userCalls, leaving, up, down, clientVars,
                   faults, agreed, raced>>

(* The session is registered, without another look at who is busy. *)
Register(c) ==
    /\ stage[c] = "check"
    /\ stage' = [stage EXCEPT ![c] = "RINGING"]
    /\ userCalls' = [p \in Profiles |-> IF Party(c, p) THEN c ELSE userCalls[p]]
    /\ announce' = announce \union {c}
    /\ UNCHANGED <<from, to, overdue, leaving, up, down, clientVars, faults, agreed, raced>>

(* The caller's profile has been read: the callee rings. *)
Announce(c) ==
    /\ c \in announce
    /\ announce' = announce \ {c}
    /\ Emit(to[c], "incoming", from[c])
    /\ UNCHANGED <<stage, from, to, overdue, userCalls, leaving, up, clientVars, faults,
                   agreed, raced>>

(* The bug of taking any call that rings. *)
RingsForAnyone(p, q) ==
    LET c == CallOf(p) IN
    c # None /\ to[c] = p /\ stage[c] = "RINGING"

(* What accept and decline check: p is called by q, and it still rings. *)
RingsFor(p, q) ==
    LET c == CallOf(p) IN
    c # None /\ to[c] = p /\ from[c] = q /\ stage[c] = "RINGING"

AcceptCall(p) ==
    LET q == Head(up[p]).peer
        C == Pruned IN
    /\ Receive(p, "accept")
    /\ userCalls' = Freed(C)
    /\ overdue' = overdue \ C
    /\ IF RingsFor(p, q)
       THEN stage' = [Ended(C) EXCEPT ![CallOf(p)] = "ACTIVE"] /\ Emit(q, "accepted", p)
       ELSE stage' = Ended(C) /\ UNCHANGED down
    /\ UNCHANGED <<from, to, announce, leaving, clientVars, faults, agreed, raced>>

DeclineCall(p) ==
    LET q == Head(up[p]).peer IN
    /\ Receive(p, "decline")
    /\ IF RingsFor(p, q)
       THEN DeleteSessions(Pruned \union {CallOf(p)}) /\ Emit(q, "declined", None)
       ELSE DeleteSessions(Pruned) /\ UNCHANGED down
    /\ UNCHANGED <<from, to, announce, leaving, clientVars, faults, agreed, raced>>

(* authorizeSignal: only the peer of the sender's session is reached. *)
Relay(p, kind) ==
    LET q == Head(up[p]).peer IN
    /\ Receive(p, kind)
    /\ DeleteSessions(Pruned)
    /\ IF CallOf(p) # None /\ Peers(CallOf(p), p, q)
       THEN Emit(q, kind, p) ELSE UNCHANGED down
    /\ UNCHANGED <<from, to, announce, leaving, clientVars, faults, agreed, raced>>

EndCall(p) ==
    LET q == Head(up[p]).peer IN
    /\ Receive(p, "hangup")
    /\ IF CallOf(p) # None /\ Peers(CallOf(p), p, q)
       THEN DeleteSessions(Pruned \union {CallOf(p)}) /\ Emit(q, "ended", None)
       ELSE DeleteSessions(Pruned) /\ UNCHANGED down
    /\ UNCHANGED <<from, to, announce, leaving, clientVars, faults, agreed, raced>>

(* handleDisconnect, once the presence is written. *)
HandleDisconnect(p) ==
    LET c == userCalls[p]
        q == IF from[c] = p THEN to[c] ELSE from[c] IN
    /\ p \in leaving
    /\ leaving' = leaving \ {p}
    /\ IF c = None THEN UNCHANGED <<stage, userCalls, overdue, down>>
       ELSE /\ DeleteSessions({c})
            /\ Emit(q, IF stage[c] = "RINGING" THEN "declined" ELSE "ended", None)
    /\ UNCHANGED <<from, to, announce, up, clientVars, faults, agreed, raced>>

(* 60 seconds of ringing, 4 hours of a call. *)
Expire(c) ==
    /\ Session(c) /\ c \notin overdue
    /\ Fault
    /\ overdue' = overdue \union {c}
    /\ UNCHANGED <<stage, from, to, announce, userCalls, leaving, up, down, clientVars, agreed,
                   raced>>

-----------------------------------------------------------------------------
(* The clients.                                                            *)
Show(p, s, q) ==
    /\ status' = [status EXCEPT ![p] = s]
    /\ remote' = [remote EXCEPT ![p] = q]

(* The bug of a camera left on. *)
ResetLit(p) ==
    /\ Show(p, "idle", None)
    /\ pc' = pc \ {p}
    /\ UNCHANGED cam

(* cleanup and resetCall: the connection is closed, the stream stopped. *)
Reset(p) ==
    /\ Show(p, "idle", None)
    /\ pc' = pc \ {p}
    /\ cam' = cam \ {p}

(* initiateCall, from a conversation that no call covers. *)
InitiateCall(p, q, c) ==
    /\ p # q
    /\ status[p] = "idle"
    /\ stage[c] = "none"
    /\ stage' = [stage EXCEPT ![c] = "sent"]
    /\ from' = [from EXCEPT ![c] = p]
    /\ to' = [to EXCEPT ![c] = q]
    /\ Show(p, "ringing", q)
    /\ Send(p, "invite", c)
    /\ UNCHANGED <<overdue, announce, userCalls, leaving, down, job, pc, cam, faults,
                   agreed, raced>>

PressAccept(p) ==
    /\ status[p] = "incoming"
    /\ Show(p, "active", remote[p])
    /\ Send(p, "accept", remote[p])
    /\ agreed' = agreed \union {<<p, remote[p]>>}
    /\ UNCHANGED <<serverVars, down, job, pc, cam, faults, raced>>

(* declineCall: resetCall stops the stream and leaves the connection. *)
PressDecline(p) ==
    /\ status[p] = "incoming"
    /\ Send(p, "decline", remote[p])
    /\ Show(p, "idle", None)
    /\ cam' = cam \ {p}
    /\ UNCHANGED <<serverVars, down, job, pc, faults, agreed, raced>>

HangUp(p) ==
    /\ status[p] \in {"ringing", "active"}
    /\ IF remote[p] = None THEN UNCHANGED up ELSE Send(p, "hangup", remote[p])
    /\ Reset(p)
    /\ UNCHANGED <<serverVars, down, job, faults, agreed, raced>>

Get(p, kinds) ==
    /\ down[p] # <<>>
    /\ Head(down[p]).kind \in kinds
    /\ down' = [down EXCEPT ![p] = Tail(@)]

(* handleIncoming *)
GetIncoming(p) ==
    /\ Get(p, {"incoming"})
    /\ IF status[p] = "idle" THEN Show(p, "incoming", Head(down[p]).peer)
                             ELSE UNCHANGED <<status, remote>>
    /\ UNCHANGED <<serverVars, up, job, pc, cam, faults, agreed, raced>>

(* handleAccepted and handleSignal of an offer: a connection is set up,    *)
(* whatever the client shows.                                              *)
GetAccepted(p) ==
    /\ Get(p, {"accepted"})
    /\ job[p] = NoJob
    /\ status' = [status EXCEPT ![p] = "active"]
    /\ job' = [job EXCEPT ![p] = [at |-> "ice", peer |-> Head(down[p]).peer, sends |-> "offer"]]
    /\ UNCHANGED <<serverVars, up, remote, pc, cam, faults, agreed, raced>>

GetOffer(p) ==
    /\ Get(p, {"offer"})
    /\ job[p] = NoJob
    /\ job' = [job EXCEPT ![p] = [at |-> "ice", peer |-> Head(down[p]).peer, sends |-> "answer"]]
    /\ UNCHANGED <<serverVars, up, status, remote, pc, cam, faults, agreed, raced>>

GetAnswer(p) ==
    /\ Get(p, {"answer"})
    /\ UNCHANGED <<serverVars, up, clientVars, faults, agreed, raced>>

(* handleEnded, handleDeclined *)
GetEnded(p) ==
    /\ Get(p, {"ended", "declined"})
    /\ Reset(p)
    /\ UNCHANGED <<serverVars, up, job, faults, agreed, raced>>

(* startCall and handleOffer, from one await to the next. *)
FetchIce(p) ==
    /\ job[p].at = "ice"
    /\ pc' = pc \union {p}
    /\ job' = [job EXCEPT ![p].at = "media"]
    /\ UNCHANGED <<serverVars, up, down, status, remote, cam, faults, agreed, raced>>

(* With the media comes the description, made without leaving the browser. *)
GetUserMedia(p) ==
    /\ job[p].at = "media"
    /\ p \in pc
    /\ cam' = cam \union {p}
    /\ Send(p, job[p].sends, job[p].peer)
    /\ job' = [job EXCEPT ![p] = NoJob]
    /\ UNCHANGED <<serverVars, down, status, remote, pc, faults, agreed, raced>>

(* The camera is refused, or the connection was closed meanwhile. *)
SetupFails(p) ==
    /\ job[p].at = "media"
    /\ Reset(p)
    /\ Send(p, IF job[p].sends = "answer" THEN "decline" ELSE "hangup", job[p].peer)
    /\ job' = [job EXCEPT ![p] = NoJob]
    /\ UNCHANGED <<serverVars, down, faults, agreed, raced>>

(* onconnectionstatechange: the connection failed, or the peer closed it. *)
ConnectionLost(p) ==
    /\ p \in pc
    /\ job[p] = NoJob
    /\ Reset(p)
    /\ UNCHANGED <<serverVars, up, down, job, faults, agreed, raced>>

(* The socket is lost and another one opened, by the same page or by a new *)
(* one; what was on its way to the client is lost.                         *)
LoseSocket(p) ==
    /\ Fault
    /\ leaving' = leaving \union {p}
    /\ down' = [down EXCEPT ![p] = <<>>]
    /\ \/ UNCHANGED clientVars
       \/ Reset(p) /\ job' = [job EXCEPT ![p] = NoJob]
    /\ UNCHANGED <<stage, from, to, overdue, announce, userCalls, up, agreed, raced>>

-----------------------------------------------------------------------------
Serve(p) ==
    \/ \E c \in Calls : Invite(p, c)
    \/ AcceptCall(p) \/ DeclineCall(p) \/ EndCall(p) \/ HandleDisconnect(p)
    \/ \E kind \in {"offer", "answer"} : Relay(p, kind)

Client(p) ==
    \/ \E q \in Profiles, c \in Calls : InitiateCall(p, q, c)
    \/ PressAccept(p) \/ PressDecline(p) \/ HangUp(p)
    \/ GetIncoming(p) \/ GetAccepted(p) \/ GetOffer(p) \/ GetAnswer(p) \/ GetEnded(p)
    \/ FetchIce(p) \/ GetUserMedia(p) \/ SetupFails(p)
    \/ ConnectionLost(p) \/ LoseSocket(p)

Next ==
    \/ \E p \in Profiles : Serve(p) \/ Client(p)
    \/ \E c \in Calls : Refuse(c) \/ Register(c) \/ Announce(c) \/ Expire(c)

Spec == Init /\ [][Next]_vars

-----------------------------------------------------------------------------
TypeOK ==
    /\ stage \in [Calls -> CallStates \union {"none", "sent", "check", "over"}]
    /\ from \in [Calls -> Profiles \union {None}]
    /\ to \in [Calls -> Profiles \union {None}]
    /\ overdue \subseteq Calls /\ announce \subseteq Calls
    /\ userCalls \in [Profiles -> Calls \union {None}]
    /\ leaving \subseteq Profiles
    /\ status \in [Profiles -> {"idle", "ringing", "incoming", "active"}]
    /\ remote \in [Profiles -> Profiles \union {None}]
    /\ \A p \in Profiles : status[p] \in {"ringing", "incoming"} => remote[p] # None
    /\ pc \subseteq Profiles /\ cam \subseteq pc
    /\ agreed \subseteq Profiles \X Profiles

(* Nobody is busy for ever: whoever userCalls says is in a call is a party *)
(* of a session that still exists, and so ends or expires, although        *)
(* sessions overwrite each other's entries and delete them.                *)
BusyIsInCall ==
    \A p \in Profiles : userCalls[p] # None =>
        Session(userCalls[p]) /\ Party(userCalls[p], p)

(* "A profile can only participate in at most one active call": as long as *)
(* two invitations of a Profile are not checked at once, the parties of a  *)
(* session are in that one and no other, although it is registered later   *)
(* than the check and others end, expire or lose their socket meanwhile.   *)
OneCallEach ==
    ~raced => \A c \in Calls, p \in Profiles : Session(c) /\ Party(c, p) => userCalls[p] = c

(* A session is ACTIVE only when its callee accepted a call of its caller, *)
(* also when the sessions of two callers replaced each other.              *)
ActiveIsAccepted ==
    \A c \in Calls : stage[c] = "ACTIVE" => <<to[c], from[c]>> \in agreed

(* Hanging up "ends the call on this side too": a client that is in no     *)
(* call, and sets none up, has its camera and microphone off.              *)
IdleIsDark ==
    \A p \in Profiles : status[p] = "idle" /\ job[p] = NoJob => p \notin cam
=============================================================================
