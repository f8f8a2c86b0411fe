----------------------------- MODULE CallsProofs -----------------------------
(***************************************************************************)
(* Safety of the calls for any number of Profiles, invitations and faults. *)
(***************************************************************************)
EXTENDS Calls, TLAPS

Stages  == CallStates \union {"none", "sent", "check", "over"}
Peer    == Profiles \union Calls \union {None}
Kinds   == {"none", "invite", "accept", "decline", "hangup", "offer", "answer",
            "incoming", "accepted", "declined", "ended"}
Message == [kind : Kinds, peer : Peer]
Jobs    == [at : {"none", "ice", "media"}, peer : Peer, sends : {"none", "offer", "answer"}]

(* A call that was announced as incoming names its caller. *)
DownMessage == {m \in Message : m.kind = "incoming" => m.peer \in Profiles}

(* The server's tables: an invitation that was made has two parties. *)
ServerInv ==
    /\ stage \in [Calls -> Stages]
    /\ from \in [Calls -> Profiles \union {None}]
    /\ to \in [Calls -> Profiles \union {None}]
    /\ \A c \in Calls : stage[c] # "none" => from[c] \in Profiles /\ to[c] \in Profiles
    /\ overdue \subseteq Calls
    /\ announce \subseteq {c \in Calls : stage[c] # "none"}
    /\ userCalls \in [Profiles -> Calls \union {None}]
    /\ leaving \subseteq Profiles
    /\ BusyIsInCall

(* The clients, and what is on its way to and from them. *)
ClientInv ==
    /\ status \in [Profiles -> {"idle", "ringing", "incoming", "active"}]
    /\ remote \in [Profiles -> Profiles \union {None}]
    /\ \A p \in Profiles : status[p] \in {"ringing", "incoming"} => remote[p] # None
    /\ job \in [Profiles -> Jobs]
    /\ pc \subseteq Profiles /\ cam \subseteq pc
    /\ agreed \subseteq Profiles \X Profiles
    /\ up \in [Profiles -> Seq(Message)]
    /\ down \in [Profiles -> Seq(DownMessage)]

TypeInv == ServerInv /\ ClientInv

(* Both parts of the invariant hold before the first call. *)
LEMMA TypeInit == Init => TypeInv
  <1> SUFFICES ASSUME Init PROVE TypeInv
    OBVIOUS
  <1> USE CallsAssumption DEF Init
  <1>1. ServerInv
    BY DEF ServerInv, Stages, BusyIsInCall
  <1>2. NoJob \in Jobs
    BY DEF NoJob, Peer, Jobs
  <1>3. <<>> \in Seq(Message) /\ <<>> \in Seq(DownMessage)
    OBVIOUS
  <1>4. ClientInv
    BY <1>2, <1>3 DEF ClientInv
  <1> QED
    BY <1>1, <1>4 DEF TypeInv

(* What a Profile's session is once the expired ones are pruned. *)
LEMMA CallOfFacts ==
    ASSUME ServerInv, NEW p \in Profiles, CallOf(p) # None
    PROVE  /\ CallOf(p) \in Calls /\ CallOf(p) \notin Pruned
           /\ Session(CallOf(p)) /\ Party(CallOf(p), p)
           /\ userCalls[p] = CallOf(p)
  <1>1. CallOf(p) = userCalls[p] /\ ~ \E c \in Pruned : Party(c, p)
    BY DEF CallOf, Freed, ServerInv
  <1> QED
    BY <1>1, CallsAssumption DEF ServerInv, BusyIsInCall

(* Deleting sessions, here or by an expiry, keeps the tables in order:     *)
(* whoever is left busy is in a session that is left.                      *)
LEMMA Deleting ==
    ASSUME ServerInv, NEW C \in SUBSET {c \in Calls : Session(c)},
           DeleteSessions(C), UNCHANGED <<from, to, announce>>,
           leaving' \subseteq leaving
    PROVE  ServerInv'
  <1>1. stage' \in [Calls -> Stages] /\ userCalls' \in [Profiles -> Calls \union {None}]
    BY DEF DeleteSessions, Ended, Freed, ServerInv, Stages
  <1>2. \A c \in Calls : stage'[c] # "none" => stage[c] # "none"
    BY DEF DeleteSessions, Ended, Session, CallStates
  <1>3. announce' \subseteq {c \in Calls : stage'[c] # "none"}
    BY DEF DeleteSessions, Ended, ServerInv
  <1>4. BusyIsInCall'
    <2> SUFFICES ASSUME NEW p \in Profiles, userCalls'[p] # None
                 PROVE  (Session(userCalls[p]) /\ Party(userCalls[p], p))'
      BY DEF BusyIsInCall
    <2>1. userCalls'[p] = userCalls[p] /\ ~ \E c \in C : Party(c, p)
      BY DEF DeleteSessions, Freed
    <2>2. userCalls[p] \in Calls \ C /\ Session(userCalls[p]) /\ Party(userCalls[p], p)
      BY <2>1 DEF ServerInv, BusyIsInCall
    <2> QED
      BY <2>1, <2>2 DEF DeleteSessions, Ended, Session, Party
  <1> QED
    BY <1>1, <1>2, <1>3, <1>4 DEF ServerInv, DeleteSessions

(* Pruned sessions are sessions. *)
LEMMA PrunedSessions == ServerInv => Pruned \in SUBSET {c \in Calls : Session(c)}
  BY DEF Pruned, ServerInv

(* What a message of a Profile to the server, or to it, may be. *)
LEMMA Sending ==
    ASSUME ClientInv, NEW p \in Profiles, NEW kind \in Kinds, NEW q \in Peer,
           Send(p, kind, q)
    PROVE  up' \in [Profiles -> Seq(Message)]
  <1>1. Msg(kind, q) \in Message
    BY DEF Msg, Message
  <1>2. up[p] \in Seq(Message)
    BY DEF ClientInv
  <1>3. Append(up[p], Msg(kind, q)) \in Seq(Message)
    BY <1>1, <1>2
  <1> QED
    BY <1>3 DEF Send, ClientInv

(* Emitting a well-formed message keeps the queues to the clients typed. *)
LEMMA Emitting ==
    ASSUME ClientInv, NEW p \in Peer, NEW kind \in Kinds, NEW q \in Peer,
           kind = "incoming" => q \in Profiles, Emit(p, kind, q)
    PROVE  down' \in [Profiles -> Seq(DownMessage)]
  <1>1. Msg(kind, q) \in DownMessage
    BY DEF Msg, Message, DownMessage
  <1>2. \A r \in Profiles : down'[r] = down[r] \/ down'[r] = Append(down[r], Msg(kind, q))
    BY DEF Emit, ClientInv
  <1>3. ASSUME NEW r \in Profiles PROVE down'[r] \in Seq(DownMessage)
    <2>1. down[r] \in Seq(DownMessage)
      BY DEF ClientInv
    <2>2. Append(down[r], Msg(kind, q)) \in Seq(DownMessage)
      BY <1>1, <2>1
    <2> QED
      BY <1>2, <2>1, <2>2
  <1> QED
    BY <1>3 DEF Emit, ClientInv

(* What the server takes from a socket is a message, and a queue stays one. *)
LEMMA Receiving ==
    ASSUME ClientInv, NEW p \in Profiles, NEW kind, Receive(p, kind)
    PROVE  /\ up' \in [Profiles -> Seq(Message)]
           /\ Head(up[p]) \in Message /\ Head(up[p]).peer \in Peer
  <1>1. up[p] \in Seq(Message) /\ up[p] # <<>>
    BY DEF Receive, ClientInv
  <1>2. Head(up[p]) \in Message /\ Tail(up[p]) \in Seq(Message)
    BY <1>1
  <1>3. Head(up[p]).peer \in Peer
    BY <1>2 DEF Message
  <1> QED
    BY <1>2, <1>3 DEF Receive, ClientInv

(* The same of what a client takes. *)
LEMMA Getting ==
    ASSUME ClientInv, NEW p \in Profiles, NEW kinds, Get(p, kinds)
    PROVE  /\ down' \in [Profiles -> Seq(DownMessage)]
           /\ Head(down[p]).peer \in Peer
           /\ Head(down[p]).kind \in kinds
           /\ Head(down[p]).kind = "incoming" => Head(down[p]).peer \in Profiles
  <1>1. down[p] \in Seq(DownMessage) /\ down[p] # <<>>
    BY DEF Get, ClientInv
  <1>2. Head(down[p]) \in DownMessage /\ Tail(down[p]) \in Seq(DownMessage)
    BY <1>1
  <1>3. Head(down[p]).peer \in Peer
    BY <1>2 DEF Message, DownMessage
  <1>4. Head(down[p]).kind = "incoming" => Head(down[p]).peer \in Profiles
    BY <1>2 DEF DownMessage
  <1> QED
    BY <1>2, <1>3, <1>4 DEF Get, ClientInv

(* The server's handlers keep the tables in order. *)
LEMMA ServerStep == TypeInv /\ [Next]_vars => ServerInv'
  <1> SUFFICES ASSUME TypeInv, [Next]_vars PROVE ServerInv'
    OBVIOUS
  <1>a. ServerInv /\ ClientInv
    BY DEF TypeInv
  <1> USE CallsAssumption, <1>a, PrunedSessions
  <1>0. ASSUME UNCHANGED serverVars PROVE ServerInv'
    BY <1>0 DEF serverVars, ServerInv, BusyIsInCall, Session, Party
  <1>1. ASSUME NEW p \in Profiles, NEW c \in Calls, Invite(p, c) PROVE ServerInv'
    <2>1. stage[c] = "sent" /\ c \notin Pruned
      BY <1>1 DEF Invite, Pruned, Session, CallStates
    <2>2. /\ \A d \in Calls : d # c => stage'[d] = Ended(Pruned)[d]
          /\ stage'[c] \in {"over", "check"}
          /\ stage' \in [Calls -> Stages]
      BY <1>1 DEF Invite, Ended, ServerInv, Stages
    <2>3. BusyIsInCall'
      <3> SUFFICES ASSUME NEW r \in Profiles, userCalls'[r] # None
                   PROVE  (Session(userCalls[r]) /\ Party(userCalls[r], r))'
        BY DEF BusyIsInCall
      <3>1. userCalls'[r] = CallOf(r)
        BY <1>1 DEF Invite, CallOf
      <3>2. /\ userCalls'[r] \in Calls /\ userCalls'[r] \notin Pruned
            /\ Session(CallOf(r)) /\ Party(CallOf(r), r)
        BY <3>1, CallOfFacts
      <3>3. userCalls'[r] # c
        BY <3>1, <3>2, <2>1 DEF Session, CallStates
      <3> QED
        BY <1>1, <2>2, <3>1, <3>2, <3>3 DEF Invite, Ended, Session, Party
    <2>4. /\ userCalls' \in [Profiles -> Calls \union {None}]
          /\ \A d \in Calls : stage'[d] # "none" => stage[d] # "none"
          /\ \A d \in Calls : stage[d] # "none" => stage'[d] # "none"
      BY <1>1, <2>1, <2>2 DEF Invite, Freed, Ended, ServerInv, Pruned, Session, CallStates
    <2> QED
      BY <1>1, <2>2, <2>3, <2>4 DEF Invite, ServerInv
  <1>2. ASSUME NEW p \in Profiles, AcceptCall(p) PROVE ServerInv'
    <2> DEFINE c == CallOf(p)
    <2>1. CASE ~RingsFor(p, Head(up[p]).peer)
      BY <1>2, <2>1, Deleting DEF AcceptCall, DeleteSessions
    <2>2. CASE RingsFor(p, Head(up[p]).peer)
      <3>1. c \in Calls /\ c \notin Pruned /\ stage[c] = "RINGING"
        BY <2>2, CallOfFacts DEF RingsFor
      <3>2. /\ \A d \in Calls : d # c => stage'[d] = Ended(Pruned)[d]
            /\ stage'[c] = "ACTIVE"
            /\ stage' \in [Calls -> Stages]
        BY <1>2, <2>2, <3>1 DEF AcceptCall, Ended, ServerInv, Stages, CallStates
      <3>3. BusyIsInCall'
        <4> SUFFICES ASSUME NEW r \in Profiles, userCalls'[r] # None
                     PROVE  (Session(userCalls[r]) /\ Party(userCalls[r], r))'
          BY DEF BusyIsInCall
        <4>1. userCalls'[r] = CallOf(r)
          BY <1>2 DEF AcceptCall, CallOf
        <4>2. /\ userCalls'[r] \in Calls /\ userCalls'[r] \notin Pruned
              /\ Session(CallOf(r)) /\ Party(CallOf(r), r)
          BY <4>1, CallOfFacts
        <4> QED
          BY <1>2, <3>1, <3>2, <4>1, <4>2 DEF AcceptCall, Ended, Session, Party, CallStates
      <3>4. /\ userCalls' \in [Profiles -> Calls \union {None}]
            /\ \A d \in Calls : stage'[d] # "none" => stage[d] # "none"
            /\ \A d \in Calls : stage[d] # "none" => stage'[d] # "none"
        BY <1>2, <3>1, <3>2 DEF AcceptCall, Freed, Ended, ServerInv, Pruned, Session, CallStates
      <3> QED
        BY <1>2, <3>2, <3>3, <3>4 DEF AcceptCall, ServerInv
    <2> QED
      BY <2>1, <2>2
  <1>3. ASSUME NEW p \in Profiles, DeclineCall(p) PROVE ServerInv'
    <2>1. RingsFor(p, Head(up[p]).peer) =>
            Pruned \union {CallOf(p)} \in SUBSET {c \in Calls : Session(c)}
      BY CallOfFacts DEF RingsFor
    <2> QED
      BY <1>3, <2>1, Deleting DEF DeclineCall
  <1>4. ASSUME NEW p \in Profiles, NEW kind, Relay(p, kind) PROVE ServerInv'
    BY <1>4, Deleting DEF Relay
  <1>5. ASSUME NEW p \in Profiles, EndCall(p) PROVE ServerInv'
    <2>1. CallOf(p) # None => Pruned \union {CallOf(p)} \in SUBSET {c \in Calls : Session(c)}
      BY CallOfFacts
    <2> QED
      BY <1>5, <2>1, Deleting DEF EndCall
  <1>6. ASSUME NEW p \in Profiles, HandleDisconnect(p) PROVE ServerInv'
    <2>1. CASE userCalls[p] = None
      BY <1>6, <2>1 DEF HandleDisconnect, ServerInv, BusyIsInCall, Session, Party
    <2>2. CASE userCalls[p] # None
      <3>1. {userCalls[p]} \in SUBSET {c \in Calls : Session(c)}
        BY <2>2 DEF ServerInv, BusyIsInCall
      <3> QED
        BY <1>6, <2>2, <3>1, Deleting DEF HandleDisconnect
    <2> QED
      BY <2>1, <2>2
  <1>7. ASSUME NEW c \in Calls, Refuse(c) \/ Register(c) PROVE ServerInv'
    BY <1>7 DEF Refuse, Register, ServerInv, BusyIsInCall, Session, Party, CallStates, Stages
  <1>8. ASSUME NEW c \in Calls, Announce(c) \/ Expire(c) PROVE ServerInv'
    BY <1>8 DEF Announce, Expire, ServerInv, BusyIsInCall, Session, Party
  <1>9. ASSUME NEW p \in Profiles, NEW q \in Profiles, NEW c \in Calls, InitiateCall(p, q, c)
        PROVE ServerInv'
    BY <1>9 DEF InitiateCall, ServerInv, BusyIsInCall, Session, Party, CallStates, Stages
  <1>10. ASSUME NEW p \in Profiles, LoseSocket(p) PROVE ServerInv'
    BY <1>10 DEF LoseSocket, ServerInv, BusyIsInCall, Session, Party
  <1>11. ASSUME NEW p \in Profiles, Client(p) PROVE ServerInv'
    <2>1. UNCHANGED serverVars \/ LoseSocket(p)
             \/ \E q \in Profiles, c \in Calls : InitiateCall(p, q, c)
      BY <1>11 DEF Client, PressAccept, PressDecline, HangUp, GetIncoming, GetAccepted,
                   GetOffer, GetAnswer, GetEnded, FetchIce, GetUserMedia, SetupFails,
                   ConnectionLost
    <2> QED
      BY <2>1, <1>0, <1>9, <1>10
  <1>12. CASE UNCHANGED vars
    BY <1>12, <1>0 DEF vars, serverVars
  <1> QED
    BY <1>1, <1>2, <1>3, <1>4, <1>5, <1>6, <1>7, <1>8, <1>11, <1>12 DEF Next, Serve

(* The clients and the gateway keep the clients' state and the messages    *)
(* well typed; a camera is on only where a connection is held.             *)
LEMMA ClientStep == TypeInv /\ [Next]_vars => ClientInv'
  <1> SUFFICES ASSUME TypeInv, [Next]_vars PROVE ClientInv'
    OBVIOUS
  <1>a. ServerInv /\ ClientInv
    BY DEF TypeInv
  <1> USE CallsAssumption, <1>a
  <1>b. None \in Peer /\ Profiles \subseteq Peer /\ Calls \subseteq Peer
    BY DEF Peer
  <1>0. ASSUME UNCHANGED <<clientVars, agreed>>,
               up' \in [Profiles -> Seq(Message)], down' \in [Profiles -> Seq(DownMessage)]
        PROVE  ClientInv'
    BY <1>0 DEF clientVars, ClientInv
  <1>c. up \in [Profiles -> Seq(Message)] /\ down \in [Profiles -> Seq(DownMessage)]
    BY DEF ClientInv
  <1>1. ASSUME NEW p \in Profiles, Serve(p) PROVE ClientInv'
    <2>1. UNCHANGED <<clientVars, agreed>>
      BY <1>1 DEF Serve, Invite, AcceptCall, DeclineCall, EndCall, HandleDisconnect, Relay
    <2>2. up' \in [Profiles -> Seq(Message)]
      BY <1>1, <1>c, Receiving
      DEF Serve, Invite, AcceptCall, DeclineCall, EndCall, HandleDisconnect, Relay
    <2>3. ASSUME NEW c \in Calls, Invite(p, c) PROVE down' \in [Profiles -> Seq(DownMessage)]
      BY <2>3, <1>b, <1>c, Emitting DEF Invite, Kinds
    <2>4. ASSUME AcceptCall(p) PROVE down' \in [Profiles -> Seq(DownMessage)]
      <3>1. Head(up[p]).peer \in Peer
        BY <2>4, Receiving DEF AcceptCall
      <3> QED
        BY <2>4, <3>1, <1>b, <1>c, Emitting DEF AcceptCall, Kinds
    <2>5. ASSUME DeclineCall(p) PROVE down' \in [Profiles -> Seq(DownMessage)]
      <3>1. Head(up[p]).peer \in Peer
        BY <2>5, Receiving DEF DeclineCall
      <3> QED
        BY <2>5, <3>1, <1>b, <1>c, Emitting DEF DeclineCall, Kinds
    <2>6. ASSUME EndCall(p) PROVE down' \in [Profiles -> Seq(DownMessage)]
      <3>1. Head(up[p]).peer \in Peer
        BY <2>6, Receiving DEF EndCall
      <3> QED
        BY <2>6, <3>1, <1>b, <1>c, Emitting DEF EndCall, Kinds
    <2>7. ASSUME NEW kind \in {"offer", "answer"}, Relay(p, kind)
          PROVE  down' \in [Profiles -> Seq(DownMessage)]
      <3>1. Head(up[p]).peer \in Peer
        BY <2>7, Receiving DEF Relay
      <3> QED
        BY <2>7, <3>1, <1>b, <1>c, Emitting DEF Relay, Kinds
    <2>8. ASSUME HandleDisconnect(p) PROVE down' \in [Profiles -> Seq(DownMessage)]
      <3>1. CASE userCalls[p] = None
        BY <2>8, <3>1, <1>c DEF HandleDisconnect
      <3>2. CASE userCalls[p] # None
        <4>1. from[userCalls[p]] \in Peer /\ to[userCalls[p]] \in Peer
          BY <3>2 DEF ServerInv, Peer
        <4> QED
          BY <2>8, <3>2, <4>1, <1>b, Emitting DEF HandleDisconnect, Kinds
      <3> QED
        BY <3>1, <3>2
    <2> QED
      BY <1>0, <1>1, <2>1, <2>2, <2>3, <2>4, <2>5, <2>6, <2>7, <2>8 DEF Serve
  <1>2. ASSUME NEW c \in Calls, Announce(c) PROVE ClientInv'
    <2>1. from[c] \in Profiles /\ to[c] \in Profiles
      BY <1>2 DEF Announce, ServerInv
    <2>2. down' \in [Profiles -> Seq(DownMessage)]
      BY <1>2, <2>1, <1>b, Emitting DEF Announce, Kinds
    <2> QED
      BY <1>2, <2>2, <1>0, <1>c DEF Announce
  <1>3. ASSUME NEW c \in Calls, Refuse(c) \/ Register(c) \/ Expire(c) PROVE ClientInv'
    BY <1>3, <1>0, <1>c DEF Refuse, Register, Expire
  <1>4. ASSUME NEW p \in Profiles, NEW q \in Profiles, NEW c \in Calls, InitiateCall(p, q, c)
        PROVE  ClientInv'
    <2>1. up' \in [Profiles -> Seq(Message)]
      BY <1>4, <1>b, Sending DEF InitiateCall, Kinds
    <2> QED
      BY <1>4, <2>1 DEF InitiateCall, Show, ClientInv
  <1>5. ASSUME NEW p \in Profiles, PressAccept(p) PROVE ClientInv'
    <2>1. remote[p] \in Profiles
      BY <1>5 DEF PressAccept, ClientInv
    <2>2. up' \in [Profiles -> Seq(Message)]
      BY <1>5, <1>b, <2>1, Sending DEF PressAccept, Kinds
    <2>3. agreed' \subseteq Profiles \X Profiles
      BY <1>5, <2>1 DEF PressAccept, ClientInv
    <2>4. /\ status' \in [Profiles -> {"idle", "ringing", "incoming", "active"}]
          /\ remote' \in [Profiles -> Profiles \union {None}]
          /\ \A r \in Profiles : status'[r] \in {"ringing", "incoming"} => remote'[r] # None
      BY <1>5, <2>1 DEF PressAccept, Show, ClientInv
    <2> QED
      BY <1>5, <2>2, <2>3, <2>4 DEF PressAccept, ClientInv
  <1>6. ASSUME NEW p \in Profiles, PressDecline(p) PROVE ClientInv'
    <2>1. up' \in [Profiles -> Seq(Message)]
      <3>1. remote[p] \in Peer
        BY DEF ClientInv, Peer
      <3> QED
        BY <1>6, <3>1, Sending DEF PressDecline, Kinds
    <2> QED
      BY <1>6, <2>1 DEF PressDecline, Show, ClientInv
  <1>7. ASSUME NEW p \in Profiles, HangUp(p) PROVE ClientInv'
    <2>1. up' \in [Profiles -> Seq(Message)]
      <3>1. remote[p] \in Peer
        BY DEF ClientInv, Peer
      <3> QED
        BY <1>7, <1>c, <3>1, Sending DEF HangUp, Kinds
    <2> QED
      BY <1>7, <2>1 DEF HangUp, Reset, Show, ClientInv
  <1>8. ASSUME NEW p \in Profiles, GetIncoming(p) PROVE ClientInv'
    <2>1. /\ down' \in [Profiles -> Seq(DownMessage)]
          /\ Head(down[p]).peer \in Profiles
      BY <1>8, Getting DEF GetIncoming
    <2> QED
      BY <1>8, <2>1 DEF GetIncoming, Show, ClientInv
  <1>9. ASSUME NEW p \in Profiles, GetAccepted(p) \/ GetOffer(p) PROVE ClientInv'
    <2>1. down' \in [Profiles -> Seq(DownMessage)] /\ Head(down[p]).peer \in Peer
      BY <1>9, Getting DEF GetAccepted, GetOffer
    <2>2. \A s \in {"offer", "answer"} :
             [at |-> "ice", peer |-> Head(down[p]).peer, sends |-> s] \in Jobs
      BY <2>1 DEF Jobs
    <2>3. PICK s \in {"offer", "answer"} :
             job' = [job EXCEPT ![p] = [at |-> "ice", peer |-> Head(down[p]).peer, sends |-> s]]
      BY <1>9 DEF GetAccepted, GetOffer
    <2>4. job' \in [Profiles -> Jobs]
      BY <2>2, <2>3 DEF ClientInv
    <2> QED
      BY <1>9, <2>1, <2>4 DEF GetAccepted, GetOffer, ClientInv
  <1>10. ASSUME NEW p \in Profiles, GetAnswer(p) PROVE ClientInv'
    BY <1>10, <1>0, <1>c, Getting DEF GetAnswer
  <1>11. ASSUME NEW p \in Profiles, GetEnded(p) PROVE ClientInv'
    <2>1. down' \in [Profiles -> Seq(DownMessage)]
      BY <1>11, Getting DEF GetEnded
    <2> QED
      BY <1>11, <2>1 DEF GetEnded, Reset, Show, ClientInv
  <1>12. ASSUME NEW p \in Profiles, FetchIce(p) PROVE ClientInv'
    <2>1. job' \in [Profiles -> Jobs]
      BY <1>12 DEF FetchIce, ClientInv, Jobs
    <2> QED
      BY <1>12, <2>1 DEF FetchIce, ClientInv
  <1>d. NoJob \in Jobs
    BY DEF NoJob, Jobs, Peer
  <1>13. ASSUME NEW p \in Profiles, GetUserMedia(p) PROVE ClientInv'
    <2>1. job[p].sends \in Kinds /\ job[p].peer \in Peer
      BY DEF ClientInv, Jobs, Kinds
    <2>2. up' \in [Profiles -> Seq(Message)]
      BY <1>13, <2>1, Sending DEF GetUserMedia
    <2>3. job' \in [Profiles -> Jobs]
      BY <1>13, <1>d DEF GetUserMedia, ClientInv
    <2> QED
      BY <1>13, <2>2, <2>3 DEF GetUserMedia, ClientInv
  <1>14. ASSUME NEW p \in Profiles, SetupFails(p) PROVE ClientInv'
    <2>1. job[p].peer \in Peer
      BY DEF ClientInv, Jobs
    <2>2. up' \in [Profiles -> Seq(Message)]
      BY <1>14, <2>1, Sending DEF SetupFails, Kinds
    <2>3. job' \in [Profiles -> Jobs]
      BY <1>14, <1>d DEF SetupFails, ClientInv
    <2> QED
      BY <1>14, <2>2, <2>3 DEF SetupFails, Reset, Show, ClientInv
  <1>15. ASSUME NEW p \in Profiles, ConnectionLost(p) PROVE ClientInv'
    BY <1>15 DEF ConnectionLost, Reset, Show, ClientInv
  <1>16. ASSUME NEW p \in Profiles, LoseSocket(p) PROVE ClientInv'
    <2>1. down' \in [Profiles -> Seq(DownMessage)]
      <3>1. <<>> \in Seq(DownMessage)
        OBVIOUS
      <3> QED
        BY <1>16, <3>1 DEF LoseSocket, ClientInv
    <2>2. job' \in [Profiles -> Jobs]
      BY <1>16, <1>d DEF LoseSocket, ClientInv, clientVars
    <2>3. UNCHANGED <<up, agreed>>
      BY <1>16 DEF LoseSocket
    <2>4. CASE UNCHANGED clientVars
      BY <2>1, <2>3, <2>4 DEF ClientInv, clientVars
    <2>5. CASE Reset(p)
      <3>1. /\ status' \in [Profiles -> {"idle", "ringing", "incoming", "active"}]
            /\ remote' \in [Profiles -> Profiles \union {None}]
            /\ \A r \in Profiles : status'[r] \in {"ringing", "incoming"} => remote'[r] # None
        BY <2>5 DEF Reset, Show, ClientInv
      <3>2. pc' \subseteq Profiles /\ cam' \subseteq pc'
        BY <2>5 DEF Reset, ClientInv
      <3> QED
        BY <2>1, <2>2, <2>3, <3>1, <3>2 DEF ClientInv
    <2> QED
      BY <1>16, <2>4, <2>5 DEF LoseSocket
  <1>17. CASE UNCHANGED vars
    BY <1>17, <1>0, <1>c DEF vars
  <1> QED
    BY <1>1, <1>2, <1>3, <1>4, <1>5, <1>6, <1>7, <1>8, <1>9, <1>10, <1>11, <1>12,
       <1>13, <1>14, <1>15, <1>16, <1>17
    DEF Next, Client

(* Both parts of the invariant always hold. *)
LEMMA TypeInvHolds == Spec => []TypeInv
  <1>1. TypeInv /\ [Next]_vars => TypeInv'
    BY ServerStep, ClientStep DEF TypeInv
  <1> QED
    BY TypeInit, <1>1, PTL DEF Spec

(* The calls are type correct: what rings has somebody at the other end,   *)
(* and a stream that is on belongs to a connection that is held.           *)
THEOREM TypeCorrect == Spec => []TypeOK
  <1>1. TypeInv => TypeOK
    BY DEF TypeInv, ServerInv, ClientInv, TypeOK, Stages
  <1> QED
    BY TypeInvHolds, <1>1, PTL

(* Nobody is left busy in a session that is gone, although sessions that   *)
(* were checked at once overwrite and delete each other's entries.         *)
THEOREM NobodyBusyForEver == Spec => []BusyIsInCall
  <1>1. TypeInv => BusyIsInCall
    BY DEF TypeInv, ServerInv
  <1> QED
    BY TypeInvHolds, <1>1, PTL

-----------------------------------------------------------------------------
(* Until two invitations of one Profile are checked at once, the parties   *)
(* of a session are in it, and those of an invitation that is checked are  *)
(* in no call and in no other invitation.                                  *)
SoloInv ==
    ~raced =>
        /\ \A c \in Calls, p \in Profiles : Session(c) /\ Party(c, p) => userCalls[p] = c
        /\ \A c \in Calls, p \in Profiles :
              stage[c] = "check" /\ Party(c, p) => userCalls[p] = None
        /\ \A c, d \in Calls :
              stage[c] = "check" /\ stage[d] = "check" /\ Overlap(c, d) => c = d

(* Deleting sessions frees no party of a session that is left. *)
LEMMA DeletingSolo ==
    ASSUME ServerInv, SoloInv, NEW C \in SUBSET {c \in Calls : Session(c)},
           DeleteSessions(C), UNCHANGED <<from, to, raced>>
    PROVE  SoloInv'
  <1> SUFFICES ASSUME ~raced' PROVE SoloInv'
    BY DEF SoloInv
  <1>1. ~raced
    OBVIOUS
  <1>2. \A c \in Calls : stage'[c] = IF c \in C THEN "over" ELSE stage[c]
    BY DEF DeleteSessions, Ended
  <1>3. \A p \in Profiles :
          userCalls'[p] = IF \E c \in C : Party(c, p) THEN None ELSE userCalls[p]
    BY DEF DeleteSessions, Freed
  <1>4. \A c \in Calls, p \in Profiles : Party(c, p)' <=> Party(c, p)
    BY DEF Party
  <1>5. ASSUME NEW c \in Calls, NEW p \in Profiles, Session(c)', Party(c, p)'
        PROVE  userCalls'[p] = c
    <2>1. c \notin C /\ Session(c) /\ Party(c, p)
      BY <1>2, <1>4, <1>5 DEF Session, CallStates
    <2>2. userCalls[p] = c
      BY <1>1, <2>1 DEF SoloInv
    <2>3. \A d \in C : ~Party(d, p)
      BY <1>1, <2>1, <2>2 DEF SoloInv
    <2> QED
      BY <1>3, <2>2, <2>3
  <1>6. ASSUME NEW c \in Calls, NEW p \in Profiles, stage'[c] = "check", Party(c, p)'
        PROVE  userCalls'[p] = None
    BY <1>1, <1>2, <1>3, <1>4, <1>6 DEF SoloInv
  <1>7. ASSUME NEW c \in Calls, NEW d \in Calls, stage'[c] = "check", stage'[d] = "check",
               Overlap(c, d)'
        PROVE  c = d
    BY <1>1, <1>2, <1>4, <1>7 DEF SoloInv, Overlap
  <1> QED
    BY <1>5, <1>6, <1>7 DEF SoloInv

(* No handler of the server puts a party of a session into another one. *)
LEMMA SoloStep == TypeInv /\ SoloInv /\ [Next]_vars => SoloInv'
  <1> SUFFICES ASSUME TypeInv, SoloInv, [Next]_vars PROVE SoloInv'
    OBVIOUS
  <1>a. ServerInv
    BY DEF TypeInv
  <1> USE CallsAssumption, <1>a, PrunedSessions
  <1>0. ASSUME UNCHANGED <<stage, from, to, userCalls, raced>> PROVE SoloInv'
    BY <1>0 DEF SoloInv, Session, Party, Overlap
  <1>1. ASSUME NEW p \in Profiles, NEW c \in Calls, Invite(p, c) PROVE SoloInv'
    <2> SUFFICES ASSUME ~raced' PROVE SoloInv'
      BY DEF SoloInv
    <2>1. /\ ~raced /\ stage[c] = "sent"
          /\ \A d \in Calls : stage[d] = "check" => ~Overlap(c, d)
      BY <1>1 DEF Invite
    <2>2. /\ \A d \in Calls : d # c => stage'[d] = IF d \in Pruned THEN "over" ELSE stage[d]
          /\ stage'[c] = IF Busy(c) THEN "over" ELSE "check"
      BY <1>1 DEF Invite, Ended, ServerInv
    <2>3. \A r \in Profiles : /\ userCalls'[r] = CallOf(r)
             /\ CallOf(r) = IF \E d \in Pruned : Party(d, r) THEN None ELSE userCalls[r]
      BY <1>1 DEF Invite, CallOf, Freed
    <2>4. \A d \in Calls, r \in Profiles : Party(d, r)' <=> Party(d, r)
      BY <1>1 DEF Invite, Party
    <2>5. ASSUME NEW d \in Calls, NEW r \in Profiles, Session(d)', Party(d, r)'
          PROVE  userCalls'[r] = d
      <3>1. d # c /\ d \notin Pruned /\ Session(d) /\ Party(d, r)
        BY <2>2, <2>4, <2>5 DEF Session, CallStates
      <3>2. userCalls[r] = d
        BY <2>1, <3>1 DEF SoloInv
      <3>3. \A e \in Pruned : ~Party(e, r)
        BY <2>1, <3>1, <3>2 DEF SoloInv
      <3> QED
        BY <2>3, <3>2, <3>3
    <2>6. ASSUME NEW d \in Calls, NEW r \in Profiles, stage'[d] = "check", Party(d, r)'
          PROVE  userCalls'[r] = None
      <3>1. CASE d = c
        BY <2>2, <2>3, <2>4, <2>6, <3>1 DEF Busy
      <3>2. CASE d # c
        BY <2>1, <2>2, <2>3, <2>4, <2>6, <3>2 DEF SoloInv
      <3> QED
        BY <3>1, <3>2
    <2>7. ASSUME NEW d \in Calls, NEW e \in Calls, stage'[d] = "check", stage'[e] = "check",
                 Overlap(d, e)'
          PROVE  d = e
      <3>1. Overlap(d, e) /\ Overlap(e, d)
        BY <2>4, <2>7 DEF Overlap
      <3> QED
        BY <2>1, <2>2, <2>7, <3>1 DEF SoloInv
    <2> QED
      BY <2>5, <2>6, <2>7 DEF SoloInv
  <1>2. ASSUME NEW p \in Profiles, AcceptCall(p) PROVE SoloInv'
    <2>1. CASE ~RingsFor(p, Head(up[p]).peer)
      BY <1>2, <2>1, DeletingSolo DEF AcceptCall, DeleteSessions
    <2>2. CASE RingsFor(p, Head(up[p]).peer)
      <3> SUFFICES ASSUME ~raced' PROVE SoloInv'
        BY DEF SoloInv
      <3>1. /\ ~raced
            /\ CallOf(p) \in Calls /\ CallOf(p) \notin Pruned /\ stage[CallOf(p)] = "RINGING"
        BY <1>2, <2>2, CallOfFacts DEF AcceptCall, RingsFor
      <3>2. /\ \A d \in Calls : d # CallOf(p) =>
                   stage'[d] = IF d \in Pruned THEN "over" ELSE stage[d]
            /\ stage'[CallOf(p)] = "ACTIVE"
        BY <1>2, <2>2, <3>1 DEF AcceptCall, Ended, ServerInv
      <3>3. \A r \in Profiles :
               userCalls'[r] = IF \E d \in Pruned : Party(d, r) THEN None ELSE userCalls[r]
        BY <1>2 DEF AcceptCall, Freed
      <3>4. \A d \in Calls, r \in Profiles : Party(d, r)' <=> Party(d, r)
        BY <1>2 DEF AcceptCall, Party
      <3>5. ASSUME NEW d \in Calls, NEW r \in Profiles, Session(d)', Party(d, r)'
            PROVE  userCalls'[r] = d
        <4>1. d \notin Pruned /\ Session(d) /\ Party(d, r)
          BY <3>1, <3>2, <3>4, <3>5 DEF Session, CallStates
        <4>2. userCalls[r] = d
          BY <3>1, <4>1 DEF SoloInv
        <4>3. \A e \in Pruned : ~Party(e, r)
          BY <3>1, <4>1, <4>2 DEF SoloInv
        <4> QED
          BY <3>3, <4>2, <4>3
      <3>6. ASSUME NEW d \in Calls, NEW r \in Profiles, stage'[d] = "check", Party(d, r)'
            PROVE  userCalls'[r] = None
        BY <3>1, <3>2, <3>3, <3>4, <3>6 DEF SoloInv
      <3>7. ASSUME NEW d \in Calls, NEW e \in Calls, stage'[d] = "check",
                   stage'[e] = "check", Overlap(d, e)'
            PROVE  d = e
        BY <3>1, <3>2, <3>4, <3>7 DEF SoloInv, Overlap
      <3> QED
        BY <3>5, <3>6, <3>7 DEF SoloInv
    <2> QED
      BY <2>1, <2>2
  <1>3. ASSUME NEW p \in Profiles, DeclineCall(p) PROVE SoloInv'
    <2>1. RingsFor(p, Head(up[p]).peer) =>
            Pruned \union {CallOf(p)} \in SUBSET {c \in Calls : Session(c)}
      BY CallOfFacts DEF RingsFor
    <2> QED
      BY <1>3, <2>1, DeletingSolo DEF DeclineCall
  <1>4. ASSUME NEW p \in Profiles, NEW kind, Relay(p, kind) PROVE SoloInv'
    BY <1>4, DeletingSolo DEF Relay
  <1>5. ASSUME NEW p \in Profiles, EndCall(p) PROVE SoloInv'
    <2>1. CallOf(p) # None => Pruned \union {CallOf(p)} \in SUBSET {c \in Calls : Session(c)}
      BY CallOfFacts
    <2> QED
      BY <1>5, <2>1, DeletingSolo DEF EndCall
  <1>6. ASSUME NEW p \in Profiles, HandleDisconnect(p) PROVE SoloInv'
    <2>1. userCalls[p] # None => {userCalls[p]} \in SUBSET {c \in Calls : Session(c)}
      BY DEF ServerInv, BusyIsInCall
    <2> QED
      BY <1>6, <1>0, <2>1, DeletingSolo DEF HandleDisconnect
  <1>7. ASSUME NEW c \in Calls, Refuse(c) PROVE SoloInv'
    BY <1>7 DEF Refuse, SoloInv, ServerInv, Session, Party, Overlap, CallStates
  <1>8. ASSUME NEW c \in Calls, Register(c) PROVE SoloInv'
    <2> SUFFICES ASSUME ~raced' PROVE SoloInv'
      BY DEF SoloInv
    <2>1. /\ ~raced /\ stage[c] = "check"
          /\ \A d \in Calls : stage'[d] = IF d = c THEN "RINGING" ELSE stage[d]
          /\ \A r \in Profiles : userCalls'[r] = IF Party(c, r) THEN c ELSE userCalls[r]
          /\ \A d \in Calls, r \in Profiles : Party(d, r)' <=> Party(d, r)
      BY <1>8 DEF Register, ServerInv, Party
    <2>2. ASSUME NEW d \in Calls, NEW r \in Profiles, Session(d)', Party(d, r)'
          PROVE  userCalls'[r] = d
      <3>1. CASE d = c
        BY <2>1, <2>2, <3>1
      <3>2. CASE d # c
        <4>1. userCalls[r] = d
          BY <2>1, <2>2, <3>2 DEF SoloInv, Session
        <4>2. ~Party(c, r)
          BY <2>1, <4>1 DEF SoloInv
        <4> QED
          BY <2>1, <4>1, <4>2
      <3> QED
        BY <3>1, <3>2
    <2>3. ASSUME NEW d \in Calls, NEW r \in Profiles, stage'[d] = "check", Party(d, r)'
          PROVE  userCalls'[r] = None
      <3>1. d # c /\ stage[d] = "check" /\ Party(d, r)
        BY <2>1, <2>3
      <3>2. ~Party(c, r)
        BY <2>1, <3>1 DEF SoloInv, Overlap
      <3> QED
        BY <2>1, <3>1, <3>2 DEF SoloInv
    <2>4. ASSUME NEW d \in Calls, NEW e \in Calls, stage'[d] = "check", stage'[e] = "check",
                 Overlap(d, e)'
          PROVE  d = e
      BY <2>1, <2>4 DEF SoloInv, Overlap
    <2> QED
      BY <2>2, <2>3, <2>4 DEF SoloInv
  <1>9. ASSUME NEW c \in Calls, Announce(c) \/ Expire(c) PROVE SoloInv'
    BY <1>9, <1>0 DEF Announce, Expire
  <1>10. ASSUME NEW p \in Profiles, NEW q \in Profiles, NEW c \in Calls, InitiateCall(p, q, c)
         PROVE SoloInv'
    BY <1>10 DEF InitiateCall, SoloInv, ServerInv, Session, Party, Overlap, CallStates
  <1>11. ASSUME NEW p \in Profiles, Client(p) PROVE SoloInv'
    <2>1. UNCHANGED <<stage, from, to, userCalls, raced>>
             \/ \E q \in Profiles, c \in Calls : InitiateCall(p, q, c)
      BY <1>11 DEF Client, PressAccept, PressDecline, HangUp, GetIncoming, GetAccepted,
                   GetOffer, GetAnswer, GetEnded, FetchIce, GetUserMedia, SetupFails,
                   ConnectionLost, LoseSocket, serverVars
    <2> QED
      BY <2>1, <1>0, <1>10
  <1>12. CASE UNCHANGED vars
    BY <1>12, <1>0 DEF vars, serverVars
  <1> QED
    BY <1>1, <1>2, <1>3, <1>4, <1>5, <1>6, <1>7, <1>8, <1>9, <1>11, <1>12 DEF Next, Serve

(* "A profile can only participate in at most one active call", unless two *)
(* invitations of that Profile are between check and registration at once. *)
THEOREM NoTwoCalls == Spec => []OneCallEach
  <1>1. Init => SoloInv
    BY DEF Init, SoloInv, Session, CallStates
  <1>2. SoloInv => OneCallEach
    BY DEF SoloInv, OneCallEach
  <1> QED
    BY <1>1, <1>2, SoloStep, TypeInvHolds, PTL DEF Spec

-----------------------------------------------------------------------------
(* Every acceptance on its way to the server was pressed by its sender. *)
AcceptSent ==
    \A p \in Profiles : \A i \in 1..Len(up[p]) :
        up[p][i].kind = "accept" => <<p, up[p][i].peer>> \in agreed

(* Taking a message leaves the others as they are. *)
LEMMA ReceivingSent ==
    ASSUME ClientInv, AcceptSent, NEW p \in Profiles, NEW kind, Receive(p, kind),
           UNCHANGED agreed
    PROVE  AcceptSent' /\ (kind = "accept" => <<p, Head(up[p]).peer>> \in agreed)
  <1>1. up[p] \in Seq(Message) /\ up[p] # <<>>
    BY DEF Receive, ClientInv
  <1>2. /\ Len(up[p]) \in Nat /\ Len(up[p]) >= 1
        /\ Head(up[p]) = up[p][1]
        /\ Len(Tail(up[p])) = Len(up[p]) - 1
        /\ \A i \in 1..Len(Tail(up[p])) : Tail(up[p])[i] = up[p][i + 1]
    BY <1>1
  <1>3. \A r \in Profiles : up'[r] = IF r = p THEN Tail(up[p]) ELSE up[r]
    BY DEF Receive, ClientInv
  <1>4. \A i \in 1..Len(Tail(up[p])) :
          Tail(up[p])[i].kind = "accept" => <<p, Tail(up[p])[i].peer>> \in agreed
    BY <1>2 DEF AcceptSent
  <1>5. AcceptSent'
    BY <1>3, <1>4 DEF AcceptSent
  <1>6. kind = "accept" => <<p, Head(up[p]).peer>> \in agreed
    BY <1>2 DEF AcceptSent, Receive
  <1> QED
    BY <1>5, <1>6

(* Sending anything but an acceptance nobody pressed adds none. *)
LEMMA SendingSent ==
    ASSUME ClientInv, AcceptSent, NEW p \in Profiles, NEW kind, NEW q, Send(p, kind, q),
           agreed \subseteq agreed', kind = "accept" => <<p, q>> \in agreed'
    PROVE  AcceptSent'
  <1>1. up[p] \in Seq(Message)
    BY DEF ClientInv
  <1>2. /\ Len(up[p]) \in Nat
        /\ Len(Append(up[p], Msg(kind, q))) = Len(up[p]) + 1
        /\ \A i \in 1..Len(up[p]) : Append(up[p], Msg(kind, q))[i] = up[p][i]
        /\ Append(up[p], Msg(kind, q))[Len(up[p]) + 1] = Msg(kind, q)
    BY <1>1
  <1>3. \A r \in Profiles : up'[r] = IF r = p THEN Append(up[p], Msg(kind, q)) ELSE up[r]
    BY DEF Send, ClientInv
  <1>4. \A i \in 1..(Len(up[p]) + 1) :
          Append(up[p], Msg(kind, q))[i].kind = "accept"
             => <<p, Append(up[p], Msg(kind, q))[i].peer>> \in agreed'
    <2> TAKE i \in 1..(Len(up[p]) + 1)
    <2>1. CASE i \in 1..Len(up[p])
      BY <1>2, <2>1 DEF AcceptSent
    <2>2. CASE i = Len(up[p]) + 1
      BY <1>2, <2>2 DEF Msg
    <2> QED
      BY <1>2, <2>1, <2>2
  <1> QED
    BY <1>2, <1>3, <1>4 DEF AcceptSent

(* Only an acceptance of the callee, of the caller it names, makes a       *)
(* session ACTIVE.                                                         *)
AcceptInv == AcceptSent /\ ActiveIsAccepted

(* Every step keeps that an ACTIVE session was accepted. *)
LEMMA AcceptStep == TypeInv /\ AcceptInv /\ [Next]_vars => AcceptInv'
  <1> SUFFICES ASSUME TypeInv, AcceptInv, [Next]_vars PROVE AcceptInv'
    OBVIOUS
  <1>a. ServerInv /\ ClientInv /\ AcceptSent /\ ActiveIsAccepted
    BY DEF TypeInv, AcceptInv
  <1> USE CallsAssumption, <1>a
  <1>b. ASSUME UNCHANGED <<from, to>>, agreed \subseteq agreed',
               \A c \in Calls : stage'[c] = "ACTIVE" => stage[c] = "ACTIVE"
        PROVE  ActiveIsAccepted'
    BY <1>b DEF ActiveIsAccepted
  <1>c. ASSUME UNCHANGED up, agreed \subseteq agreed' PROVE AcceptSent'
    BY <1>c DEF AcceptSent
  <1>d. \A C \in SUBSET Calls, c \in Calls : Ended(C)[c] = "ACTIVE" => stage[c] = "ACTIVE"
    BY DEF Ended
  <1>e. Pruned \in SUBSET Calls
    BY DEF Pruned, ServerInv
  <1>1. ASSUME NEW p \in Profiles, NEW c \in Calls, Invite(p, c) PROVE AcceptInv'
    <2>1. \A d \in Calls : stage'[d] = "ACTIVE" => stage[d] = "ACTIVE"
      BY <1>1 DEF Invite, Ended
    <2> QED
      BY <1>1, <1>b, <2>1, ReceivingSent DEF Invite, AcceptInv
  <1>2. ASSUME NEW p \in Profiles, AcceptCall(p) PROVE AcceptInv'
    <2>1. AcceptSent' /\ <<p, Head(up[p]).peer>> \in agreed
      BY <1>2, ReceivingSent DEF AcceptCall
    <2>2. CASE ~RingsFor(p, Head(up[p]).peer)
      BY <1>2, <1>b, <1>d, <1>e, <2>1, <2>2 DEF AcceptCall, AcceptInv
    <2>3. CASE RingsFor(p, Head(up[p]).peer)
      <3>1. CallOf(p) \in Calls /\ to[CallOf(p)] = p /\ from[CallOf(p)] = Head(up[p]).peer
        BY <2>3, CallOfFacts DEF RingsFor
      <3>2. \A d \in Calls : stage'[d] = "ACTIVE" => d = CallOf(p) \/ stage[d] = "ACTIVE"
        BY <1>2, <2>3, <3>1 DEF AcceptCall, Ended
      <3>3. ActiveIsAccepted'
        BY <1>2, <2>1, <3>1, <3>2 DEF AcceptCall, ActiveIsAccepted
      <3> QED
        BY <2>1, <3>3 DEF AcceptInv
    <2> QED
      BY <2>2, <2>3
  <1>3. ASSUME NEW p \in Profiles, DeclineCall(p) \/ EndCall(p) PROVE AcceptInv'
    <2>1. \A d \in Calls : stage'[d] = "ACTIVE" => stage[d] = "ACTIVE"
      BY <1>3 DEF DeclineCall, EndCall, DeleteSessions, Ended
    <2> QED
      BY <1>3, <1>b, <2>1, ReceivingSent DEF DeclineCall, EndCall, AcceptInv
  <1>4. ASSUME NEW p \in Profiles, NEW kind, Relay(p, kind) PROVE AcceptInv'
    BY <1>4, <1>b, <1>d, <1>e, ReceivingSent DEF Relay, DeleteSessions, AcceptInv
  <1>5. ASSUME NEW p \in Profiles, HandleDisconnect(p) PROVE AcceptInv'
    <2>1. \A d \in Calls : stage'[d] = "ACTIVE" => stage[d] = "ACTIVE"
      BY <1>5 DEF HandleDisconnect, DeleteSessions, Ended
    <2> QED
      BY <1>5, <1>b, <1>c, <2>1 DEF HandleDisconnect, AcceptInv
  <1>6. ASSUME NEW c \in Calls, Refuse(c) \/ Register(c) \/ Announce(c) \/ Expire(c)
        PROVE  AcceptInv'
    <2>1. \A d \in Calls : stage'[d] = "ACTIVE" => stage[d] = "ACTIVE"
      BY <1>6 DEF Refuse, Register, Announce, Expire, ServerInv
    <2> QED
      BY <1>6, <1>b, <1>c, <2>1 DEF Refuse, Register, Announce, Expire, AcceptInv
  <1>7. ASSUME NEW p \in Profiles, NEW q \in Profiles, NEW c \in Calls, InitiateCall(p, q, c)
        PROVE AcceptInv'
    <2>1. AcceptSent'
      BY <1>7, SendingSent DEF InitiateCall
    <2>2. ActiveIsAccepted'
      BY <1>7 DEF InitiateCall, ServerInv, ActiveIsAccepted
    <2> QED
      BY <2>1, <2>2 DEF AcceptInv
  <1>8. ASSUME NEW p \in Profiles,
               PressAccept(p) \/ PressDecline(p) \/ HangUp(p) \/ SetupFails(p)
        PROVE  AcceptInv'
    <2>1. AcceptSent'
      BY <1>8, <1>c, SendingSent DEF PressAccept, PressDecline, HangUp, SetupFails
    <2>2. ActiveIsAccepted'
      BY <1>8, <1>b DEF PressAccept, PressDecline, HangUp, SetupFails, serverVars
    <2> QED
      BY <2>1, <2>2 DEF AcceptInv
  <1>9. ASSUME NEW p \in Profiles, GetUserMedia(p) PROVE AcceptInv'
    <2>1. job[p].sends # "accept"
      BY DEF ClientInv, Jobs
    <2>2. AcceptSent'
      BY <1>9, <2>1, SendingSent DEF GetUserMedia
    <2> QED
      BY <1>9, <1>b, <2>2 DEF GetUserMedia, serverVars, AcceptInv
  <1>10. ASSUME NEW p \in Profiles,
                \/ GetIncoming(p) \/ GetAccepted(p) \/ GetOffer(p) \/ GetAnswer(p)
                \/ GetEnded(p) \/ FetchIce(p) \/ ConnectionLost(p) \/ LoseSocket(p)
         PROVE  AcceptInv'
    <2>1. UNCHANGED <<stage, from, to, up, agreed>>
      BY <1>10 DEF GetIncoming, GetAccepted, GetOffer, GetAnswer, GetEnded, FetchIce,
                   ConnectionLost, LoseSocket, serverVars
    <2> QED
      BY <2>1, <1>b, <1>c DEF AcceptInv
  <1>11. CASE UNCHANGED vars
    BY <1>11, <1>b, <1>c DEF vars, serverVars, AcceptInv
  <1> QED
    BY <1>1, <1>2, <1>3, <1>4, <1>5, <1>6, <1>7, <1>8, <1>9, <1>10, <1>11
    DEF Next, Serve, Client

(* A session is ACTIVE only when its callee accepted a call of its caller, *)
(* whatever messages of other calls are under way.                         *)
THEOREM ActiveWasAccepted == Spec => []ActiveIsAccepted
  <1>1. Init => AcceptInv
    BY DEF Init, AcceptInv, AcceptSent, ActiveIsAccepted
  <1>2. AcceptInv => ActiveIsAccepted
    BY DEF AcceptInv
  <1> QED
    BY <1>1, <1>2, AcceptStep, TypeInvHolds, PTL DEF Spec
=============================================================================
