--------------------------- MODULE RemoteSessions --------------------------
(***************************************************************************)
(* Remote desktop sessions end to end: the control plane (RemoteService),  *)
(* the host on the computer that is looked at (services/agent/internal/    *)
(* agent/remote.go and internal/remote/peer.go), the viewer                *)
(* (apps/desktop/frontend/src/lib/remote.ts, screens/RemoteScreen.tsx) and *)
(* the direct connection between the two.                                  *)
(*                                                                         *)
(* The viewer offers and the host answers, both by way of the mailbox; the *)
(* direct connection is the network's affair from then on.  Any request    *)
(* may be lost, and so may the answer to it.                               *)
(***************************************************************************)
EXTENDS RemoteService

CONSTANTS
  Steady,  \* the agents that are assumed to keep running
  Reached  \* bound: the sessions whose ticket and grant may arrive

ASSUME HostConstants == Steady \subseteq Agent /\ Reached \subseteq Session

VARIABLES
  polling,   \* polling[a]: the request for grants that a waits for
  granted,   \* granted[a]: the sessions whose grants a has in hand
  accepted,  \* accepted[a]: the grants the replay guard of a remembers
  peers,     \* peers[s]: the host of session s
  starts,    \* history: how often s was started since its host's last restart
  windows,   \* windows[s]: the viewer of session s
  linked     \* the sessions whose two peers are connected

hostVars == <<polling, granted, accepted, peers, starts>>

peerVars == <<polling, granted, accepted, peers, starts, windows, linked>>

vars == <<serviceVars, peerVars>>
-----------------------------------------------------------------------------
Init ==
  /\ ServiceInit
  /\ polling = [a \in Agent |-> None]
  /\ granted = [a \in Agent |-> {}]
  /\ accepted = [a \in Agent |-> {}]
  /\ peers = [s \in Session |-> "none"]
  /\ starts = [s \in Session |-> 0]
  /\ windows = [s \in Session |-> "none"]
  /\ linked = {}
-----------------------------------------------------------------------------
(* pollRemote.                                                             *)

StartPoll(k, a) ==
  /\ polling[a] = None /\ granted[a] = {}
  /\ \E offline \in SUBSET Agent : PollGrants(k, a, offline)
  /\ polling' = [polling EXCEPT ![a] = k]
  /\ UNCHANGED <<granted, accepted, peers, starts, windows, linked>>

(* The answer is heard if the agent still waits for it and it is not lost. *)
Granted(k) ==
  LET a == calls[k].agent
  IN /\ AnswerGrants(k)
     /\ polling' = [polling EXCEPT ![a] = IF polling[a] = k THEN None ELSE polling[a]]
     /\ \/ polling[a] = k /\ granted' = [granted EXCEPT ![a] = GrantsFor(a) \cap Reached]
        \/ UNCHANGED granted
     /\ UNCHANGED <<accepted, peers, starts, windows, linked>>

GiveUpPoll(a) ==
  /\ polling[a] # None
  /\ polling' = [polling EXCEPT ![a] = None]
  /\ UNCHANGED <<granted, accepted, peers, starts, windows, linked>>
  /\ UNCHANGED serviceVars

(* Variant: a grant that is no longer running may be started again.        *)
VerifiedAgain(a, s) == rows[s].age \in {"fresh", "late"}

(* Verify: the grant has not expired and was not used before.              *)
Verified(a, s) == rows[s].age \in {"fresh", "late"} /\ s \notin accepted[a]

(* startRemoteSession.  What the verifier has accepted is started unless   *)
(* it is running (sessions.claim).                                         *)
StartSession(a, s) ==
  /\ s \in granted[a]
  /\ granted' = [granted EXCEPT ![a] = granted[a] \ {s}]
  /\ IF Verified(a, s)
     THEN /\ accepted' = [accepted EXCEPT ![a] = accepted[a] \cup {s}]
          /\ IF peers[s] = "none"
             THEN /\ peers' = [peers EXCEPT ![s] = "waiting"]
                  /\ starts' = [starts EXCEPT ![s] = starts[s] + 1]
             ELSE UNCHANGED <<peers, starts>>
     ELSE UNCHANGED <<accepted, peers, starts>>
  /\ UNCHANGED <<polling, windows, linked>>
  /\ UNCHANGED serviceVars

(* The process ends and is started again, with an empty replay guard; its  *)
(* peer connections end with it (closeAll, or the machine going down).     *)
Restart(a) ==
  LET mine == {s \in Session : rows[s].agent = a}
  IN /\ polling' = [polling EXCEPT ![a] = None]
     /\ granted' = [granted EXCEPT ![a] = {}]
     /\ accepted' = [accepted EXCEPT ![a] = {}]
     /\ peers' = [s \in Session |-> IF s \in mine THEN "none" ELSE peers[s]]
     /\ starts' = [s \in Session |-> IF s \in mine THEN 0 ELSE starts[s]]
     /\ linked' = linked \ mine
     /\ UNCHANGED windows
     /\ UNCHANGED serviceVars
-----------------------------------------------------------------------------
(* Run, of the host.                                                       *)

(* negotiate: the offer is collected, or lost with the answer to a poll.   *)
CollectOffer(s) ==
  /\ peers[s] = "waiting"
  /\ CollectSignal(s, "offer")
  /\ \E next \in {"waiting", "answering"} : peers' = [peers EXCEPT ![s] = next]
  /\ UNCHANGED <<polling, granted, accepted, starts, windows, linked>>

(* The answer is posted.  A post that fails ends the host (StopHost).      *)
PostAnswer(k, s) ==
  /\ peers[s] = "answering"
  /\ PostSignal(k, s, "answer")
  /\ peers' = [peers EXCEPT ![s] = "answered"]
  /\ UNCHANGED <<polling, granted, accepted, starts, windows, linked>>

(* The host reports the connection and streams whether or not the report   *)
(* arrives: ReportConnected is a report that does, or that is refused.     *)
ReportConnected(k, s) ==
  /\ peers[s] = "up"
  /\ ReadConnected(k, s)
  /\ peers' = [peers EXCEPT ![s] = "streaming"]
  /\ UNCHANGED <<polling, granted, accepted, starts, windows, linked>>

StreamUnreported(s) ==
  /\ peers[s] = "up"
  /\ peers' = [peers EXCEPT ![s] = "streaming"]
  /\ UNCHANGED <<polling, granted, accepted, starts, windows, linked>>
  /\ UNCHANGED serviceVars

(* No offer, no connection in 45 seconds, or a request that failed.        *)
StopHost(s) ==
  /\ peers[s] \in {"waiting", "answering", "answered"}
  /\ peers' = [peers EXCEPT ![s] = "none"]
  /\ UNCHANGED <<polling, granted, accepted, starts, windows, linked>>
  /\ UNCHANGED serviceVars

(* OnConnectionStateChange: the connection is gone, and the host finishes. *)
FinishHost(s) ==
  /\ peers[s] \in {"up", "streaming"}
  /\ s \notin linked
  /\ peers' = [peers EXCEPT ![s] = "none"]
  /\ UNCHANGED <<polling, granted, accepted, starts, windows, linked>>
  /\ UNCHANGED serviceVars
-----------------------------------------------------------------------------
(* The viewer.                                                             *)

(* The ticket arrives and a window opens on it, or it is lost.             *)
ReceiveTicket(k, s) ==
  /\ CreateSession(k, s)
  /\ \E next \in {"opened", "closed"} :
       /\ next = "opened" => s \in Reached
       /\ windows' = [windows EXCEPT ![s] = next]
  /\ UNCHANGED <<polling, granted, accepted, peers, starts, linked>>

(* start                                                                   *)
PostOffer(k, s) ==
  /\ windows[s] = "opened"
  /\ PostSignal(k, s, "offer")
  /\ windows' = [windows EXCEPT ![s] = "offered"]
  /\ UNCHANGED <<polling, granted, accepted, peers, starts, linked>>

(* poll: the answer is taken up, or lost with the answer to the poll.  A   *)
(* poll that was on its way when the window began to close still counts.   *)
CollectAnswer(s) ==
  /\ windows[s] \in {"offered", "leaving"}
  /\ CollectSignal(s, "answer")
  /\ \/ UNCHANGED windows
     \/ windows' = [windows EXCEPT ![s] = IF windows[s] = "offered" THEN "described" ELSE "parting"]
  /\ UNCHANGED <<polling, granted, accepted, peers, starts, linked>>

(* heartbeat; what it answers is not looked at.                            *)
Beat(s) ==
  /\ windows[s] \in {"opened", "offered", "described"}
  /\ Heartbeat(s)
  /\ UNCHANGED peerVars

(* close, because the window goes away or the connection failed: no more   *)
(* heartbeats, the session is ended in the control plane if the request    *)
(* arrives, and only then is the connection closed: one that is parting    *)
(* has taken up the answer and may still connect.                          *)
Parting(s) == IF windows[s] = "described" THEN "parting" ELSE "leaving"

Leave(k, s) ==
  /\ windows[s] \in {"opened", "offered", "described"}
  /\ EndSession(k, s)
  /\ windows' = [windows EXCEPT ![s] = Parting(s)]
  /\ UNCHANGED <<polling, granted, accepted, peers, starts, linked>>

LeaveUnheard(s) ==
  /\ windows[s] \in {"opened", "offered", "described"}
  /\ windows' = [windows EXCEPT ![s] = Parting(s)]
  /\ UNCHANGED <<polling, granted, accepted, peers, starts, linked>>
  /\ UNCHANGED serviceVars

(* Variant: the connection is left to close by itself.                     *)
LinksLeftOpen(s) == linked

(* The connection is closed with the window.                               *)
LinksWithout(s) == linked \ {s}

CloseWindow(s) ==
  /\ windows[s] \in {"leaving", "parting"}
  /\ windows' = [windows EXCEPT ![s] = "closed"]
  /\ linked' = LinksWithout(s)
  /\ UNCHANGED hostVars
  /\ UNCHANGED serviceVars
-----------------------------------------------------------------------------
(* The direct connection.                                                  *)
Connect(s) ==
  /\ windows[s] \in {"described", "parting"} /\ peers[s] = "answered"
  /\ linked' = linked \cup {s}
  /\ peers' = [peers EXCEPT ![s] = "up"]
  /\ UNCHANGED <<polling, granted, accepted, starts, windows>>
  /\ UNCHANGED serviceVars

Disconnect(s) ==
  /\ s \in linked
  /\ linked' = linked \ {s}
  /\ UNCHANGED <<windows, hostVars>>
  /\ UNCHANGED serviceVars
-----------------------------------------------------------------------------
(* A request that the control plane has begun to serve.                    *)
Serve(k) ==
  \/ \E s \in Session : CloseRead(k, s) /\ UNCHANGED peerVars
  \/ CloseWrite(k) /\ UNCHANGED peerVars
  \/ Answer(k) /\ UNCHANGED peerVars
  \/ LookForLive(k) /\ UNCHANGED peerVars
  \/ \E s \in Session : ReceiveTicket(k, s)
  \/ CreateFails(k) /\ UNCHANGED peerVars
  \/ MarkConnecting(k) /\ UNCHANGED peerVars
  \/ AppendSignal(k) /\ UNCHANGED peerVars
  \/ Granted(k)
  \/ MarkConnected(k) /\ UNCHANGED peerVars

Member(k) ==
  \/ \E a \in Agent, ch \in Challenge \cup {None}, offline \in SUBSET Agent :
       AskSession(k, a, ch, offline) /\ UNCHANGED peerVars
  \/ \E offline \in SUBSET Agent : ListSessions(k, offline) /\ UNCHANGED peerVars
  \/ \E s \in Session : EndSession(k, s) /\ UNCHANGED peerVars
  \/ \E viewed \in SUBSET Session : EndSessionsForDevice(k, viewed) /\ UNCHANGED peerVars

Report(s) == StreamUnreported(s) \/ \E k \in Call : ReportConnected(k, s)

Host(s) ==
  \/ CollectOffer(s)
  \/ \E k \in Call : PostAnswer(k, s)
  \/ Report(s)
  \/ StopHost(s)
  \/ FinishHost(s)

Window(s) ==
  \/ \E k \in Call : PostOffer(k, s)
  \/ CollectAnswer(s)
  \/ Beat(s)
  \/ \E k \in Call : Leave(k, s)
  \/ LeaveUnheard(s)
  \/ CloseWindow(s)

Machine(a) ==
  \/ \E k \in Call : StartPoll(k, a)
  \/ GiveUpPoll(a)
  \/ \E s \in Session : StartSession(a, s)
  \/ Restart(a)

Time(s) ==
  \/ GrowOlder(s) /\ UNCHANGED peerVars
  \/ GoQuiet(s) /\ UNCHANGED peerVars

Next ==
  \/ \E k \in Call : Serve(k) \/ Member(k)
  \/ \E s \in Session : Host(s) \/ Window(s) \/ Connect(s) \/ Disconnect(s) \/ Time(s)
  \/ \E a \in Agent : Machine(a)

Spec == Init /\ [][Next]_vars

(* Sessions grow older; a request that is being served goes on; an agent   *)
(* that keeps running polls every three seconds and starts what it was     *)
(* granted; a host gives up after 45 seconds without a connection and      *)
(* finishes when it has lost the one it had; a window that has begun to    *)
(* close does.  Strong fairness of the poll makes up for the bound on      *)
(* requests in progress, as for power commands.  Nobody has to list        *)
(* sessions, to send a heartbeat, to leave or to stay.                     *)
Fairness ==
  /\ \A k \in Call : WF_vars(Serve(k))
  /\ \A s \in Session :
       /\ WF_vars(GrowOlder(s) /\ UNCHANGED peerVars)
       /\ WF_vars(StopHost(s) \/ FinishHost(s) \/ Report(s))
       /\ WF_vars(CloseWindow(s))
  /\ \A a \in Steady :
       /\ WF_vars(\E s \in Session : StartSession(a, s))
       /\ SF_vars(\E k \in Call : StartPoll(k, a))

FairSpec == Spec /\ Fairness
-----------------------------------------------------------------------------
(* How these implement SessionStream: a stream runs while its host is up,  *)
(* and is over when it does not run and its one offer has been used.       *)

PostsOffer(k, s) ==
  calls[k].phase = "posting" /\ calls[k].session = s /\ calls[k].message = "offer"

(* The host has collected the offer and goes on with it.                   *)
Taken(s) == peers[s] \in {"answering", "answered", "up", "streaming"}

Up(s) == peers[s] \in {"up", "streaming"}

(* The window will send no offer, none is on its way, none is in use.      *)
OfferUsed(s) ==
  /\ windows[s] \notin {"none", "opened"}
  /\ \A k \in Call : ~PostsOffer(k, s)
  /\ "offer" \notin mail[s]
  /\ ~Taken(s)

StreamState(s) == IF Up(s) THEN "running" ELSE IF OfferUsed(s) THEN "over" ELSE "ahead"

Stream == INSTANCE SessionStream WITH stream <- [s \in Session |-> StreamState(s)]

(* A stream that has stopped does not come back in the same session,       *)
(* whatever grants are replayed, requests repeated or windows forgotten:   *)
(* the window offers once (start of remote.ts), the mailbox delivers a     *)
(* message once (collectSignals), and a host answers only an offer that it *)
(* has collected (negotiate).                                              *)
StreamsOnce == Stream!Spec
-----------------------------------------------------------------------------
(* Types of all variables (schema.prisma RemoteSession; remote.go, peer.go *)
(* and remote.ts).                                                         *)
TypeOK ==
  /\ rows \in [Session -> Row]
  /\ mail \in [Session -> SUBSET Message]
  /\ spent \subseteq Challenge
  /\ calls \in [Call -> CallState]
  /\ polling \in [Agent -> Call \cup {None}]
  /\ granted \in [Agent -> SUBSET Session]
  /\ accepted \in [Agent -> SUBSET Session]
  /\ peers \in [Session -> {"none", "waiting", "answering", "answered", "up", "streaming"}]
  /\ starts \in [Session -> Nat]
  /\ windows \in [Session -> {"none", "opened", "offered", "described", "leaving", "parting",
                           "closed"}]
  /\ linked \subseteq Session

(* A grant is handed out again and again until the connection is reported, *)
(* but a host process starts its session once: not a second time while the *)
(* first runs, and not after it has failed (sessions.claim and the replay  *)
(* guard, between them).                                                   *)
StartedOncePerLife == \A s \in Session : starts[s] <= 1

(* A session whose peers have met is never put back to connecting, where   *)
(* the sweep would end it after 45 seconds although it streams: whoever    *)
(* can answer an offer finds the session marked already (postSignal's      *)
(* order).                                                                 *)
NeverBackToConnecting ==
  [][\A s \in Session : rows[s].state = "active" => rows'[s].state # "connecting"]_vars

(* Ended, with no request left that read the session before its end and    *)
(* writes after it.                                                        *)
EndedForGood(s) ==
  rows[s].state = "ended" /\ \A k \in Call : calls[k].session # s

(* Once such an end is reached it is final, whatever the two peers still   *)
(* send: no request even begins on the session (the looks at `ended` in    *)
(* postSignal, markConnected and close).                                   *)
QuietEndIsFinal ==
  [][\A s \in Session : EndedForGood(s) => EndedForGood(s)']_vars

(* While any agent keeps polling, no session stays live for ever: not one  *)
(* that never connected, whose host is gone, or whose window is forgotten  *)
(* on a screen and goes on sending heartbeats (expireStale, on every read).*)
EverySessionEnds ==
  Steady # {} =>
    \A s \in Session : IsLive(s) ~> ~IsLive(s)

(* "A screen still being streamed to a window nobody is looking at is the  *)
(* one outcome this feature must never produce" (RemoteScreen): a window   *)
(* that is closed takes the connection with it, and the host stops.        *)
ClosedWindowStopsStream ==
  \A s \in Session :
    windows[s] \in {"leaving", "parting"} ~> peers[s] \notin {"up", "streaming"}

(* "A hard ceiling, so a forgotten window cannot watch a screen            *)
(* indefinitely" (contracts/remote.ts): a session the control plane has    *)
(* ended is not streamed for ever.                                         *)
EndedSessionStopsStream ==
  \A s \in Session : rows[s].state = "ended" ~> peers[s] # "streaming"
=============================================================================
