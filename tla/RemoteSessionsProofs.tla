------------------------ MODULE RemoteSessionsProofs ------------------------
(***************************************************************************)
(* The safety properties of RemoteSessions, for every set of computers,    *)
(* sessions, requests and codes.                                           *)
(*                                                                         *)
(* The argument.  Grants come from the row's own computer, so that what a  *)
(* process was granted and started is checked against one replay guard.    *)
(* Nothing can come of an offer before it lies in the mailbox, and it is   *)
(* put there after the mark: as long as a request has the mark before it   *)
(* there is neither an answer nor a connection, and the window that sent   *)
(* the offer sends no other.  Hence a mark never meets an active row.  A   *)
(* request writes a row's state only when it carries the session, and no   *)
(* request takes up one that has ended.                                    *)
(* And since a host is up only after it met a window that had its answer,  *)
(* so is every report of it and every row such a report makes active.      *)
(* The offer itself is handed on like a baton: the window gives it to one  *)
(* request, that puts it in the mailbox, the host takes it from there.     *)
(* What has held it once does not get it back, so that a stream which has  *)
(* stopped has nothing left to begin again with.                           *)
(***************************************************************************)
EXTENDS RemoteSessions, TLAPS

(* What a request carries when it comes to use it.                         *)
CallsInv ==
  \A k \in Call :
    /\ calls[k].phase \in {"looking", "creating", "granting"} => calls[k].agent \in Agent
    /\ calls[k].phase \in {"posting", "reporting"} <=> calls[k].session # None
    /\ calls[k].phase = "posting" =>
         calls[k].message \in Message /\ calls[k].steps # <<>>

(* A grant is addressed to its session's computer, and a session that was  *)
(* started is in the replay guard of that computer's process.              *)
StartsInv ==
  /\ \A a \in Agent, s \in Session :
       s \in granted[a] => rows[s].agent = a /\ rows[s].state # "none"
  /\ \A s \in Session :
       starts[s] # 0 => /\ starts[s] = 1
                        /\ s \in accepted[rows[s].agent]
                        /\ rows[s].state # "none"

(* The request of k is yet to mark s.                                      *)
Marks(k, s) ==
  calls[k].phase = "posting" /\ calls[k].session = s /\ calls[k].steps = <<"mark", "append">>

(* The offer of s has been marked: whatever comes of it shows that.        *)
Offered(s) ==
  \/ rows[s].state \in {"connecting", "active"}
  \/ mail[s] # {}
  \/ peers[s] \in {"answering", "answered", "up", "streaming"}
  \/ windows[s] = "described"
  \/ \E k \in Call : calls[k].session = s /\ ~Marks(k, s)

MetInv ==
  \A s \in Session :
    /\ Offered(s) => /\ rows[s].state \notin {"none", "pending"}
                     /\ windows[s] \notin {"none", "opened"}
    /\ windows[s] # "none" => rows[s].state # "none"
    /\ \A k \in Call : Marks(k, s) => /\ ~Offered(s)
                                      /\ rows[s].state # "none"
                                      /\ windows[s] \notin {"none", "opened"}
    /\ \A k, m \in Call : Marks(k, s) /\ Marks(m, s) => k = m

(* The inductive invariant.                                                *)
IInv ==
  /\ TypeOK
  /\ CallsInv
  /\ StartsInv
  /\ MetInv
-----------------------------------------------------------------------------
(* The updates of one request.                                             *)
LEMMA CallUpdates ==
  ASSUME NEW call \in CallState
  PROVE  /\ [call EXCEPT !.steps = <<"append">>] \in CallState
         /\ \A s \in Session \cup {None}, todo \in SUBSET Session :
              [call EXCEPT !.todo = todo, !.at = s] \in CallState
         /\ [call EXCEPT !.at = None] \in CallState
BY DEF CallState

(* The updates of one row.                                                 *)
LEMMA RowUpdates ==
  ASSUME NEW row \in Row
  PROVE  /\ \A state \in Live \cup {"none", "ended"} : [row EXCEPT !.state = state] \in Row
         /\ \A age \in Ages : [row EXCEPT !.age = age] \in Row
         /\ \A quiet \in BOOLEAN : [row EXCEPT !.quiet = quiet] \in Row
BY DEF Row

(* How requests move on.                                                   *)
Requests ==
  {"idle", "looking", "creating", "granting", "closing"}

(* No request on a session is begun, and none moves on except to its end.  *)
FewerRequests ==
  \A m \in Call :
    \/ calls'[m].session = None /\ calls'[m].phase # "posting"
    \/ /\ calls'[m].session = calls[m].session
       /\ calls'[m].phase = calls[m].phase
       /\ calls'[m].steps = calls[m].steps

LEMMA OtherRequest ==
  ASSUME calls \in [Call -> CallState], NEW k \in Call, NEW call \in CallState,
         calls' = [calls EXCEPT ![k] = call],
         call.session = None, call.phase \in Requests
  PROVE  FewerRequests
BY DEF FewerRequests, CallState, Requests

LEMMA EndedRequest ==
  ASSUME calls \in [Call -> CallState], NEW k \in Call, calls' = [calls EXCEPT ![k] = NoCall]
  PROVE  FewerRequests
<1>1. NoCall \in CallState /\ NoCall.session = None /\ NoCall.phase \in Requests
  BY DEF NoCall, CallState, Requests
<1> QED BY <1>1, OtherRequest

(* What is left of MetInv when nothing new is sent.                        *)
LEMMA MetStays ==
  ASSUME MetInv, FewerRequests,
         \A s \in Session :
           /\ rows'[s].state = rows[s].state
           /\ mail'[s] = mail[s] /\ peers'[s] = peers[s]
           /\ windows'[s] # windows[s] =>
                windows[s] # "none" /\ windows'[s] \in {"leaving", "parting", "closed"}
  PROVE  MetInv'
<1> SUFFICES ASSUME NEW s \in Session
             PROVE  /\ Offered(s)' => /\ rows'[s].state \notin {"none", "pending"}
                                      /\ windows'[s] \notin {"none", "opened"}
                    /\ windows'[s] # "none" => rows'[s].state # "none"
                    /\ \A k \in Call : Marks(k, s)' => /\ ~Offered(s)'
                                                       /\ rows'[s].state # "none"
                                                       /\ windows'[s] \notin {"none", "opened"}
                    /\ \A k, m \in Call : Marks(k, s)' /\ Marks(m, s)' => k = m
  BY DEF MetInv
<1> s # None
  BY RemoteConstants
<1>1. \A k \in Call : Marks(k, s)' => Marks(k, s)
  BY DEF FewerRequests, Marks
<1>2. Offered(s)' => Offered(s)
  BY DEF FewerRequests, Marks, Offered
<1> QED BY <1>1, <1>2 DEF MetInv

LEMMA NextStepIs ==
  ASSUME calls \in [Call -> CallState], CallsInv, NEW k \in Call,
         NEW step \in {"mark", "append"}, NextStep(k, step)
  PROVE  /\ calls[k].phase = "posting" /\ calls[k].session \in Session
         /\ calls[k].message \in Message
         /\ step = "mark" => /\ calls[k].steps = <<"mark", "append">>
                             /\ calls' = [calls EXCEPT ![k] = [calls[k] EXCEPT !.steps = <<"append">>]]
         /\ step = "append" => /\ calls[k].steps = <<"append">>
                               /\ calls' = [calls EXCEPT ![k] = NoCall]
<1>1. /\ calls[k].phase = "posting" /\ calls[k].session \in Session
      /\ calls[k].message \in Message
      /\ calls[k].steps \in {<<"mark", "append">>, <<"append">>}
  BY DEF NextStep, CallsInv, CallState
<1>2. CASE calls[k].steps = <<"mark", "append">>
  <2>1. /\ Head(calls[k].steps) = "mark" /\ Len(calls[k].steps) = 2
        /\ Tail(calls[k].steps) = <<"append">>
    BY <1>2
  <2>2. step = "mark"
    BY <2>1 DEF NextStep
  <2>3. calls' = [calls EXCEPT ![k] = IF Len(calls[k].steps) = 1 THEN NoCall
                                      ELSE [calls[k] EXCEPT !.steps = Tail(calls[k].steps)]]
    BY DEF NextStep
  <2>4. calls' = [calls EXCEPT ![k] = [calls[k] EXCEPT !.steps = <<"append">>]]
    <3>1. Len(calls[k].steps) # 1
      BY <2>1
    <3>2. calls' = [calls EXCEPT ![k] = [calls[k] EXCEPT !.steps = Tail(calls[k].steps)]]
      BY <2>3, <3>1
    <3> QED BY <2>1, <3>2, Zenon
  <2> QED BY <1>1, <1>2, <2>2, <2>4
<1>3. CASE calls[k].steps = <<"append">>
  <2>1. Head(calls[k].steps) = "append" /\ Len(calls[k].steps) = 1
    BY <1>3
  <2>2. step = "append"
    BY <2>1 DEF NextStep
  <2>3. calls' = [calls EXCEPT ![k] = NoCall]
    BY <2>1 DEF NextStep
  <2> QED BY <1>1, <1>3, <2>2, <2>3
<1> QED BY <1>1, <1>2, <1>3

(* What postSignal makes of the request.                                   *)
LEMMA PostSignalIs ==
  ASSUME calls \in [Call -> CallState], NEW k \in Call, NEW s \in Session,
         NEW message \in Message, PostSignal(k, s, message)
  PROVE  /\ rows[s].state \in Live
         /\ UNCHANGED <<rows, mail, spent>>
         /\ calls' \in [Call -> CallState]
         /\ \A m \in Call \ {k} : calls'[m] = calls[m]
         /\ \/ FewerRequests /\ calls'[k].phase = "closing" /\ calls'[k].session = None
            \/ /\ calls'[k].phase = "posting" /\ calls'[k].session = s
               /\ calls'[k].message = message
               /\ rows[s].state = "pending" => calls'[k].steps = <<"mark", "append">>
               /\ rows[s].state # "pending" => calls'[k].steps = <<"append">>
<1>1. CASE rows[s].state = "pending" /\ rows[s].age \in {"lapsed", "over"}
  <2> DEFINE call == [NoCall EXCEPT !.phase = "closing", !.todo = {s}]
  <2>1. calls' = [calls EXCEPT ![k] = call] /\ UNCHANGED <<rows, mail, spent>>
    BY <1>1 DEF PostSignal
  <2>2. call \in CallState /\ call.session = None /\ call.phase = "closing"
    BY DEF NoCall, CallState
  <2> HIDE DEF call
  <2>3. FewerRequests
    BY <2>1, <2>2, OtherRequest DEF Requests
  <2> QED BY <1>1, <2>1, <2>2, <2>3 DEF Live
<1>2. CASE ~(rows[s].state = "pending" /\ rows[s].age \in {"lapsed", "over"})
  <2> DEFINE call == [NoCall EXCEPT !.phase = "posting", !.steps = Steps(s),
                                    !.session = s, !.message = message]
  <2>1. calls' = [calls EXCEPT ![k] = call] /\ UNCHANGED <<rows, mail, spent>>
    BY <1>2 DEF PostSignal
  <2>2. Steps(s) = IF rows[s].state = "pending" THEN <<"mark", "append">> ELSE <<"append">>
    BY DEF Steps
  <2>3. call \in CallState /\ call.session = s /\ call.phase = "posting"
        /\ call.steps = Steps(s) /\ call.message = message
    BY <2>2 DEF NoCall, CallState, Message
  <2> HIDE DEF call
  <2>4. rows[s].state \in Live
    BY DEF PostSignal, IsLive
  <2> QED BY <2>1, <2>2, <2>3, <2>4
<1> QED BY <1>1, <1>2

-----------------------------------------------------------------------------
(* What each action does to the invariant, part by part.                   *)
LEMMA CloseReadKeeps ==
  ASSUME IInv, NEW k \in Call, NEW s \in Session, CloseRead(k, s), UNCHANGED peerVars
  PROVE  IInv'
<1> USE DEF IInv, TypeOK, peerVars, serviceVars, hostVars
<1>1. TypeOK'
  <2>1. calls' \in [Call -> CallState]
    <3>1. \E at \in Session \cup {None}, todo \in SUBSET Session :
            calls' = [calls EXCEPT ![k] = [calls[k] EXCEPT !.todo = todo, !.at = at]]
      <4>1. calls' = [calls EXCEPT ![k] = [calls[k] EXCEPT
                        !.todo = calls[k].todo \ {s},
                        !.at = IF rows[s].state = "ended" THEN None ELSE s]]
        BY DEF CloseRead
      <4>2. calls[k].todo \ {s} \in SUBSET Session
        BY DEF CallState
      <4> QED BY <4>1, <4>2
    <3>2. PICK at \in Session \cup {None}, todo \in SUBSET Session :
            calls' = [calls EXCEPT ![k] = [calls[k] EXCEPT !.todo = todo, !.at = at]]
      BY <3>1
    <3>3. [calls[k] EXCEPT !.todo = todo, !.at = at] \in CallState
      BY CallUpdates
    <3> QED BY <3>2, <3>3
  <2> QED BY <2>1 DEF CloseRead
<1>2. CallsInv'
  BY DEF CloseRead, Idle, CallsInv
<1>3. StartsInv'
  BY DEF CloseRead, Idle, StartsInv
<1>4. MetInv'
  <2>1. FewerRequests
    BY DEF CloseRead, FewerRequests, CallState
  <2> QED BY <2>1, MetStays DEF CloseRead
<1> QED BY <1>1, <1>2, <1>3, <1>4

LEMMA CloseWriteKeeps ==
  ASSUME IInv, NEW k \in Call, CloseWrite(k), UNCHANGED peerVars
  PROVE  IInv'
<1> USE DEF IInv, TypeOK, peerVars, serviceVars, hostVars
<1>1. TypeOK'
  <2>1. calls[k].at \in Session
    BY DEF CloseWrite, CallState
  <2>2. calls' \in [Call -> CallState]
    <3>1. calls' = [calls EXCEPT ![k] = [calls[k] EXCEPT !.at = None]]
      BY DEF CloseWrite
    <3> QED BY <3>1, CallUpdates
  <2>3. rows' \in [Session -> Row]
    <3>1. rows' = [rows EXCEPT ![calls[k].at] = [rows[calls[k].at] EXCEPT !.state = "ended"]]
      BY DEF CloseWrite
    <3>2. [rows[calls[k].at] EXCEPT !.state = "ended"] \in Row
      BY <2>1, RowUpdates
    <3> QED BY <3>1, <3>2
  <2> QED BY <2>2, <2>3 DEF CloseWrite
<1>2. CallsInv'
  BY DEF CloseWrite, CallsInv
<1>3. StartsInv'
  BY DEF CloseWrite, StartsInv
<1>4. MetInv'
  <2> DEFINE r == calls[k].at
  <2>1. r \in Session
    BY DEF CloseWrite, CallState
  <2>2. /\ rows'[r].state = "ended" /\ \A s \in Session \ {r} : rows'[s] = rows[s]
        /\ \A s \in Session : mail'[s] \subseteq mail[s]
        /\ UNCHANGED <<peers, windows>>
    BY <2>1 DEF CloseWrite, Row
  <2>3. FewerRequests
    BY DEF CloseWrite, FewerRequests, CallState
  <2> HIDE DEF r
  <2>4. ASSUME NEW s \in Session PROVE Offered(s)' => Offered(s)
    <3> s # None
      BY RemoteConstants
    <3>1. (\E m \in Call : calls[m].session = s /\ ~Marks(m, s))' =>
            \E m \in Call : calls[m].session = s /\ ~Marks(m, s)
      BY <2>3 DEF FewerRequests, Marks
    <3>2. rows'[s].state \in {"connecting", "active"} => rows[s].state \in {"connecting", "active"}
      BY <2>1, <2>2
    <3>3. mail'[s] # {} => mail[s] # {}
      BY <2>2
    <3> QED BY <2>2, <3>1, <3>2, <3>3 DEF Offered
  <2>5. ASSUME NEW m \in Call, NEW s \in Session PROVE Marks(m, s)' => Marks(m, s)
    <3> s # None
      BY RemoteConstants
    <3> QED BY <2>3 DEF FewerRequests, Marks
  <2> QED BY <2>1, <2>2, <2>4, <2>5 DEF MetInv
<1> QED BY <1>1, <1>2, <1>3, <1>4

LEMMA AnswerKeeps ==
  ASSUME IInv, NEW k \in Call, Answer(k), UNCHANGED peerVars
  PROVE  IInv'
<1> USE DEF IInv, TypeOK, peerVars, serviceVars, hostVars
<1>1. TypeOK'
  BY DEF Answer, NoCall, Swept, TypeOK, CallState, Row, Message, Live, Ages
<1>2. CallsInv'
  BY DEF Answer, NoCall, Swept, CallsInv
<1>3. StartsInv'
  BY DEF Answer, NoCall, Swept, StartsInv
<1>4. MetInv'
  <2>1. FewerRequests
    BY EndedRequest DEF Answer
  <2> QED BY <2>1, MetStays DEF Answer
<1> QED BY <1>1, <1>2, <1>3, <1>4

LEMMA LookForLiveKeeps ==
  ASSUME IInv, NEW k \in Call, LookForLive(k), UNCHANGED peerVars
  PROVE  IInv'
<1> USE DEF IInv, TypeOK, peerVars
<1> DEFINE here == {s \in Session : IsLive(s) /\ rows[s].agent = calls[k].agent}
<1>1. UNCHANGED <<rows, mail, spent>> /\ calls[k].phase = "looking" /\ calls[k].agent \in Agent
  BY DEF LookForLive, CallsInv
<1>2. \/ calls' = [calls EXCEPT ![k] = [calls[k] EXCEPT !.phase = "creating"]]
      \/ \E s \in here :
           calls' = [calls EXCEPT ![k] = [calls[k] EXCEPT !.phase = "creating", !.todo = {s}]]
      \/ calls' = [calls EXCEPT ![k] = NoCall]
  <2>1. calls[k] \in CallState
    OBVIOUS
  <2> QED BY <2>1 DEF LookForLive, CallState
<1>3. \E call \in CallState :
        /\ calls' = [calls EXCEPT ![k] = call]
        /\ call.session = None /\ call.phase \in {"creating", "idle"}
        /\ call.phase = "creating" => call.agent \in Agent
  <2>1. calls[k].session = None /\ calls[k] \in CallState
    BY <1>1 DEF CallsInv
  <2>2. CASE calls' = [calls EXCEPT ![k] = [calls[k] EXCEPT !.phase = "creating"]]
    <3>1. [calls[k] EXCEPT !.phase = "creating"] \in CallState
      BY <2>1 DEF CallState
    <3> QED BY <1>1, <2>1, <2>2, <3>1 DEF CallState
  <2>3. ASSUME NEW s \in here,
               calls' = [calls EXCEPT ![k] = [calls[k] EXCEPT !.phase = "creating", !.todo = {s}]]
        PROVE  \E call \in CallState :
                 /\ calls' = [calls EXCEPT ![k] = call]
                 /\ call.session = None /\ call.phase \in {"creating", "idle"}
                 /\ call.phase = "creating" => call.agent \in Agent
    <3>1. [calls[k] EXCEPT !.phase = "creating", !.todo = {s}] \in CallState
      BY <2>1 DEF CallState
    <3> QED BY <1>1, <2>1, <2>3, <3>1 DEF CallState
  <2>4. CASE calls' = [calls EXCEPT ![k] = NoCall]
    <3>1. NoCall \in CallState /\ NoCall.session = None /\ NoCall.phase = "idle"
      BY DEF NoCall, CallState
    <3> QED BY <2>4, <3>1
  <2> QED BY <1>2, <2>2, <2>3, <2>4
<1> HIDE DEF here
<1>4. PICK call \in CallState :
        /\ calls' = [calls EXCEPT ![k] = call]
        /\ call.session = None /\ call.phase \in {"creating", "idle"}
        /\ call.phase = "creating" => call.agent \in Agent
  BY <1>3
<1>5. FewerRequests
  BY <1>4, OtherRequest DEF Requests
<1>6. MetInv'
  BY <1>1, <1>5, MetStays
<1>7. TypeOK'
  BY <1>1, <1>4
<1>8. CallsInv' /\ StartsInv'
  BY <1>1, <1>4 DEF CallsInv, StartsInv
<1> QED BY <1>6, <1>7, <1>8

LEMMA ReceiveTicketKeeps ==
  ASSUME IInv, NEW k \in Call, NEW s \in Session, ReceiveTicket(k, s)
  PROVE  IInv'
<1> USE DEF IInv, TypeOK, peerVars, serviceVars, hostVars
<1>1. TypeOK'
  <2>1. calls' \in [Call -> CallState]
    BY DEF ReceiveTicket, CreateSession, NoCall, CallState
  <2>2. calls[k].agent \in Agent
    BY DEF ReceiveTicket, CreateSession, CallsInv
  <2>3. rows' \in [Session -> Row]
    BY <2>2 DEF ReceiveTicket, CreateSession, Row, Live, Ages
  <2> QED BY <2>1, <2>3 DEF ReceiveTicket, CreateSession
<1>2. CallsInv'
  BY DEF ReceiveTicket, CreateSession, NoCall, Swept, CallsInv
<1>3. StartsInv'
  BY DEF ReceiveTicket, CreateSession, NoCall, Swept, StartsInv
<1>4. MetInv'
  <2>1. FewerRequests
    BY EndedRequest DEF ReceiveTicket, CreateSession
  <2>2. /\ rows[s].state = "none" /\ rows'[s].state = "pending"
        /\ \A r \in Session \ {s} : rows'[r] = rows[r] /\ windows'[r] = windows[r]
        /\ UNCHANGED <<mail, peers>>
        /\ windows'[s] \in {"opened", "closed"}
    BY DEF ReceiveTicket, CreateSession
  <2>3. ~Offered(s) /\ \A m \in Call : ~Marks(m, s)
    BY <2>2 DEF MetInv
  <2>4. ASSUME NEW m \in Call, NEW r \in Session PROVE Marks(m, r)' => Marks(m, r)
    <3> r # None
      BY RemoteConstants
    <3> QED BY <2>1 DEF FewerRequests, Marks
  <2>5. ASSUME NEW r \in Session PROVE Offered(r)' => Offered(r)
    <3> r # None
      BY RemoteConstants
    <3>1. (\E m \in Call : calls[m].session = r /\ ~Marks(m, r))' =>
            \E m \in Call : calls[m].session = r /\ ~Marks(m, r)
      BY <2>1 DEF FewerRequests, Marks
    <3> QED BY <2>2, <3>1 DEF Offered
  <2> QED BY <2>2, <2>3, <2>4, <2>5 DEF MetInv
<1> QED BY <1>1, <1>2, <1>3, <1>4

LEMMA CreateFailsKeeps ==
  ASSUME IInv, NEW k \in Call, CreateFails(k), UNCHANGED peerVars
  PROVE  IInv'
<1> USE DEF IInv, TypeOK, peerVars, serviceVars, hostVars
<1>1. TypeOK'
  BY DEF CreateFails, NoCall, Swept, TypeOK, CallState, Row, Message, Live, Ages
<1>2. CallsInv'
  BY DEF CreateFails, NoCall, Swept, CallsInv
<1>3. StartsInv'
  BY DEF CreateFails, NoCall, Swept, StartsInv
<1>4. MetInv'
  <2>1. FewerRequests
    BY EndedRequest DEF CreateFails
  <2> QED BY <2>1, MetStays DEF CreateFails
<1> QED BY <1>1, <1>2, <1>3, <1>4

LEMMA MarkConnectingKeeps ==
  ASSUME IInv, NEW k \in Call, MarkConnecting(k), UNCHANGED peerVars
  PROVE  IInv'
<1> USE DEF IInv, TypeOK, peerVars, serviceVars, hostVars
<1>1. TypeOK'
  <2>1. calls' = [calls EXCEPT ![k] = [calls[k] EXCEPT !.steps = <<"append">>]]
    BY NextStepIs DEF MarkConnecting
  <2>3. calls' \in [Call -> CallState]
    BY <2>1, CallUpdates
  <2>2. rows' \in [Session -> Row]
    <3> DEFINE s == calls[k].session
    <3>1. rows' = [rows EXCEPT ![s] = [rows[s] EXCEPT !.state = "connecting"]]
      BY DEF MarkConnecting
    <3>2. s \in Session
      BY NextStepIs DEF MarkConnecting
    <3>3. [rows[s] EXCEPT !.state = "connecting"] \in Row
      BY <3>2, RowUpdates DEF Live
    <3> QED BY <3>1, <3>3
  <2> QED BY <2>2, <2>3 DEF MarkConnecting
<1>2. CallsInv'
  <2>1. /\ calls' = [calls EXCEPT ![k] = [calls[k] EXCEPT !.steps = <<"append">>]]
        /\ calls[k].phase = "posting"
    BY NextStepIs DEF MarkConnecting
  <2>2. <<"append">> # <<>>
    <3>1. Len(<<"append">>) = 1 /\ Len(<<>>) = 0
      OBVIOUS
    <3> QED BY <3>1
  <2>3. /\ calls'[k].phase = "posting" /\ calls'[k].session = calls[k].session
        /\ calls'[k].message = calls[k].message /\ calls'[k].steps = <<"append">>
        /\ \A m \in Call \ {k} : calls'[m] = calls[m]
    BY <2>1 DEF CallState
  <2> QED BY <2>1, <2>2, <2>3 DEF CallsInv
<1>3. StartsInv'
  BY DEF MarkConnecting, NextStep, NoCall, StartsInv
<1>4. MetInv'
  <2> DEFINE r == calls[k].session
  <2>1. /\ Marks(k, r) /\ r \in Session
        /\ calls' = [calls EXCEPT ![k] = [calls[k] EXCEPT !.steps = <<"append">>]]
        /\ rows' = [rows EXCEPT ![r].state = "connecting"]
    BY NextStepIs DEF MarkConnecting, Marks
  <2>2. \A m \in Call : calls'[m].session = calls[m].session
                        /\ (m # k => calls'[m] = calls[m])
    BY <2>1 DEF CallState
  <2>3. ~(calls'[k].steps = <<"mark", "append">>)
    <3>1. calls'[k].steps = <<"append">>
      BY <2>1 DEF CallState
    <3>2. Len(<<"append">>) # Len(<<"mark", "append">>)
      OBVIOUS
    <3> QED BY <3>1, <3>2
  <2>4. rows'[r].state = "connecting" /\ \A s \in Session \ {r} : rows'[s] = rows[s]
    BY <2>1 DEF Row
  <2>5. windows[r] \notin {"none", "opened"}
    BY <2>1 DEF MetInv
  <2>6. UNCHANGED <<mail, peers, windows>>
    BY DEF MarkConnecting
  <2> HIDE DEF r
  <2>7. ASSUME NEW m \in Call, NEW s \in Session PROVE Marks(m, s)' => Marks(m, s) /\ s # r
    <3>1. Marks(m, s)' => m # k
      BY <2>3 DEF Marks
    <3>2. Marks(m, s)' => Marks(m, s)
      BY <2>2, <3>1 DEF Marks
    <3> QED BY <2>1, <3>1, <3>2 DEF MetInv
  <2>8. ASSUME NEW s \in Session, s # r PROVE Offered(s)' => Offered(s)
    BY <2>1, <2>2, <2>3, <2>4, <2>6, <2>8 DEF Offered, Marks
  <2> QED BY <2>1, <2>4, <2>5, <2>6, <2>7, <2>8 DEF MetInv
<1> QED BY <1>1, <1>2, <1>3, <1>4

LEMMA AppendSignalKeeps ==
  ASSUME IInv, NEW k \in Call, AppendSignal(k), UNCHANGED peerVars
  PROVE  IInv'
<1> USE DEF IInv, TypeOK, peerVars, serviceVars, hostVars
<1>1. TypeOK'
  <2>1. calls' \in [Call -> CallState]
    <3>1. calls' = [calls EXCEPT ![k] = NoCall]
      BY NextStepIs DEF AppendSignal
    <3>2. NoCall \in CallState
      BY DEF NoCall, CallState
    <3> QED BY <3>1, <3>2
  <2>2. mail' \in [Session -> SUBSET Message]
    BY NextStepIs DEF AppendSignal
  <2> QED BY <2>1, <2>2 DEF AppendSignal
<1>2. CallsInv'
  BY NextStepIs DEF AppendSignal, CallsInv, NoCall
<1>3. StartsInv'
  BY DEF AppendSignal, NextStep, NoCall, StartsInv
<1>4. MetInv'
  <2> DEFINE r == calls[k].session
  <2>1. /\ r \in Session /\ calls[k].steps = <<"append">>
        /\ calls' = [calls EXCEPT ![k] = NoCall]
        /\ mail' = [mail EXCEPT ![r] = mail[r] \cup {calls[k].message}]
        /\ UNCHANGED <<rows, peers, windows>>
    BY NextStepIs DEF AppendSignal
  <2>2. FewerRequests
    BY <2>1, EndedRequest
  <2>3. Offered(r)
    <3>1. Len(<<"append">>) # Len(<<"mark", "append">>)
      OBVIOUS
    <3>2. ~Marks(k, r)
      BY <2>1, <3>1 DEF Marks
    <3> QED BY <3>2 DEF Offered
  <2>4. \A s \in Session \ {r} : mail'[s] = mail[s]
    BY <2>1
  <2> HIDE DEF r
  <2>5. ASSUME NEW s \in Session PROVE Offered(s)' => Offered(s)
    <3> s # None
      BY RemoteConstants
    <3> QED BY <2>1, <2>2, <2>3, <2>4 DEF Offered, FewerRequests, Marks
  <2>6. ASSUME NEW m \in Call, NEW s \in Session PROVE Marks(m, s)' => Marks(m, s)
    <3> s # None
      BY RemoteConstants
    <3> QED BY <2>2 DEF FewerRequests, Marks
  <2> QED BY <2>1, <2>5, <2>6 DEF MetInv
<1> QED BY <1>1, <1>2, <1>3, <1>4

LEMMA GrantedKeeps ==
  ASSUME IInv, NEW k \in Call, Granted(k)
  PROVE  IInv'
<1> USE DEF IInv, TypeOK, peerVars, serviceVars, hostVars
<1>1. TypeOK'
  <2>1. calls' \in [Call -> CallState]
    BY DEF Granted, AnswerGrants, NoCall, CallState
  <2>2. calls[k].agent \in Agent
    BY DEF Granted, AnswerGrants, CallsInv
  <2>3. polling' \in [Agent -> Call \cup {None}] /\ granted' \in [Agent -> SUBSET Session]
    BY <2>2 DEF Granted, GrantsFor
  <2> QED BY <2>1, <2>3 DEF Granted, AnswerGrants
<1>2. CallsInv'
  BY DEF Granted, AnswerGrants, NoCall, GrantsFor, Swept, CallsInv
<1>3. StartsInv'
  <2> DEFINE a == calls[k].agent
  <2>1. \/ granted' = [granted EXCEPT ![a] = GrantsFor(a) \cap Reached]
        \/ UNCHANGED granted
    BY DEF Granted
  <2>2. UNCHANGED <<rows, starts, accepted>>
    BY DEF Granted, AnswerGrants
  <2>3. \A s \in GrantsFor(a) : rows[s].agent = a /\ rows[s].state # "none"
    BY DEF GrantsFor
  <2> HIDE DEF a
  <2> QED BY <2>1, <2>2, <2>3 DEF StartsInv
<1>4. MetInv'
  <2>1. FewerRequests
    BY EndedRequest DEF Granted, AnswerGrants
  <2> QED BY <2>1, MetStays DEF Granted, AnswerGrants
<1> QED BY <1>1, <1>2, <1>3, <1>4

LEMMA MarkConnectedKeeps ==
  ASSUME IInv, NEW k \in Call, MarkConnected(k), UNCHANGED peerVars
  PROVE  IInv'
<1> USE DEF IInv, TypeOK, peerVars, serviceVars, hostVars
<1>1. TypeOK'
  <2>1. calls' \in [Call -> CallState]
    BY DEF MarkConnected, NoCall, CallState
  <2>2. rows' \in [Session -> Row]
    <3>1. \A x \in Row : [x EXCEPT !.state = "active", !.connected = TRUE, !.quiet = FALSE] \in Row
      BY DEF Row, Live
    <3>2. calls[k].session \in Session
      BY DEF MarkConnected, CallsInv, CallState
    <3>3. rows' = [rows EXCEPT ![calls[k].session] =
                     [rows[calls[k].session] EXCEPT !.state = "active", !.connected = TRUE,
                                                    !.quiet = FALSE]]
      BY DEF MarkConnected
    <3> QED BY <3>1, <3>2, <3>3
  <2> QED BY <2>1, <2>2 DEF MarkConnected
<1>2. CallsInv'
  BY DEF MarkConnected, NoCall, CallsInv
<1>3. StartsInv'
  <2>1. \A s \in Session : /\ rows'[s].agent = rows[s].agent
                           /\ rows[s].state # "none" => rows'[s].state # "none"
    BY DEF MarkConnected, Row
  <2>2. UNCHANGED <<granted, accepted, starts>>
    OBVIOUS
  <2> QED BY <2>1, <2>2 DEF StartsInv
<1>4. MetInv'
  <2> DEFINE r == calls[k].session
  <2>1. r \in Session /\ calls[k].phase = "reporting"
    BY DEF MarkConnected, CallsInv, CallState
  <2>2. Offered(r)
    BY <2>1 DEF Offered, Marks
  <2>3. FewerRequests
    BY EndedRequest DEF MarkConnected
  <2>4. /\ rows'[r].state = "active" /\ \A s \in Session \ {r} : rows'[s] = rows[s]
        /\ UNCHANGED <<mail, peers, windows>>
    BY <2>1 DEF MarkConnected, Row
  <2> HIDE DEF r
  <2>5. ASSUME NEW s \in Session PROVE Offered(s)' => Offered(s)
    <3> s # None
      BY RemoteConstants
    <3> QED BY <2>2, <2>3, <2>4 DEF Offered, FewerRequests, Marks
  <2>6. ASSUME NEW m \in Call, NEW s \in Session PROVE Marks(m, s)' => Marks(m, s)
    <3> s # None
      BY RemoteConstants
    <3> QED BY <2>3 DEF FewerRequests, Marks
  <2> QED BY <2>1, <2>4, <2>5, <2>6 DEF MetInv
<1> QED BY <1>1, <1>2, <1>3, <1>4

LEMMA AskSessionKeeps ==
  ASSUME IInv, NEW k \in Call, NEW a \in Agent, NEW ch \in Challenge \cup {None}, NEW offline \in SUBSET Agent, AskSession(k, a, ch, offline), UNCHANGED peerVars
  PROVE  IInv'
<1> USE DEF IInv, TypeOK, peerVars, serviceVars, hostVars
<1>1. TypeOK'
  BY DEF AskSession, NoCall, AllStale, Idle, StepUp, TypeOK, CallState, Row, Message, Live, Ages
<1>2. CallsInv'
  BY DEF AskSession, NoCall, AllStale, Idle, StepUp, CallsInv
<1>3. StartsInv'
  BY DEF AskSession, NoCall, AllStale, Idle, StepUp, StartsInv
<1>4. MetInv'
  <2> DEFINE call == [NoCall EXCEPT !.phase = "looking", !.agent = a, !.todo = AllStale(offline)]
  <2>1. call \in CallState /\ call.session = None /\ call.phase = "looking"
    BY DEF NoCall, CallState, AllStale
  <2>2. calls' = [calls EXCEPT ![k] = call] /\ UNCHANGED <<rows, mail>>
    BY DEF AskSession
  <2> HIDE DEF call
  <2>3. FewerRequests
    BY <2>1, <2>2, OtherRequest DEF Requests
  <2> QED BY <2>2, <2>3, MetStays
<1> QED BY <1>1, <1>2, <1>3, <1>4

LEMMA ListSessionsKeeps ==
  ASSUME IInv, NEW k \in Call, NEW offline \in SUBSET Agent, ListSessions(k, offline), UNCHANGED peerVars
  PROVE  IInv'
<1> USE DEF IInv, TypeOK, peerVars, serviceVars, hostVars
<1>1. TypeOK'
  BY DEF ListSessions, NoCall, AllStale, Idle, TypeOK, CallState, Row, Message, Live, Ages
<1>2. CallsInv'
  BY DEF ListSessions, NoCall, AllStale, Idle, CallsInv
<1>3. StartsInv'
  BY DEF ListSessions, NoCall, AllStale, Idle, StartsInv
<1>4. MetInv'
  <2> DEFINE call == [NoCall EXCEPT !.phase = "closing", !.todo = AllStale(offline)]
  <2>1. call \in CallState /\ call.session = None /\ call.phase = "closing"
    BY DEF NoCall, CallState, AllStale
  <2>2. calls' = [calls EXCEPT ![k] = call] /\ UNCHANGED <<rows, mail>>
    BY DEF ListSessions
  <2> HIDE DEF call
  <2>3. FewerRequests
    BY <2>1, <2>2, OtherRequest DEF Requests
  <2> QED BY <2>2, <2>3, MetStays
<1> QED BY <1>1, <1>2, <1>3, <1>4

LEMMA EndSessionKeeps ==
  ASSUME IInv, NEW k \in Call, NEW s \in Session, EndSession(k, s), UNCHANGED peerVars
  PROVE  IInv'
<1> USE DEF IInv, TypeOK, peerVars, serviceVars, hostVars
<1>1. TypeOK'
  BY DEF EndSession, NoCall, Idle, TypeOK, CallState, Row, Message, Live, Ages
<1>2. CallsInv'
  BY DEF EndSession, NoCall, Idle, CallsInv
<1>3. StartsInv'
  BY DEF EndSession, NoCall, Idle, StartsInv
<1>4. MetInv'
  <2> DEFINE call == [NoCall EXCEPT !.phase = "closing", !.todo = {s}]
  <2>1. call \in CallState /\ call.session = None /\ call.phase = "closing"
    BY DEF NoCall, CallState
  <2>2. calls' = [calls EXCEPT ![k] = call] /\ UNCHANGED <<rows, mail>>
    BY DEF EndSession
  <2> HIDE DEF call
  <2>3. FewerRequests
    BY <2>1, <2>2, OtherRequest DEF Requests
  <2> QED BY <2>2, <2>3, MetStays
<1> QED BY <1>1, <1>2, <1>3, <1>4

LEMMA EndSessionsForDeviceKeeps ==
  ASSUME IInv, NEW k \in Call, NEW viewed \in SUBSET Session, EndSessionsForDevice(k, viewed), UNCHANGED peerVars
  PROVE  IInv'
<1> USE DEF IInv, TypeOK, peerVars, serviceVars, hostVars
<1>1. TypeOK'
  BY DEF EndSessionsForDevice, NoCall, Idle, TypeOK, CallState, Row, Message, Live, Ages
<1>2. CallsInv'
  BY DEF EndSessionsForDevice, NoCall, Idle, CallsInv
<1>3. StartsInv'
  BY DEF EndSessionsForDevice, NoCall, Idle, StartsInv
<1>4. MetInv'
  <2> DEFINE call == [NoCall EXCEPT !.phase = "closing", !.todo = viewed]
  <2>1. call \in CallState /\ call.session = None /\ call.phase = "closing"
    BY DEF NoCall, CallState
  <2>2. calls' = [calls EXCEPT ![k] = call] /\ UNCHANGED <<rows, mail>>
    BY DEF EndSessionsForDevice
  <2> HIDE DEF call
  <2>3. FewerRequests
    BY <2>1, <2>2, OtherRequest DEF Requests
  <2> QED BY <2>2, <2>3, MetStays
<1> QED BY <1>1, <1>2, <1>3, <1>4

LEMMA CollectOfferKeeps ==
  ASSUME IInv, NEW s \in Session, CollectOffer(s)
  PROVE  IInv'
<1> USE DEF IInv, TypeOK, peerVars, serviceVars, hostVars
<1>1. TypeOK'
  BY DEF CollectOffer, CollectSignal, TypeOK, CallState, Row, Message, Live, Ages
<1>2. CallsInv'
  BY DEF CollectOffer, CollectSignal, CallsInv
<1>3. StartsInv'
  BY DEF CollectOffer, CollectSignal, StartsInv
<1>4. MetInv'
  BY DEF CollectOffer, CollectSignal, MetInv, Offered, Marks, Live
<1> QED BY <1>1, <1>2, <1>3, <1>4

LEMMA PostAnswerKeeps ==
  ASSUME IInv, NEW k \in Call, NEW s \in Session, PostAnswer(k, s)
  PROVE  IInv'
<1> USE DEF IInv, TypeOK, peerVars, serviceVars, hostVars
<1>1. TypeOK'
  BY PostSignalIs DEF PostAnswer, Message
<1>2. CallsInv'
  <2> "answer" \in Message /\ s # None
    BY RemoteConstants DEF Message
  <2>1. <<"append">> # <<>> /\ <<"mark", "append">> # <<>>
    <3>1. Len(<<"append">>) = 1 /\ Len(<<"mark", "append">>) = 2 /\ Len(<<>>) = 0
      OBVIOUS
    <3> QED BY <3>1
  <2>2. PostSignal(k, s, "answer")
    BY DEF PostAnswer
  <2>3. \/ calls'[k].phase = "closing" /\ calls'[k].session = None
        \/ /\ calls'[k].phase = "posting" /\ calls'[k].session = s
           /\ calls'[k].message = "answer" /\ calls'[k].steps # <<>>
    BY <2>1, <2>2, PostSignalIs
  <2>4. \A m \in Call \ {k} : calls'[m] = calls[m]
    BY <2>2, PostSignalIs
  <2> QED BY <2>3, <2>4 DEF CallsInv
<1>3. StartsInv'
  BY DEF PostAnswer, PostSignal, NoCall, Idle, Steps, IsLive, StartsInv
<1>4. MetInv'
  <2> "answer" \in Message
    BY DEF Message
  <2>1. Offered(s) /\ UNCHANGED windows
    BY DEF PostAnswer, Offered
  <2>2. rows[s].state \notin {"none", "pending"} /\ windows[s] \notin {"none", "opened"}
    BY <2>1 DEF MetInv
  <2>3. /\ UNCHANGED <<rows, mail>>
        /\ \A m \in Call \ {k} : calls'[m] = calls[m]
        /\ \/ FewerRequests /\ calls'[k].session = None /\ calls'[k].phase = "closing"
           \/ calls'[k].session = s /\ calls'[k].steps = <<"append">>
    BY <2>2, PostSignalIs DEF PostAnswer
  <2>4. \A r \in Session : r # s => peers'[r] = peers[r]
    BY DEF PostAnswer
  <2>5. ASSUME NEW m \in Call, NEW r \in Session PROVE Marks(m, r)' => Marks(m, r)
    <3> Len(<<"append">>) # Len(<<"mark", "append">>)
      OBVIOUS
    <3> QED BY <2>3 DEF Marks
  <2>6. ASSUME NEW r \in Session PROVE Offered(r)' => Offered(r)
    <3> r # None
      BY RemoteConstants
    <3>1. CASE r = s
      BY <2>1, <3>1
    <3>2. CASE r # s
      BY <2>1, <2>3, <2>4, <3>2 DEF Offered, Marks
    <3> QED BY <3>1, <3>2
  <2> QED BY <2>1, <2>3, <2>5, <2>6 DEF MetInv
<1> QED BY <1>1, <1>2, <1>3, <1>4

LEMMA StreamUnreportedKeeps ==
  ASSUME IInv, NEW s \in Session, StreamUnreported(s)
  PROVE  IInv'
<1> USE DEF IInv, TypeOK, peerVars, serviceVars, hostVars
<1>1. TypeOK'
  BY DEF StreamUnreported, TypeOK, CallState, Row, Message, Live, Ages
<1>2. CallsInv'
  BY DEF StreamUnreported, CallsInv
<1>3. StartsInv'
  BY DEF StreamUnreported, StartsInv
<1>4. MetInv'
  BY DEF StreamUnreported, MetInv, Offered, Marks, Live
<1> QED BY <1>1, <1>2, <1>3, <1>4

LEMMA ReportConnectedKeeps ==
  ASSUME IInv, NEW k \in Call, NEW s \in Session, ReportConnected(k, s)
  PROVE  IInv'
<1> USE DEF IInv, TypeOK, peerVars, serviceVars, hostVars
<1>1. TypeOK'
  BY DEF ReportConnected, ReadConnected, Reportable, IsLive, NoCall, Idle, TypeOK, CallState, Row, Message, Live, Ages
<1>2. CallsInv'
  <2> s # None
    BY RemoteConstants
  <2> QED BY DEF ReportConnected, ReadConnected, NoCall, CallsInv
<1>3. StartsInv'
  BY DEF ReportConnected, ReadConnected, Reportable, IsLive, NoCall, Idle, StartsInv
<1>4. MetInv'
  <2>1. /\ peers[s] = "up" /\ peers' = [peers EXCEPT ![s] = "streaming"]
        /\ UNCHANGED <<rows, mail, windows>>
        /\ calls' = [calls EXCEPT ![k] = [NoCall EXCEPT !.phase = "reporting", !.session = s]]
    BY DEF ReportConnected, ReadConnected
  <2>2. /\ calls'[k].phase = "reporting" /\ calls'[k].session = s
        /\ \A m \in Call \ {k} : calls'[m] = calls[m]
    BY <2>1 DEF NoCall
  <2>3. \A m \in Call, t \in Session : Marks(m, t)' => Marks(m, t)
    BY <2>2 DEF Marks
  <2>4. Offered(s)
    BY <2>1 DEF Offered
  <2>5. ASSUME NEW t \in Session, t # s, Offered(t)' PROVE Offered(t)
    <3>1. peers'[t] = peers[t] /\ rows'[t] = rows[t] /\ mail'[t] = mail[t] /\ windows'[t] = windows[t]
      BY <2>1, <2>5
    <3>2. ASSUME NEW m \in Call, calls'[m].session = t, ~Marks(m, t)'
          PROVE  calls[m].session = t /\ ~Marks(m, t)
      BY <2>2, <2>5, <3>2 DEF Marks
    <3> QED BY <2>5, <3>1, <3>2 DEF Offered
  <2>6. \A t \in Session : Offered(t)' => Offered(t)
    BY <2>4, <2>5
  <2> QED BY <2>1, <2>3, <2>6 DEF MetInv
<1> QED BY <1>1, <1>2, <1>3, <1>4

LEMMA StopHostKeeps ==
  ASSUME IInv, NEW s \in Session, StopHost(s)
  PROVE  IInv'
<1> USE DEF IInv, TypeOK, peerVars, serviceVars, hostVars
<1>1. TypeOK'
  BY DEF StopHost, TypeOK, CallState, Row, Message, Live, Ages
<1>2. CallsInv'
  BY DEF StopHost, CallsInv
<1>3. StartsInv'
  BY DEF StopHost, StartsInv
<1>4. MetInv'
  BY DEF StopHost, MetInv, Offered, Marks, Live
<1> QED BY <1>1, <1>2, <1>3, <1>4

LEMMA FinishHostKeeps ==
  ASSUME IInv, NEW s \in Session, FinishHost(s)
  PROVE  IInv'
<1> USE DEF IInv, TypeOK, peerVars, serviceVars, hostVars
<1>1. TypeOK'
  BY DEF FinishHost, TypeOK, CallState, Row, Message, Live, Ages
<1>2. CallsInv'
  BY DEF FinishHost, CallsInv
<1>3. StartsInv'
  BY DEF FinishHost, StartsInv
<1>4. MetInv'
  BY DEF FinishHost, MetInv, Offered, Marks, Live
<1> QED BY <1>1, <1>2, <1>3, <1>4

LEMMA PostOfferKeeps ==
  ASSUME IInv, NEW k \in Call, NEW s \in Session, PostOffer(k, s)
  PROVE  IInv'
<1> USE DEF IInv, TypeOK, peerVars, serviceVars, hostVars
<1>1. TypeOK'
  BY PostSignalIs DEF PostOffer, Message
<1>2. CallsInv'
  <2> "offer" \in Message /\ s # None
    BY RemoteConstants DEF Message
  <2>1. <<"append">> # <<>> /\ <<"mark", "append">> # <<>>
    <3>1. Len(<<"append">>) = 1 /\ Len(<<"mark", "append">>) = 2 /\ Len(<<>>) = 0
      OBVIOUS
    <3> QED BY <3>1
  <2>2. PostSignal(k, s, "offer")
    BY DEF PostOffer
  <2>3. \/ calls'[k].phase = "closing" /\ calls'[k].session = None
        \/ /\ calls'[k].phase = "posting" /\ calls'[k].session = s
           /\ calls'[k].message = "offer" /\ calls'[k].steps # <<>>
    BY <2>1, <2>2, PostSignalIs
  <2>4. \A m \in Call \ {k} : calls'[m] = calls[m]
    BY <2>2, PostSignalIs
  <2> QED BY <2>3, <2>4 DEF CallsInv
<1>3. StartsInv'
  BY DEF PostOffer, PostSignal, NoCall, Idle, Steps, IsLive, StartsInv
<1>4. MetInv'
  <2> "offer" \in Message
    BY DEF Message
  <2>1. ~Offered(s) /\ \A m \in Call : ~Marks(m, s)
    BY DEF PostOffer, MetInv
  <2>2. rows[s].state = "pending"
    BY <2>1, PostSignalIs DEF PostOffer, Offered, Live
  <2>3. /\ UNCHANGED <<rows, mail, peers>>
        /\ windows'[s] = "offered" /\ \A r \in Session \ {s} : windows'[r] = windows[r]
        /\ \A m \in Call \ {k} : calls'[m] = calls[m]
        /\ \/ FewerRequests /\ calls'[k].session = None /\ calls'[k].phase = "closing"
           \/ calls'[k].phase = "posting" /\ calls'[k].session = s
              /\ calls'[k].steps = <<"mark", "append">>
    BY <2>2, PostSignalIs DEF PostOffer
  <2>4. ASSUME NEW m \in Call, NEW r \in Session
        PROVE  /\ r # s => (Marks(m, r)' => Marks(m, r))
               /\ Marks(m, s)' => m = k
    BY <2>1, <2>3 DEF Marks
  <2>5. ASSUME NEW r \in Session PROVE Offered(r)' => Offered(r)
    <3> r # None
      BY RemoteConstants
    <3>1. CASE r = s
      BY <2>1, <2>3, <3>1 DEF Offered, Marks
    <3>2. CASE r # s
      BY <2>3, <3>2 DEF Offered, Marks
    <3> QED BY <3>1, <3>2
  <2> QED BY <2>1, <2>2, <2>3, <2>4, <2>5 DEF MetInv
<1> QED BY <1>1, <1>2, <1>3, <1>4

LEMMA CollectAnswerKeeps ==
  ASSUME IInv, NEW s \in Session, CollectAnswer(s)
  PROVE  IInv'
<1> USE DEF IInv, TypeOK, peerVars, serviceVars, hostVars
<1>1. TypeOK'
  BY DEF CollectAnswer, CollectSignal, TypeOK, CallState, Row, Message, Live, Ages
<1>2. CallsInv'
  BY DEF CollectAnswer, CollectSignal, CallsInv
<1>3. StartsInv'
  BY DEF CollectAnswer, CollectSignal, StartsInv
<1>4. MetInv'
  BY DEF CollectAnswer, CollectSignal, MetInv, Offered, Marks, Live
<1> QED BY <1>1, <1>2, <1>3, <1>4

LEMMA BeatKeeps ==
  ASSUME IInv, NEW s \in Session, Beat(s)
  PROVE  IInv'
<1> USE DEF IInv, TypeOK, peerVars, serviceVars, hostVars
<1>1. TypeOK'
  <2>1. rows' \in [Session -> Row]
    <3>1. rows' = [rows EXCEPT ![s] = [rows[s] EXCEPT !.quiet = FALSE]]
      BY DEF Beat, Heartbeat
    <3>2. [rows[s] EXCEPT !.quiet = FALSE] \in Row
      BY RowUpdates
    <3> QED BY <3>1, <3>2
  <2> QED BY <2>1 DEF Beat, Heartbeat
<1>2. CallsInv'
  BY DEF Beat, Heartbeat, IsLive, CallsInv
<1>3. StartsInv'
  BY DEF Beat, Heartbeat, IsLive, StartsInv
<1>4. MetInv'
  BY DEF Beat, Heartbeat, IsLive, MetInv, Offered, Marks, Live
<1> QED BY <1>1, <1>2, <1>3, <1>4

LEMMA LeaveKeeps ==
  ASSUME IInv, NEW k \in Call, NEW s \in Session, Leave(k, s)
  PROVE  IInv'
<1> USE DEF IInv, TypeOK, peerVars, serviceVars, hostVars
<1>1. TypeOK'
  BY DEF Leave, Parting, EndSession, NoCall, Idle, TypeOK, CallState, Row, Message, Live, Ages
<1>2. CallsInv'
  BY DEF Leave, Parting, EndSession, NoCall, Idle, CallsInv
<1>3. StartsInv'
  BY DEF Leave, Parting, EndSession, NoCall, Idle, StartsInv
<1>4. MetInv'
  <2> DEFINE call == [NoCall EXCEPT !.phase = "closing", !.todo = {s}]
  <2>1. call \in CallState /\ call.session = None /\ call.phase = "closing"
    BY DEF NoCall, CallState
  <2>2. calls' = [calls EXCEPT ![k] = call] /\ UNCHANGED <<rows, mail, peers>>
    BY DEF Leave, EndSession
  <2> HIDE DEF call
  <2>3. FewerRequests
    BY <2>1, <2>2, OtherRequest DEF Requests
  <2>4. windows[s] # "none" /\ windows' = [windows EXCEPT ![s] = Parting(s)]
    BY DEF Leave
  <2> QED BY <2>2, <2>3, <2>4, MetStays DEF Parting
<1> QED BY <1>1, <1>2, <1>3, <1>4

LEMMA LeaveUnheardKeeps ==
  ASSUME IInv, NEW s \in Session, LeaveUnheard(s)
  PROVE  IInv'
<1> USE DEF IInv, TypeOK, peerVars, serviceVars, hostVars
<1>1. TypeOK'
  BY DEF LeaveUnheard, Parting, TypeOK, CallState, Row, Message, Live, Ages
<1>2. CallsInv'
  BY DEF LeaveUnheard, Parting, CallsInv
<1>3. StartsInv'
  BY DEF LeaveUnheard, Parting, StartsInv
<1>4. MetInv'
  BY DEF LeaveUnheard, Parting, MetInv, Offered, Marks, Live
<1> QED BY <1>1, <1>2, <1>3, <1>4

LEMMA CloseWindowKeeps ==
  ASSUME IInv, NEW s \in Session, CloseWindow(s)
  PROVE  IInv'
<1> USE DEF IInv, TypeOK, peerVars, serviceVars, hostVars
<1>1. TypeOK'
  BY DEF CloseWindow, LinksWithout, TypeOK, CallState, Row, Message, Live, Ages
<1>2. CallsInv'
  BY DEF CloseWindow, LinksWithout, CallsInv
<1>3. StartsInv'
  BY DEF CloseWindow, LinksWithout, StartsInv
<1>4. MetInv'
  BY DEF CloseWindow, LinksWithout, MetInv, Offered, Marks, Live
<1> QED BY <1>1, <1>2, <1>3, <1>4

LEMMA ConnectKeeps ==
  ASSUME IInv, NEW s \in Session, Connect(s)
  PROVE  IInv'
<1> USE DEF IInv, TypeOK, peerVars, serviceVars, hostVars
<1>1. TypeOK'
  BY DEF Connect, TypeOK, CallState, Row, Message, Live, Ages
<1>2. CallsInv'
  BY DEF Connect, CallsInv
<1>3. StartsInv'
  BY DEF Connect, StartsInv
<1>4. MetInv'
  BY DEF Connect, MetInv, Offered, Marks, Live
<1> QED BY <1>1, <1>2, <1>3, <1>4

LEMMA DisconnectKeeps ==
  ASSUME IInv, NEW s \in Session, Disconnect(s)
  PROVE  IInv'
<1> USE DEF IInv, TypeOK, peerVars, serviceVars, hostVars
<1>1. TypeOK'
  BY DEF Disconnect, TypeOK, CallState, Row, Message, Live, Ages
<1>2. CallsInv'
  BY DEF Disconnect, CallsInv
<1>3. StartsInv'
  BY DEF Disconnect, StartsInv
<1>4. MetInv'
  BY DEF Disconnect, MetInv, Offered, Marks, Live
<1> QED BY <1>1, <1>2, <1>3, <1>4

LEMMA StartPollKeeps ==
  ASSUME IInv, NEW k \in Call, NEW a \in Agent, StartPoll(k, a)
  PROVE  IInv'
<1> USE DEF IInv, TypeOK, peerVars, serviceVars, hostVars
<1>1. TypeOK'
  <2>1. calls' \in [Call -> CallState]
    <3>1. PICK offline \in SUBSET Agent : PollGrants(k, a, offline)
      BY DEF StartPoll
    <3>2. [NoCall EXCEPT !.phase = "granting", !.agent = a, !.todo = AllStale(offline)] \in CallState
      BY DEF NoCall, CallState, AllStale
    <3> QED BY <3>1, <3>2 DEF PollGrants
  <2> QED BY <2>1 DEF StartPoll, PollGrants
<1>2. CallsInv'
  BY DEF StartPoll, PollGrants, NoCall, AllStale, Idle, CallsInv
<1>3. StartsInv'
  BY DEF StartPoll, PollGrants, NoCall, AllStale, Idle, StartsInv
<1>4. MetInv'
  <2>1. PICK offline \in SUBSET Agent : PollGrants(k, a, offline)
    BY DEF StartPoll
  <2> DEFINE call == [NoCall EXCEPT !.phase = "granting", !.agent = a, !.todo = AllStale(offline)]
  <2>2. call \in CallState /\ call.session = None /\ call.phase = "granting"
    BY DEF NoCall, CallState, AllStale
  <2>3. calls' = [calls EXCEPT ![k] = call] /\ UNCHANGED <<rows, mail, peers, windows>>
    BY <2>1 DEF PollGrants, StartPoll
  <2> HIDE DEF call
  <2>4. FewerRequests
    BY <2>2, <2>3, OtherRequest DEF Requests
  <2> QED BY <2>3, <2>4, MetStays
<1> QED BY <1>1, <1>2, <1>3, <1>4

LEMMA GiveUpPollKeeps ==
  ASSUME IInv, NEW a \in Agent, GiveUpPoll(a)
  PROVE  IInv'
<1> USE DEF IInv, TypeOK, peerVars, serviceVars, hostVars
<1>1. TypeOK'
  BY DEF GiveUpPoll, TypeOK, CallState, Row, Message, Live, Ages
<1>2. CallsInv'
  BY DEF GiveUpPoll, CallsInv
<1>3. StartsInv'
  BY DEF GiveUpPoll, StartsInv
<1>4. MetInv'
  BY DEF GiveUpPoll, MetInv, Offered, Marks, Live
<1> QED BY <1>1, <1>2, <1>3, <1>4

LEMMA StartSessionKeeps ==
  ASSUME IInv, NEW a \in Agent, NEW s \in Session, StartSession(a, s)
  PROVE  IInv'
<1> USE DEF IInv, TypeOK, peerVars, serviceVars, hostVars
<1>1. TypeOK'
  <2>1. /\ granted' \in [Agent -> SUBSET Session] /\ accepted' \in [Agent -> SUBSET Session]
        /\ starts' \in [Session -> Nat]
    BY DEF StartSession
  <2>2. peers' \in [Session -> {"none", "waiting", "answering", "answered", "up", "streaming"}]
    BY DEF StartSession
  <2> QED BY <2>1, <2>2 DEF StartSession
<1>2. CallsInv'
  BY DEF StartSession, Verified, CallsInv
<1>3. StartsInv'
  <2>1. rows[s].agent = a /\ rows[s].state # "none"
    BY DEF StartSession, StartsInv
  <2>2. /\ granted' = [granted EXCEPT ![a] = granted[a] \ {s}]
        /\ UNCHANGED rows
    BY DEF StartSession
  <2>3. CASE Verified(a, s)
    <3>1. starts[s] = 0
      BY <2>1, <2>3 DEF Verified, StartsInv
    <3>2. /\ accepted' = [accepted EXCEPT ![a] = accepted[a] \cup {s}]
          /\ starts' \in {starts, [starts EXCEPT ![s] = starts[s] + 1]}
      BY <2>3 DEF StartSession
    <3>3. \A r \in Session : starts'[r] # 0 => starts'[r] = 1 /\ (r = s \/ starts[r] = 1)
      BY <3>1, <3>2 DEF StartsInv
    <3>4. \A b \in Agent : accepted[b] \subseteq accepted'[b]
      BY <3>2
    <3>5. s \in accepted'[a]
      BY <3>2
    <3> QED BY <2>1, <2>2, <3>3, <3>4, <3>5 DEF StartsInv, Row
  <2>4. CASE ~Verified(a, s)
    <3>1. UNCHANGED <<accepted, starts>>
      BY <2>4 DEF StartSession
    <3> QED BY <2>2, <3>1 DEF StartsInv
  <2> QED BY <2>3, <2>4
<1>4. MetInv'
  BY DEF StartSession, Verified, MetInv, Offered, Marks, Live
<1> QED BY <1>1, <1>2, <1>3, <1>4

LEMMA RestartKeeps ==
  ASSUME IInv, NEW a \in Agent, Restart(a)
  PROVE  IInv'
<1> USE DEF IInv, TypeOK, peerVars, serviceVars, hostVars
<1>1. TypeOK'
  BY DEF Restart, TypeOK, CallState, Row, Message, Live, Ages
<1>2. CallsInv'
  BY DEF Restart, CallsInv
<1>3. StartsInv'
  BY DEF Restart, StartsInv
<1>4. MetInv'
  <2>1. /\ UNCHANGED <<rows, mail, calls, windows>>
        /\ \A s \in Session : peers'[s] \in {peers[s], "none"}
    BY DEF Restart
  <2>2. ASSUME NEW s \in Session PROVE Offered(s)' => Offered(s)
    BY <2>1 DEF Offered, Marks
  <2> QED BY <2>1, <2>2 DEF MetInv, Marks
<1> QED BY <1>1, <1>2, <1>3, <1>4

LEMMA GrowOlderKeeps ==
  ASSUME IInv, NEW s \in Session, GrowOlder(s), UNCHANGED peerVars
  PROVE  IInv'
<1> USE DEF IInv, TypeOK, peerVars, serviceVars, hostVars
<1>1. TypeOK'
  <2>1. \A age \in Ages : Older[age] \in Ages
    BY DEF Older, Ages
  <2>2. rows' \in [Session -> Row]
    <3>1. rows' = [rows EXCEPT ![s] = [rows[s] EXCEPT !.age = Older[rows[s].age]]]
      BY DEF GrowOlder
    <3>2. rows[s].age \in Ages
      BY DEF Row
    <3>3. [rows[s] EXCEPT !.age = Older[rows[s].age]] \in Row
      BY <2>1, <3>2, RowUpdates
    <3> QED BY <3>1, <3>3
  <2> QED BY <2>2 DEF GrowOlder
<1>2. CallsInv'
  BY DEF GrowOlder, Older, CallsInv
<1>3. StartsInv'
  BY DEF GrowOlder, Older, StartsInv
<1>4. MetInv'
  <2>1. \A r \in Session : rows'[r].state = rows[r].state
    BY DEF GrowOlder, Row
  <2>2. FewerRequests /\ UNCHANGED <<mail, peers, windows>>
    BY DEF GrowOlder, FewerRequests
  <2> QED BY <2>1, <2>2, MetStays
<1> QED BY <1>1, <1>2, <1>3, <1>4

LEMMA GoQuietKeeps ==
  ASSUME IInv, NEW s \in Session, GoQuiet(s), UNCHANGED peerVars
  PROVE  IInv'
<1> USE DEF IInv, TypeOK, peerVars, serviceVars, hostVars
<1>1. TypeOK'
  <2>1. rows' \in [Session -> Row]
    <3>1. rows' = [rows EXCEPT ![s] = [rows[s] EXCEPT !.quiet = TRUE]]
      BY DEF GoQuiet
    <3>2. [rows[s] EXCEPT !.quiet = TRUE] \in Row
      BY RowUpdates
    <3> QED BY <3>1, <3>2
  <2> QED BY <2>1 DEF GoQuiet
<1>2. CallsInv'
  BY DEF GoQuiet, IsLive, CallsInv
<1>3. StartsInv'
  BY DEF GoQuiet, IsLive, StartsInv
<1>4. MetInv'
  BY DEF GoQuiet, IsLive, MetInv, Offered, Marks, Live
<1> QED BY <1>1, <1>2, <1>3, <1>4

LEMMA InvInit == Init => IInv
<1> SUFFICES ASSUME Init PROVE IInv
  OBVIOUS
<1> USE DEF Init, ServiceInit
<1>1. TypeOK
  <2>1. NoRow \in Row
    <3>1. (CHOOSE a \in Agent : TRUE) \in Agent
      BY RemoteConstants
    <3> QED BY <3>1 DEF NoRow, Row, Live, Ages
  <2>2. NoCall \in CallState
    BY DEF NoCall, CallState
  <2> QED BY <2>1, <2>2 DEF TypeOK
<1>2. /\ \A s \in Session : rows[s].state = "none"
      /\ \A k \in Call : calls[k].phase = "idle" /\ calls[k].session = None
  BY DEF NoRow, NoCall
<1>3. CallsInv /\ StartsInv
  BY <1>2 DEF CallsInv, StartsInv
<1>4. MetInv
  <2>1. \A s \in Session : s # None
    BY RemoteConstants
  <2>2. \A s \in Session : ~Offered(s) /\ \A k \in Call : ~Marks(k, s)
    BY <1>2, <2>1 DEF Offered, Marks
  <2> QED BY <2>2 DEF MetInv
<1> QED BY <1>1, <1>3, <1>4 DEF IInv

LEMMA InvStep == IInv /\ [Next]_vars => IInv'
<1> SUFFICES ASSUME IInv, [Next]_vars PROVE IInv'
  OBVIOUS
<1>1. ASSUME NEW k \in Call, Serve(k) PROVE IInv'
  BY <1>1, CloseReadKeeps, CloseWriteKeeps, AnswerKeeps, LookForLiveKeeps, ReceiveTicketKeeps,
     CreateFailsKeeps, MarkConnectingKeeps, AppendSignalKeeps, GrantedKeeps, MarkConnectedKeeps
     DEF Serve
<1>2. ASSUME NEW k \in Call, Member(k) PROVE IInv'
  BY <1>2, AskSessionKeeps, ListSessionsKeeps, EndSessionKeeps, EndSessionsForDeviceKeeps
     DEF Member
<1>3. ASSUME NEW s \in Session, Host(s) PROVE IInv'
  BY <1>3, CollectOfferKeeps, PostAnswerKeeps, ReportConnectedKeeps, StreamUnreportedKeeps,
     StopHostKeeps, FinishHostKeeps
     DEF Host, Report
<1>4. ASSUME NEW s \in Session, Window(s) PROVE IInv'
  BY <1>4, PostOfferKeeps, CollectAnswerKeeps, BeatKeeps, LeaveKeeps, LeaveUnheardKeeps,
     CloseWindowKeeps
     DEF Window
<1>5. ASSUME NEW s \in Session, Connect(s) \/ Disconnect(s) \/ Time(s) PROVE IInv'
  BY <1>5, ConnectKeeps, DisconnectKeeps, GrowOlderKeeps, GoQuietKeeps DEF Time
<1>6. ASSUME NEW a \in Agent, Machine(a) PROVE IInv'
  BY <1>6, StartPollKeeps, GiveUpPollKeeps, StartSessionKeeps, RestartKeeps DEF Machine
<1>7. CASE UNCHANGED vars
  <2> USE <1>7 DEF vars, serviceVars, peerVars
  <2>1. TypeOK' /\ CallsInv' /\ StartsInv'
    BY DEF IInv, TypeOK, CallsInv, StartsInv
  <2>2. MetInv'
    BY DEF IInv, MetInv, Offered, Marks
  <2> QED BY <2>1, <2>2 DEF IInv
<1> QED BY <1>1, <1>2, <1>3, <1>4, <1>5, <1>6, <1>7 DEF Next

(* IInv is an invariant: grants are in the hands of their session's        *)
(* computer, what was started is in its replay guard, and a request that   *)
(* is yet to mark a session is the only one, before anything has come of   *)
(* its offer.                                                              *)
THEOREM RemoteInvariant == Spec => []IInv
BY InvInit, InvStep, PTL DEF Spec
-----------------------------------------------------------------------------
(* Every variable keeps its type.                                          *)
THEOREM RemoteTypesCorrect == Spec => []TypeOK
<1>1. IInv => TypeOK
  BY DEF IInv
<1> QED BY <1>1, RemoteInvariant, PTL

(* A host process starts a session once (sessions.claim, Verify).          *)
THEOREM StartedOnce == Spec => []StartedOncePerLife
<1>1. IInv => StartedOncePerLife
  BY DEF IInv, StartsInv, StartedOncePerLife
<1> QED BY <1>1, RemoteInvariant, PTL
-----------------------------------------------------------------------------
(* The steps that touch the state of a row.                                *)
SameStates == \A s \in Session : rows'[s].state = rows[s].state

LEMMA StateSteps ==
  ASSUME IInv, [Next]_vars
  PROVE  \/ SameStates
         \/ \E k \in Call : CloseWrite(k) \/ MarkConnecting(k) \/ MarkConnected(k)
         \/ \E k \in Call, s \in Session : ReceiveTicket(k, s)
<1>1. ASSUME UNCHANGED rows PROVE SameStates
  BY <1>1 DEF SameStates
<1>2. ASSUME NEW s \in Session, Heartbeat(s) \/ GrowOlder(s) \/ GoQuiet(s) PROVE SameStates
  <2> rows \in [Session -> Row]
    BY DEF IInv, TypeOK
  <2>1. CASE Heartbeat(s) \/ GoQuiet(s)
    <3>1. \E b \in BOOLEAN : rows' = [rows EXCEPT ![s].quiet = b]
      BY <2>1 DEF Heartbeat, GoQuiet
    <3> QED BY <3>1 DEF Row, SameStates
  <2>2. CASE GrowOlder(s)
    <3>1. \E b : rows' = [rows EXCEPT ![s].age = b]
      BY <2>2 DEF GrowOlder
    <3> QED BY <3>1 DEF Row, SameStates
  <2> QED BY <1>2, <2>1, <2>2
<1> USE DEF serviceVars
<1>3. ASSUME NEW k \in Call, Serve(k), ~(CloseWrite(k) \/ MarkConnecting(k) \/ MarkConnected(k)),
             \A s \in Session : ~ReceiveTicket(k, s)
      PROVE  UNCHANGED rows
  BY <1>3 DEF Serve, CloseRead, Answer, LookForLive, CreateFails, AppendSignal, Granted,
              AnswerGrants
<1>4. ASSUME NEW k \in Call, Member(k) PROVE UNCHANGED rows
  BY <1>4 DEF Member, AskSession, ListSessions, EndSession, EndSessionsForDevice
<1>5. ASSUME NEW s \in Session, Host(s) PROVE UNCHANGED rows
  BY <1>5 DEF Host, Report, CollectOffer, CollectSignal, PostAnswer, PostSignal, ReportConnected,
              ReadConnected, StreamUnreported, StopHost, FinishHost
<1>6. ASSUME NEW s \in Session, Window(s) PROVE UNCHANGED rows \/ Heartbeat(s)
  BY <1>6 DEF Window, PostOffer, PostSignal, CollectAnswer, CollectSignal, Beat, Leave, EndSession,
              LeaveUnheard, CloseWindow
<1>7. ASSUME NEW s \in Session, Connect(s) \/ Disconnect(s) PROVE UNCHANGED rows
  BY <1>7 DEF Connect, Disconnect
<1>8. ASSUME NEW a \in Agent, Machine(a) PROVE UNCHANGED rows
  BY <1>8 DEF Machine, StartPoll, PollGrants, GiveUpPoll, StartSession, Restart
<1>9. ASSUME UNCHANGED vars PROVE UNCHANGED rows
  BY <1>9 DEF vars
<1> QED BY <1>1, <1>2, <1>3, <1>4, <1>5, <1>6, <1>7, <1>8, <1>9 DEF Next, Time

(* An active session is not put back to connecting (postSignal's order).   *)
THEOREM NeverBack == Spec => NeverBackToConnecting
<1>1. ASSUME IInv, [Next]_vars, NEW s \in Session, rows[s].state = "active"
      PROVE  rows'[s].state # "connecting"
  <2>1. CASE SameStates
    BY <1>1, <2>1 DEF SameStates
  <2>2. ASSUME NEW k \in Call, CloseWrite(k) PROVE rows'[s].state # "connecting"
    BY <1>1, <2>2 DEF CloseWrite, IInv, TypeOK, Row
  <2>3. ASSUME NEW k \in Call, MarkConnected(k) PROVE rows'[s].state # "connecting"
    BY <1>1, <2>3 DEF MarkConnected, IInv, TypeOK, Row
  <2>4. ASSUME NEW k \in Call, MarkConnecting(k) PROVE rows'[s].state # "connecting"
    <3>1. Marks(k, calls[k].session)
      BY <1>1, <2>4, NextStepIs DEF MarkConnecting, IInv, TypeOK, Marks
    <3>2. calls[k].session # s
      BY <1>1, <3>1 DEF IInv, MetInv, Offered
    <3> QED BY <1>1, <2>4, <3>2 DEF MarkConnecting, IInv, TypeOK
  <2>5. ASSUME NEW k \in Call, NEW r \in Session, ReceiveTicket(k, r)
        PROVE  rows'[s].state # "connecting"
    BY <1>1, <2>5 DEF ReceiveTicket, CreateSession, IInv, TypeOK
  <2> QED BY <1>1, <2>1, <2>2, <2>3, <2>4, <2>5, StateSteps
<1>2. IInv /\ [Next]_vars =>
        [\A s \in Session : rows[s].state = "active" => rows'[s].state # "connecting"]_vars
  BY <1>1
<1> QED BY <1>2, RemoteInvariant, PTL DEF Spec, NeverBackToConnecting
-----------------------------------------------------------------------------
(* No request takes up a session whose end is final.                       *)
LEMMA NoNewRequests ==
  ASSUME IInv, [Next]_vars, NEW s \in Session, EndedForGood(s)
  PROVE  \A k \in Call : calls'[k].session # s
<1> USE DEF serviceVars
<1> /\ rows[s].state = "ended" /\ s # None
    /\ \A k \in Call : calls[k].session # s
    /\ calls \in [Call -> CallState] /\ CallsInv
  BY RemoteConstants DEF EndedForGood, IInv, TypeOK
<1>1. ASSUME UNCHANGED calls PROVE \A k \in Call : calls'[k].session # s
  BY <1>1
<1>2. ASSUME FewerRequests PROVE \A k \in Call : calls'[k].session # s
  BY <1>2 DEF FewerRequests
<1>3. ASSUME NEW k \in Call, Serve(k) PROVE \A m \in Call : calls'[m].session # s
  <2>1. ASSUME NEW r \in Session, CloseRead(k, r) PROVE FewerRequests
    BY <2>1 DEF CloseRead, FewerRequests, CallState
  <2>2. ASSUME CloseWrite(k) PROVE FewerRequests
    BY <2>2 DEF CloseWrite, FewerRequests, CallState
  <2>3. ASSUME \/ Answer(k) \/ CreateFails(k) \/ Granted(k) \/ MarkConnected(k)
               \/ \E r \in Session : ReceiveTicket(k, r)
        PROVE  calls' = [calls EXCEPT ![k] = NoCall]
    BY <2>3 DEF Answer, CreateFails, Granted, AnswerGrants, MarkConnected, ReceiveTicket,
                CreateSession
  <2>4. ASSUME LookForLive(k) PROVE \A m \in Call : calls'[m].session # s
    BY <2>4 DEF LookForLive, NoCall, CallState
  <2>5. ASSUME MarkConnecting(k) PROVE \A m \in Call : calls'[m].session # s
    <3>1. calls' = [calls EXCEPT ![k] = [calls[k] EXCEPT !.steps = <<"append">>]]
      BY <2>5, NextStepIs DEF MarkConnecting
    <3> QED BY <3>1 DEF CallState
  <2>6. ASSUME AppendSignal(k) PROVE calls' = [calls EXCEPT ![k] = NoCall]
    BY <2>6, NextStepIs DEF AppendSignal
  <2>7. ASSUME calls' = [calls EXCEPT ![k] = NoCall] PROVE FewerRequests
    BY <2>7, EndedRequest
  <2> QED BY <1>2, <1>3, <2>1, <2>2, <2>3, <2>4, <2>5, <2>6, <2>7 DEF Serve
<1>4. ASSUME NEW k \in Call, NEW call, call.session = None, calls' = [calls EXCEPT ![k] = call]
      PROVE  \A m \in Call : calls'[m].session # s
  BY <1>4
<1>5. ASSUME NEW k \in Call, Member(k) PROVE \A m \in Call : calls'[m].session # s
  <2>1. ASSUME NEW a \in Agent, NEW ch, NEW offline, AskSession(k, a, ch, offline)
        PROVE  \A m \in Call : calls'[m].session # s
    BY <2>1 DEF AskSession, NoCall
  <2>2. ASSUME NEW offline, ListSessions(k, offline)
        PROVE  \A m \in Call : calls'[m].session # s
    BY <2>2 DEF ListSessions, NoCall
  <2>3. ASSUME NEW r \in Session, EndSession(k, r)
        PROVE  \A m \in Call : calls'[m].session # s
    BY <2>3 DEF EndSession, NoCall
  <2>4. ASSUME NEW viewed, EndSessionsForDevice(k, viewed)
        PROVE  \A m \in Call : calls'[m].session # s
    BY <2>4 DEF EndSessionsForDevice, NoCall
  <2> QED BY <1>5, <2>1, <2>2, <2>3, <2>4 DEF Member
<1>6. ASSUME NEW k \in Call, NEW r \in Session, NEW message \in Message, PostSignal(k, r, message)
      PROVE  \A m \in Call : calls'[m].session # s
  BY <1>6, PostSignalIs DEF Live
<1>7. ASSUME NEW k \in Call, NEW r \in Session, ReadConnected(k, r)
      PROVE  \A m \in Call : calls'[m].session # s
  <2>1. r # s
    BY <1>7 DEF ReadConnected, Reportable, IsLive, Live
  <2> QED BY <1>7, <2>1 DEF ReadConnected, NoCall
<1>8. ASSUME NEW r \in Session, Host(r) PROVE \A m \in Call : calls'[m].session # s
  BY <1>1, <1>6, <1>7, <1>8
     DEF Host, Report, CollectOffer, CollectSignal, PostAnswer, ReportConnected, StreamUnreported,
         StopHost, FinishHost, Message
<1>9. ASSUME NEW r \in Session, Window(r) PROVE \A m \in Call : calls'[m].session # s
  <2>1. ASSUME NEW k \in Call, Leave(k, r) PROVE \A m \in Call : calls'[m].session # s
    BY <2>1 DEF Leave, Parting, EndSession, NoCall
  <2> QED BY <1>1, <1>6, <1>9, <2>1
          DEF Window, PostOffer, CollectAnswer, CollectSignal, Beat, Heartbeat, LeaveUnheard,
              CloseWindow, Message
<1>10. ASSUME NEW r \in Session, Connect(r) \/ Disconnect(r) \/ Time(r) PROVE UNCHANGED calls
  BY <1>10 DEF Connect, Disconnect, Time, GrowOlder, GoQuiet
<1>11. ASSUME NEW a \in Agent, Machine(a) PROVE \A m \in Call : calls'[m].session # s
  <2>1. ASSUME NEW k \in Call, StartPoll(k, a) PROVE \A m \in Call : calls'[m].session # s
    BY <2>1 DEF StartPoll, PollGrants, NoCall
  <2> QED BY <1>1, <1>11, <2>1 DEF Machine, GiveUpPoll, StartSession, Restart
<1> QED BY <1>1, <1>3, <1>5, <1>8, <1>9, <1>10, <1>11 DEF Next, vars

(* An end that nobody writes over any more is final (postSignal,           *)
(* markConnected and close look at it).                                    *)
THEOREM QuietEnds == Spec => QuietEndIsFinal
<1>1. ASSUME IInv, [Next]_vars, NEW s \in Session, EndedForGood(s)
      PROVE  rows'[s].state = "ended"
  <2> rows[s].state = "ended" /\ \A k \in Call : calls[k].session # s
    BY <1>1 DEF EndedForGood
  <2>1. CASE SameStates
    BY <2>1 DEF SameStates
  <2>2. ASSUME NEW k \in Call, CloseWrite(k) PROVE rows'[s].state = "ended"
    BY <1>1, <2>2 DEF CloseWrite, IInv, TypeOK, Row
  <2>3. ASSUME NEW k \in Call, MarkConnecting(k) \/ MarkConnected(k)
        PROVE  rows'[s].state = "ended"
    BY <1>1, <2>3 DEF MarkConnecting, MarkConnected, IInv, TypeOK
  <2>4. ASSUME NEW k \in Call, NEW r \in Session, ReceiveTicket(k, r)
        PROVE  rows'[s].state = "ended"
    BY <1>1, <2>4 DEF ReceiveTicket, CreateSession, IInv, TypeOK
  <2> QED BY <1>1, <2>1, <2>2, <2>3, <2>4, StateSteps
<1>2. IInv /\ [Next]_vars => [\A s \in Session : EndedForGood(s) => EndedForGood(s)']_vars
  BY <1>1, NoNewRequests DEF EndedForGood
<1> QED BY <1>2, RemoteInvariant, PTL DEF Spec, QuietEndIsFinal
-----------------------------------------------------------------------------
(* What comes of a connection, on the host, in the control plane and on    *)
(* the way from one to the other.                                          *)
CountsAsConnected(s) ==
  \/ rows[s].state = "active"
  \/ rows[s].connected
  \/ Up(s)
  \/ \E k \in Call : calls[k].phase = "reporting" /\ calls[k].session = s

(* A session that streams, or that the control plane calls active, has a   *)
(* viewer that took up the host's answer; and a direct connection runs     *)
(* between a host that has not finished and a window that is not closed.   *)
BothEndsMet ==
  /\ \A s \in Session : CountsAsConnected(s) => windows[s] \in {"described", "parting", "closed"}
  /\ \A s \in linked : windows[s] \in {"described", "parting"} /\ Up(s)

(* A step after which nothing counts as connected that did not before.     *)
NoNewConnection ==
  /\ \A s \in Session :
       /\ rows'[s].state = "active" => rows[s].state = "active"
       /\ rows'[s].connected => rows[s].connected
       /\ peers'[s] \in {"up", "streaming"} => Up(s)
       /\ windows[s] \in {"described", "parting", "closed"} =>
            windows'[s] \in {"described", "parting", "closed"}
  /\ \A k \in Call : calls'[k].phase = "reporting" =>
       calls[k].phase = "reporting" /\ calls[k].session = calls'[k].session
  /\ \A s \in linked' :
       /\ s \in linked
       /\ windows[s] \in {"described", "parting"} => windows'[s] \in {"described", "parting"}
       /\ Up(s) => peers'[s] \in {"up", "streaming"}

LEMMA OldConnections == BothEndsMet /\ NoNewConnection => BothEndsMet'
BY DEF BothEndsMet, NoNewConnection, CountsAsConnected, Up

LEMMA RowsUnmet ==
  ASSUME UNCHANGED peerVars,
         \A s \in Session : /\ rows'[s].state = "active" => rows[s].state = "active"
                            /\ rows'[s].connected => rows[s].connected,
         \A k \in Call : calls'[k].phase = "reporting" =>
                           calls[k].phase = "reporting" /\ calls[k].session = calls'[k].session
  PROVE  NoNewConnection
BY DEF NoNewConnection, peerVars, Up

LEMMA CallUnmet ==
  ASSUME calls \in [Call -> CallState], NEW k \in Call, NEW call,
         calls' = [calls EXCEPT ![k] = call], call.phase # "reporting"
  PROVE  \A m \in Call : calls'[m].phase = "reporting" =>
                           calls[m].phase = "reporting" /\ calls[m].session = calls'[m].session
OBVIOUS

LEMMA ServeUnmet ==
  ASSUME IInv, NEW k \in Call, Serve(k), ~MarkConnected(k), \A s \in Session : ~ReceiveTicket(k, s)
  PROVE  NoNewConnection
<1> USE DEF IInv, TypeOK
<1>1. ASSUME UNCHANGED rows, UNCHANGED peerVars, calls' = [calls EXCEPT ![k] = NoCall]
      PROVE  NoNewConnection
  BY <1>1, RowsUnmet, CallUnmet DEF NoCall
<1>2. ASSUME NEW s \in Session, CloseRead(k, s), UNCHANGED peerVars PROVE NoNewConnection
  BY <1>2, RowsUnmet DEF CloseRead, CallState
<1>3. ASSUME CloseWrite(k), UNCHANGED peerVars PROVE NoNewConnection
  BY <1>3, RowsUnmet DEF CloseWrite, CallState, Row
<1>4. ASSUME LookForLive(k), UNCHANGED peerVars PROVE NoNewConnection
  <2>1. UNCHANGED rows /\ \A m \in Call \ {k} : calls'[m] = calls[m]
    BY <1>4 DEF LookForLive
  <2>2. calls'[k].phase \in {"creating", "idle"}
    BY <1>4 DEF LookForLive, NoCall, CallState
  <2> QED BY <1>4, <2>1, <2>2, RowsUnmet
<1>5. ASSUME MarkConnecting(k), UNCHANGED peerVars PROVE NoNewConnection
  <2>1. calls' = [calls EXCEPT ![k] = [calls[k] EXCEPT !.steps = <<"append">>]]
        /\ calls[k].phase = "posting"
    BY <1>5, NextStepIs DEF MarkConnecting
  <2>2. \A m \in Call : calls'[m].phase = "reporting" =>
          calls[m].phase = "reporting" /\ calls[m].session = calls'[m].session
    BY <2>1 DEF CallState
  <2> QED BY <1>5, <2>2, RowsUnmet DEF MarkConnecting, Row
<1>6. ASSUME AppendSignal(k), UNCHANGED peerVars PROVE NoNewConnection
  BY <1>1, <1>6, NextStepIs DEF AppendSignal
<1>7. ASSUME Granted(k) PROVE NoNewConnection
  BY <1>7, CallUnmet DEF Granted, AnswerGrants, NoCall, NoNewConnection, Up
<1> QED BY <1>1, <1>2, <1>3, <1>4, <1>5, <1>6, <1>7 DEF Serve, Answer, CreateFails

LEMMA MemberUnmet ==
  ASSUME IInv, NEW k \in Call, Member(k)
  PROVE  NoNewConnection
<1> USE DEF IInv, TypeOK
<1>1. UNCHANGED rows /\ UNCHANGED peerVars
  BY DEF Member, AskSession, ListSessions, EndSession, EndSessionsForDevice
<1> DEFINE Unmet == \A m \in Call : calls'[m].phase = "reporting" =>
                      calls[m].phase = "reporting" /\ calls[m].session = calls'[m].session
<1>2. Unmet
  <2>1. ASSUME NEW a \in Agent, NEW ch, NEW offline, AskSession(k, a, ch, offline) PROVE Unmet
    BY <2>1 DEF AskSession, NoCall
  <2>2. ASSUME NEW offline, ListSessions(k, offline) PROVE Unmet
    BY <2>2 DEF ListSessions, NoCall
  <2>3. ASSUME NEW r \in Session, EndSession(k, r) PROVE Unmet
    BY <2>3 DEF EndSession, NoCall
  <2>4. ASSUME NEW viewed, EndSessionsForDevice(k, viewed) PROVE Unmet
    BY <2>4 DEF EndSessionsForDevice, NoCall
  <2> QED BY <2>1, <2>2, <2>3, <2>4 DEF Member
<1> QED BY <1>1, <1>2, RowsUnmet

LEMMA PostUnmet ==
  ASSUME IInv, NEW k \in Call, NEW s \in Session, NEW message \in Message,
         PostSignal(k, s, message)
  PROVE  \A m \in Call : calls'[m].phase = "reporting" =>
                           calls[m].phase = "reporting" /\ calls[m].session = calls'[m].session
BY PostSignalIs DEF IInv, TypeOK

LEMMA HostUnmet ==
  ASSUME IInv, BothEndsMet, NEW s \in Session, Host(s), \A k \in Call : ~ReportConnected(k, s)
  PROVE  NoNewConnection
<1> USE DEF IInv, TypeOK, NoNewConnection, Up
<1>1. ASSUME CollectOffer(s) PROVE NoNewConnection
  BY <1>1 DEF CollectOffer, CollectSignal
<1>2. ASSUME NEW k \in Call, PostAnswer(k, s) PROVE NoNewConnection
  BY <1>2, PostUnmet DEF PostAnswer, PostSignal, Message
<1>3. ASSUME StreamUnreported(s) PROVE NoNewConnection
  BY <1>3 DEF StreamUnreported, serviceVars
<1>4. ASSUME StopHost(s) \/ FinishHost(s) PROVE NoNewConnection
  BY <1>4 DEF StopHost, FinishHost, serviceVars
<1> QED BY <1>1, <1>2, <1>3, <1>4 DEF Host, Report

LEMMA WindowUnmet ==
  ASSUME IInv, BothEndsMet, NEW s \in Session, Window(s)
  PROVE  NoNewConnection
<1> USE DEF IInv, TypeOK, NoNewConnection, Up
<1>1. ASSUME NEW k \in Call, PostOffer(k, s) PROVE NoNewConnection
  BY <1>1, PostUnmet DEF PostOffer, PostSignal, Message
<1>2. ASSUME CollectAnswer(s) PROVE NoNewConnection
  BY <1>2 DEF CollectAnswer, CollectSignal
<1>3. ASSUME Beat(s) PROVE NoNewConnection
  BY <1>3 DEF Beat, Heartbeat, peerVars, hostVars, Row
<1>4. ASSUME NEW k \in Call, Leave(k, s) PROVE NoNewConnection
  BY <1>4 DEF Leave, Parting, EndSession, NoCall
<1>5. ASSUME LeaveUnheard(s) PROVE NoNewConnection
  BY <1>5 DEF LeaveUnheard, Parting, serviceVars
<1>6. ASSUME CloseWindow(s) PROVE NoNewConnection
  BY <1>6 DEF CloseWindow, LinksWithout, hostVars, serviceVars
<1> QED BY <1>1, <1>2, <1>3, <1>4, <1>5, <1>6 DEF Window

LEMMA MachineUnmet ==
  ASSUME IInv, NEW a \in Agent, Machine(a)
  PROVE  NoNewConnection
<1> USE DEF IInv, TypeOK, NoNewConnection, Up
<1>1. ASSUME NEW k \in Call, StartPoll(k, a) PROVE NoNewConnection
  BY <1>1 DEF StartPoll, PollGrants, NoCall
<1>2. ASSUME GiveUpPoll(a) PROVE NoNewConnection
  BY <1>2 DEF GiveUpPoll, serviceVars
<1>3. ASSUME NEW s \in Session, StartSession(a, s) PROVE NoNewConnection
  BY <1>3 DEF StartSession, serviceVars
<1>4. ASSUME Restart(a) PROVE NoNewConnection
  BY <1>4 DEF Restart, serviceVars
<1> QED BY <1>1, <1>2, <1>3, <1>4 DEF Machine

(* The row of a new session has nothing to do with an older one, which had *)
(* a window.                                                               *)
LEMMA TicketUnmet ==
  ASSUME IInv, BothEndsMet, NEW k \in Call, NEW s \in Session, ReceiveTicket(k, s)
  PROVE  NoNewConnection
<1> USE DEF IInv, TypeOK
<1>1. windows[s] = "none"
  BY DEF ReceiveTicket, CreateSession, MetInv
<1>2. s \notin linked
  BY <1>1 DEF BothEndsMet
<1>3. /\ rows'[s].state = "pending" /\ rows'[s].connected = FALSE
      /\ \A r \in Session \ {s} : rows'[r] = rows[r] /\ windows'[r] = windows[r]
      /\ UNCHANGED <<peers, linked>>
      /\ calls' = [calls EXCEPT ![k] = NoCall]
  BY DEF ReceiveTicket, CreateSession
<1>4. \A m \in Call : calls'[m].phase = "reporting" =>
        calls[m].phase = "reporting" /\ calls[m].session = calls'[m].session
  BY <1>3, CallUnmet DEF NoCall
<1> QED BY <1>1, <1>2, <1>3, <1>4 DEF NoNewConnection, Up

LEMMA ConnectMeets ==
  ASSUME IInv, BothEndsMet, NEW s \in Session, Connect(s)
  PROVE  BothEndsMet'
BY DEF IInv, TypeOK, BothEndsMet, CountsAsConnected, Up, Connect, serviceVars

LEMMA ReportMeets ==
  ASSUME IInv, BothEndsMet, NEW k \in Call, NEW s \in Session, ReportConnected(k, s)
  PROVE  BothEndsMet'
<1> USE DEF IInv, TypeOK
<1>1. windows[s] \in {"described", "parting", "closed"}
  BY DEF ReportConnected, BothEndsMet, CountsAsConnected, Up
<1>2. \A m \in Call : calls'[m].phase = "reporting" /\ calls'[m].session # s =>
        calls[m].phase = "reporting" /\ calls[m].session = calls'[m].session
  BY DEF ReportConnected, ReadConnected, NoCall
<1> QED BY <1>1, <1>2 DEF ReportConnected, ReadConnected, BothEndsMet, CountsAsConnected, Up

LEMMA MarkMeets ==
  ASSUME IInv, BothEndsMet, NEW k \in Call, MarkConnected(k), UNCHANGED peerVars
  PROVE  BothEndsMet'
<1> USE DEF IInv, TypeOK
<1>1. PICK s \in Session : s = calls[k].session
  BY DEF MarkConnected, CallsInv, CallState
<1>2. windows[s] \in {"described", "parting", "closed"}
  BY <1>1 DEF MarkConnected, BothEndsMet, CountsAsConnected
<1>3. \A r \in Session \ {s} : rows'[r] = rows[r]
  BY <1>1 DEF MarkConnected
<1>4. \A m \in Call : calls'[m].phase = "reporting" => calls'[m] = calls[m]
  BY DEF MarkConnected, NoCall
<1> QED BY <1>2, <1>3, <1>4 DEF BothEndsMet, CountsAsConnected, Up, peerVars, hostVars

LEMMA BothEndsStep == IInv /\ BothEndsMet /\ [Next]_vars => BothEndsMet'
<1> SUFFICES ASSUME IInv, BothEndsMet, [Next]_vars PROVE BothEndsMet'
  OBVIOUS
<1>1. ASSUME NEW k \in Call, Serve(k) PROVE BothEndsMet'
  <2>1. CASE MarkConnected(k)
    <3>1. UNCHANGED peerVars
      BY <1>1, <2>1
         DEF Serve, MarkConnected, CloseRead, CloseWrite, Answer, LookForLive, ReceiveTicket,
             CreateSession, CreateFails, MarkConnecting, AppendSignal, NextStep, Granted,
             AnswerGrants
    <3> QED BY <2>1, <3>1, MarkMeets
  <2>2. ASSUME NEW s \in Session, ReceiveTicket(k, s) PROVE BothEndsMet'
    BY <2>2, TicketUnmet, OldConnections
  <2> QED BY <1>1, <2>1, <2>2, ServeUnmet, OldConnections
<1>2. ASSUME NEW k \in Call, Member(k) PROVE BothEndsMet'
  BY <1>2, MemberUnmet, OldConnections
<1>3. ASSUME NEW s \in Session, Host(s) PROVE BothEndsMet'
  BY <1>3, HostUnmet, ReportMeets, OldConnections
<1>4. ASSUME NEW s \in Session, Window(s) PROVE BothEndsMet'
  BY <1>4, WindowUnmet, OldConnections
<1>5. ASSUME NEW s \in Session, Connect(s) PROVE BothEndsMet'
  BY <1>5, ConnectMeets
<1>6. ASSUME NEW s \in Session, Disconnect(s) \/ Time(s) PROVE BothEndsMet'
  <2> USE DEF IInv, TypeOK
  <2>1. CASE Disconnect(s)
    BY <2>1, OldConnections DEF Disconnect, NoNewConnection, Up, hostVars, serviceVars
  <2>2. CASE Time(s)
    <3>1. UNCHANGED peerVars /\ UNCHANGED calls
      BY <2>2 DEF Time, GrowOlder, GoQuiet
    <3>2. CASE GrowOlder(s)
      <4>1. rows' = [rows EXCEPT ![s] = [rows[s] EXCEPT !.age = Older[rows[s].age]]]
        BY <3>2 DEF GrowOlder
      <4>2. \A t \in Session : rows'[t].state = rows[t].state /\ rows'[t].connected = rows[t].connected
        BY <4>1 DEF Row
      <4> QED BY <3>1, <4>2, RowsUnmet, OldConnections
    <3>3. CASE GoQuiet(s)
      <4>1. rows' = [rows EXCEPT ![s] = [rows[s] EXCEPT !.quiet = TRUE]]
        BY <3>3 DEF GoQuiet
      <4>2. \A t \in Session : rows'[t].state = rows[t].state /\ rows'[t].connected = rows[t].connected
        BY <4>1 DEF Row
      <4> QED BY <3>1, <4>2, RowsUnmet, OldConnections
    <3> QED BY <2>2, <3>2, <3>3 DEF Time
  <2> QED BY <1>6, <2>1, <2>2
<1>7. ASSUME NEW a \in Agent, Machine(a) PROVE BothEndsMet'
  BY <1>7, MachineUnmet, OldConnections
<1>8. CASE UNCHANGED vars
  BY <1>8, OldConnections DEF NoNewConnection, Up, vars, serviceVars, peerVars, hostVars
<1> QED BY <1>1, <1>2, <1>3, <1>4, <1>5, <1>6, <1>7, <1>8 DEF Next

(* A host that streams and a row that is called active mean that the       *)
(* viewer had the host's answer (start and poll of remote.ts), and no      *)
(* connection outlives the host that answered or the window that closed.   *)
THEOREM EndsMeet == Spec => []BothEndsMet
<1>1. Init => BothEndsMet
  <2> SUFFICES ASSUME Init PROVE BothEndsMet
    OBVIOUS
  <2>1. /\ \A s \in Session : rows[s].state = "none" /\ ~rows[s].connected
        /\ \A k \in Call : calls[k].phase = "idle"
    BY DEF Init, ServiceInit, NoRow, NoCall
  <2> QED BY <2>1 DEF Init, BothEndsMet, CountsAsConnected, Up
<1> QED BY <1>1, BothEndsStep, RemoteInvariant, PTL DEF Spec
-----------------------------------------------------------------------------
(* The one offer of a session is in one place at a time: with one request, *)
(* in the mailbox or with the host.  That the window has sent it by then   *)
(* is in MetInv.                                                           *)
OneOffer ==
  \A s \in Session :
    /\ \A k, m \in Call : PostsOffer(k, s) /\ PostsOffer(m, s) => k = m
    /\ \A k \in Call : PostsOffer(k, s) => "offer" \notin mail[s] /\ ~Taken(s)
    /\ "offer" \in mail[s] => ~Taken(s)

(* What a step does to the offers: none is used a second time, and the     *)
(* host that is no longer up has used its own.                             *)
OffersSpent ==
  \A s \in Session : /\ OfferUsed(s) => OfferUsed(s)'
                     /\ Up(s) /\ ~Up(s)' => OfferUsed(s)'

(* A step that brings an offer to no new place.                            *)
NoOfferMoves ==
  /\ \A k \in Call, s \in Session : PostsOffer(k, s)' => PostsOffer(k, s)
  /\ \A s \in Session :
       /\ windows[s] \notin {"none", "opened"} => windows'[s] \notin {"none", "opened"}
       /\ "offer" \in mail'[s] => "offer" \in mail[s]
       /\ Taken(s)' => Taken(s)
       /\ Up(s) /\ Taken(s)' => Up(s)'

LEMMA UpIsOffered ==
  ASSUME IInv, OneOffer, NEW s \in Session, Taken(s)
  PROVE  /\ windows[s] \notin {"none", "opened"} /\ "offer" \notin mail[s]
         /\ \A k \in Call : ~PostsOffer(k, s)
<1>1. Offered(s)
  BY DEF Offered, Taken
<1> QED BY <1>1 DEF IInv, MetInv, OneOffer

LEMMA OffersStay ==
  ASSUME IInv, OneOffer, NoOfferMoves
  PROVE  OneOffer' /\ OffersSpent
<1>1. OneOffer'
  BY DEF OneOffer, NoOfferMoves
<1>2. ASSUME NEW s \in Session, OfferUsed(s) PROVE OfferUsed(s)'
  BY <1>2 DEF OfferUsed, NoOfferMoves
<1>3. ASSUME NEW s \in Session, Up(s), ~Up(s)' PROVE OfferUsed(s)'
  <2>1. Taken(s)
    BY <1>3 DEF Up, Taken
  <2>2. ~Taken(s)'
    BY <1>3 DEF NoOfferMoves
  <2> QED BY <2>1, <2>2, UpIsOffered DEF OfferUsed, NoOfferMoves
<1> QED BY <1>1, <1>2, <1>3 DEF OffersSpent

(* One request moves on without an offer.                                  *)
LEMMA OfferlessCall ==
  ASSUME calls \in [Call -> CallState], NEW k \in Call, NEW call,
         calls' = [calls EXCEPT ![k] = call],
         \/ call.phase # "posting"
         \/ /\ call.phase = calls[k].phase /\ call.session = calls[k].session
            /\ call.message = calls[k].message
  PROVE  \A m \in Call, s \in Session : PostsOffer(m, s)' => PostsOffer(m, s)
BY DEF PostsOffer

LEMMA OfferlessRequest ==
  ASSUME UNCHANGED <<windows, peers>>,
         \A k \in Call, s \in Session : PostsOffer(k, s)' => PostsOffer(k, s),
         \A s \in Session : "offer" \in mail'[s] => "offer" \in mail[s]
  PROVE  NoOfferMoves
BY DEF NoOfferMoves, Taken, Up

LEMMA ServeOfferless ==
  ASSUME IInv, NEW k \in Call, Serve(k), ~AppendSignal(k)
  PROVE  NoOfferMoves
<1> USE DEF IInv, TypeOK
<1>1. ASSUME UNCHANGED <<windows, peers, mail>>, calls' = [calls EXCEPT ![k] = NoCall]
      PROVE  NoOfferMoves
  <2>1. NoCall.phase # "posting"
    BY DEF NoCall
  <2> QED BY <1>1, <2>1, OfferlessCall, OfferlessRequest
<1>2. ASSUME NEW s \in Session, CloseRead(k, s), UNCHANGED peerVars PROVE NoOfferMoves
  <2> DEFINE at == IF rows[s].state = "ended" THEN None ELSE s
  <2>1. calls' = [calls EXCEPT ![k] = [calls[k] EXCEPT !.todo = calls[k].todo \ {s}, !.at = at]]
    BY <1>2 DEF CloseRead
  <2>2. \A m \in Call, r \in Session : PostsOffer(m, r)' => PostsOffer(m, r)
    BY <2>1 DEF PostsOffer, CallState
  <2> QED BY <1>2, <2>2, OfferlessRequest DEF CloseRead, peerVars
<1>3. ASSUME CloseWrite(k), UNCHANGED peerVars PROVE NoOfferMoves
  <2>1. \A m \in Call, r \in Session : PostsOffer(m, r)' => PostsOffer(m, r)
    BY <1>3 DEF CloseWrite, PostsOffer, CallState
  <2>2. \A r \in Session : "offer" \in mail'[r] => "offer" \in mail[r]
    BY <1>3 DEF CloseWrite
  <2> QED BY <1>3, <2>1, <2>2, OfferlessRequest DEF peerVars
<1>4. ASSUME LookForLive(k), UNCHANGED peerVars PROVE NoOfferMoves
  <2>1. UNCHANGED mail /\ calls'[k].phase # "posting" /\ \A m \in Call \ {k} : calls'[m] = calls[m]
    BY <1>4 DEF LookForLive, NoCall, CallState
  <2>2. \A m \in Call, r \in Session : PostsOffer(m, r)' => PostsOffer(m, r)
    BY <2>1 DEF PostsOffer
  <2> QED BY <1>4, <2>1, <2>2, OfferlessRequest DEF peerVars
<1>5. ASSUME MarkConnecting(k), UNCHANGED peerVars PROVE NoOfferMoves
  <2>1. calls' = [calls EXCEPT ![k] = [calls[k] EXCEPT !.steps = <<"append">>]]
    BY <1>5, NextStepIs DEF MarkConnecting
  <2>2. \A m \in Call, r \in Session : PostsOffer(m, r)' => PostsOffer(m, r)
    BY <2>1 DEF PostsOffer, CallState
  <2> QED BY <1>5, <2>2, OfferlessRequest DEF MarkConnecting, peerVars
<1>6. ASSUME NEW s \in Session, ReceiveTicket(k, s) PROVE NoOfferMoves
  <2>1. windows[s] = "none"
    BY <1>6 DEF ReceiveTicket, CreateSession, MetInv
  <2>2. \A r \in Session : windows[r] \notin {"none", "opened"} => windows'[r] = windows[r]
    BY <1>6, <2>1 DEF ReceiveTicket
  <2>3. calls' = [calls EXCEPT ![k] = NoCall] /\ UNCHANGED <<mail, peers>>
    BY <1>6 DEF ReceiveTicket, CreateSession
  <2>4. NoCall.phase # "posting"
    BY DEF NoCall
  <2>5. \A m \in Call, r \in Session : PostsOffer(m, r)' => PostsOffer(m, r)
    BY <2>3, <2>4, OfferlessCall
  <2> QED BY <2>2, <2>3, <2>5 DEF NoOfferMoves, Taken, Up
<1>7. ASSUME Granted(k) PROVE NoOfferMoves
  BY <1>1, <1>7 DEF Granted, AnswerGrants
<1>8. ASSUME Answer(k) \/ CreateFails(k) \/ MarkConnected(k), UNCHANGED peerVars PROVE NoOfferMoves
  BY <1>1, <1>8 DEF Answer, CreateFails, MarkConnected, peerVars
<1> QED BY <1>2, <1>3, <1>4, <1>5, <1>6, <1>7, <1>8 DEF Serve

LEMMA MemberOfferless ==
  ASSUME IInv, NEW k \in Call, Member(k)
  PROVE  NoOfferMoves
<1> USE DEF IInv, TypeOK
<1>1. UNCHANGED mail /\ UNCHANGED peerVars
  BY DEF Member, AskSession, ListSessions, EndSession, EndSessionsForDevice
<1> DEFINE Offerless == \A m \in Call, s \in Session : PostsOffer(m, s)' => PostsOffer(m, s)
<1>2. Offerless
  <2>1. ASSUME NEW a \in Agent, NEW ch, NEW offline, AskSession(k, a, ch, offline) PROVE Offerless
    BY <2>1 DEF AskSession, NoCall, PostsOffer
  <2>2. ASSUME NEW offline, ListSessions(k, offline) PROVE Offerless
    BY <2>2 DEF ListSessions, NoCall, PostsOffer
  <2>3. ASSUME NEW r \in Session, EndSession(k, r) PROVE Offerless
    BY <2>3 DEF EndSession, NoCall, PostsOffer
  <2>4. ASSUME NEW viewed, EndSessionsForDevice(k, viewed) PROVE Offerless
    BY <2>4 DEF EndSessionsForDevice, NoCall, PostsOffer
  <2> QED BY <2>1, <2>2, <2>3, <2>4 DEF Member
<1> QED BY <1>1, <1>2, OfferlessRequest DEF peerVars

(* The host's own steps after it has taken the offer.                      *)
LEMMA HostOfferless ==
  ASSUME IInv, NEW s \in Session, Host(s), ~CollectOffer(s)
  PROVE  NoOfferMoves
<1> USE DEF IInv, TypeOK, NoOfferMoves, Taken, Up
<1>1. ASSUME NEW k \in Call, PostAnswer(k, s) PROVE NoOfferMoves
  <2>1. /\ peers[s] = "answering" /\ peers' = [peers EXCEPT ![s] = "answered"]
        /\ UNCHANGED <<windows, mail>>
    BY <1>1 DEF PostAnswer, PostSignal
  <2>2. \A m \in Call, r \in Session : PostsOffer(m, r)' => PostsOffer(m, r)
    BY <1>1, PostSignalIs DEF PostAnswer, PostsOffer, Message
  <2> QED BY <2>1, <2>2
<1>2. ASSUME NEW k \in Call, ReportConnected(k, s) PROVE NoOfferMoves
  <2>1. /\ peers[s] = "up" /\ peers' = [peers EXCEPT ![s] = "streaming"]
        /\ UNCHANGED <<windows, mail>>
        /\ calls' = [calls EXCEPT ![k] = [NoCall EXCEPT !.phase = "reporting", !.session = s]]
    BY <1>2 DEF ReportConnected, ReadConnected
  <2>2. [NoCall EXCEPT !.phase = "reporting", !.session = s].phase # "posting"
    BY DEF NoCall
  <2>3. \A m \in Call, r \in Session : PostsOffer(m, r)' => PostsOffer(m, r)
    BY <2>1, <2>2, OfferlessCall
  <2> QED BY <2>1, <2>3
<1>3. ASSUME StreamUnreported(s) PROVE NoOfferMoves
  BY <1>3 DEF StreamUnreported, serviceVars, PostsOffer
<1>4. ASSUME StopHost(s) \/ FinishHost(s) PROVE NoOfferMoves
  BY <1>4 DEF StopHost, FinishHost, serviceVars, PostsOffer
<1> QED BY <1>1, <1>2, <1>3, <1>4 DEF Host, Report

LEMMA WindowOfferless ==
  ASSUME IInv, NEW s \in Session, Window(s), \A k \in Call : ~PostOffer(k, s)
  PROVE  NoOfferMoves
<1> USE DEF IInv, TypeOK, NoOfferMoves, Taken, Up
<1>1. ASSUME CollectAnswer(s) PROVE NoOfferMoves
  BY <1>1 DEF CollectAnswer, CollectSignal, PostsOffer
<1>2. ASSUME Beat(s) PROVE NoOfferMoves
  BY <1>2 DEF Beat, Heartbeat, peerVars, hostVars, PostsOffer
<1>3. ASSUME NEW k \in Call, Leave(k, s) PROVE NoOfferMoves
  <2>1. \A m \in Call, r \in Session : PostsOffer(m, r)' => PostsOffer(m, r)
    BY <1>3 DEF Leave, Parting, EndSession, NoCall, PostsOffer
  <2>2. /\ windows' = [windows EXCEPT ![s] = Parting(s)]
        /\ UNCHANGED <<rows, mail, peers>>
    BY <1>3 DEF Leave, EndSession
  <2>3. Parting(s) \in {"leaving", "parting"}
    BY DEF Parting
  <2> QED BY <2>1, <2>2, <2>3
<1>4. ASSUME LeaveUnheard(s) PROVE NoOfferMoves
  BY <1>4 DEF LeaveUnheard, Parting, serviceVars, PostsOffer
<1>5. ASSUME CloseWindow(s) PROVE NoOfferMoves
  BY <1>5 DEF CloseWindow, hostVars, serviceVars, PostsOffer
<1> QED BY <1>1, <1>2, <1>3, <1>4, <1>5 DEF Window

LEMMA MachineOfferless ==
  ASSUME IInv, NEW a \in Agent, Machine(a)
  PROVE  NoOfferMoves
<1> USE DEF IInv, TypeOK, NoOfferMoves, Taken, Up
<1>1. ASSUME NEW k \in Call, StartPoll(k, a) PROVE NoOfferMoves
  BY <1>1 DEF StartPoll, PollGrants, NoCall, PostsOffer
<1>2. ASSUME GiveUpPoll(a) PROVE NoOfferMoves
  BY <1>2 DEF GiveUpPoll, serviceVars, PostsOffer
<1>3. ASSUME NEW s \in Session, StartSession(a, s) PROVE NoOfferMoves
  BY <1>3 DEF StartSession, serviceVars, PostsOffer
<1>4. ASSUME Restart(a) PROVE NoOfferMoves
  BY <1>4 DEF Restart, serviceVars, PostsOffer
<1> QED BY <1>1, <1>2, <1>3, <1>4 DEF Machine

(* The three steps that move an offer: the window hands it to a request,   *)
(* the request puts it in the mailbox, the host takes it from there.       *)
LEMMA PostMovesOffer ==
  ASSUME IInv, OneOffer, NEW k \in Call, NEW s \in Session, PostOffer(k, s)
  PROVE  OneOffer' /\ OffersSpent
<1> USE DEF IInv, TypeOK
<1>1. /\ windows[s] = "opened" /\ windows' = [windows EXCEPT ![s] = "offered"]
      /\ UNCHANGED <<peers, mail>> /\ PostSignal(k, s, "offer")
  BY DEF PostOffer, PostSignal
<1>2. ~Offered(s)
  BY <1>1 DEF MetInv
<1>3. "offer" \notin mail[s] /\ ~Taken(s)
  BY <1>2 DEF Offered, Taken
<1>4. \A m \in Call : ~PostsOffer(m, s)
  BY <1>1, <1>2 DEF Offered, PostsOffer, MetInv
<1>5. \A m \in Call, r \in Session :
        PostsOffer(m, r)' => PostsOffer(m, r) \/ (m = k /\ r = s)
  BY <1>1, PostSignalIs DEF PostsOffer, Message
<1>6. \A r \in Session : (Taken(r)' <=> Taken(r)) /\ (Up(r)' <=> Up(r))
  BY <1>1 DEF Taken, Up
<1>7. OneOffer'
  BY <1>1, <1>3, <1>4, <1>5, <1>6 DEF OneOffer
<1>8. ~OfferUsed(s) /\ \A r \in Session \ {s} : windows'[r] = windows[r]
  BY <1>1 DEF OfferUsed
<1>9. OffersSpent
  BY <1>1, <1>5, <1>6, <1>8 DEF OffersSpent, OfferUsed
<1> QED BY <1>7, <1>9

LEMMA AppendMovesOffer ==
  ASSUME IInv, OneOffer, NEW k \in Call, AppendSignal(k), UNCHANGED peerVars
  PROVE  OneOffer' /\ OffersSpent
<1> USE DEF IInv, TypeOK
<1>1. PICK s \in Session : s = calls[k].session
  BY NextStepIs DEF AppendSignal
<1>2. /\ calls[k].phase = "posting" /\ calls' = [calls EXCEPT ![k] = NoCall]
      /\ mail' = [mail EXCEPT ![s] = mail[s] \cup {calls[k].message}]
      /\ UNCHANGED <<windows, peers>>
  BY <1>1, NextStepIs DEF AppendSignal, peerVars
<1>3. NoCall.phase # "posting"
  BY DEF NoCall
<1>4. \A m \in Call, r \in Session : PostsOffer(m, r)' => PostsOffer(m, r) /\ m # k
  BY <1>2, <1>3 DEF PostsOffer
<1>5. CASE calls[k].message # "offer"
  <2>1. \A r \in Session : "offer" \in mail'[r] => "offer" \in mail[r]
    BY <1>2, <1>5
  <2> QED BY <1>2, <1>4, <2>1, OfferlessRequest, OffersStay
<1>6. CASE calls[k].message = "offer"
  <2>1. PostsOffer(k, s)
    BY <1>1, <1>2, <1>6 DEF PostsOffer
  <2>2. /\ ~Taken(s) /\ ~OfferUsed(s)
        /\ \A m \in Call \ {k} : ~PostsOffer(m, s)
    BY <2>1 DEF OneOffer, OfferUsed
  <2>3. \A r \in Session : (Taken(r)' <=> Taken(r)) /\ (Up(r)' <=> Up(r))
    BY <1>2 DEF Taken, Up
  <2>4. \A r \in Session \ {s} : mail'[r] = mail[r]
    BY <1>2
  <2>5. OneOffer'
    BY <1>4, <2>2, <2>3, <2>4 DEF OneOffer
  <2>6. OffersSpent
    BY <1>2, <1>4, <2>2, <2>3, <2>4 DEF OffersSpent, OfferUsed
  <2> QED BY <2>5, <2>6
<1> QED BY <1>5, <1>6

LEMMA CollectMovesOffer ==
  ASSUME IInv, OneOffer, NEW s \in Session, CollectOffer(s)
  PROVE  OneOffer' /\ OffersSpent
<1> USE DEF IInv, TypeOK
<1>1. /\ "offer" \in mail[s] /\ mail' = [mail EXCEPT ![s] = mail[s] \ {"offer"}]
      /\ UNCHANGED <<windows, calls>> /\ peers[s] = "waiting"
  BY DEF CollectOffer, CollectSignal
<1>2. peers'[s] \in {"waiting", "answering"} /\ \A r \in Session \ {s} : peers'[r] = peers[r]
  BY DEF CollectOffer
<1>3. /\ "offer" \notin mail'[s] /\ ~OfferUsed(s) /\ ~Up(s)
      /\ \A m \in Call : ~PostsOffer(m, s)
  BY <1>1 DEF OneOffer, OfferUsed, Up
<1>4. \A m \in Call, r \in Session : PostsOffer(m, r)' <=> PostsOffer(m, r)
  BY <1>1 DEF PostsOffer
<1>5. \A r \in Session \ {s} : /\ mail'[r] = mail[r]
                               /\ Taken(r)' <=> Taken(r)
                               /\ Up(r)' <=> Up(r)
  BY <1>1, <1>2 DEF Taken, Up
<1>6. OneOffer'
  BY <1>3, <1>4, <1>5 DEF OneOffer
<1>7. OffersSpent
  BY <1>1, <1>3, <1>4, <1>5 DEF OffersSpent, OfferUsed
<1> QED BY <1>6, <1>7

LEMMA OfferStep ==
  ASSUME IInv, OneOffer, [Next]_vars
  PROVE  OneOffer' /\ OffersSpent
<1>1. ASSUME NEW k \in Call, Serve(k) PROVE OneOffer' /\ OffersSpent
  <2>1. CASE AppendSignal(k)
    <3>1. UNCHANGED peerVars
      BY <1>1, <2>1
         DEF Serve, MarkConnected, CloseRead, CloseWrite, Answer, LookForLive, ReceiveTicket,
             CreateSession, CreateFails, MarkConnecting, AppendSignal, NextStep, Granted,
             AnswerGrants
    <3> QED BY <2>1, <3>1, AppendMovesOffer
  <2> QED BY <1>1, <2>1, ServeOfferless, OffersStay
<1>2. ASSUME NEW k \in Call, Member(k) PROVE OneOffer' /\ OffersSpent
  BY <1>2, MemberOfferless, OffersStay
<1>3. ASSUME NEW s \in Session, Host(s) PROVE OneOffer' /\ OffersSpent
  BY <1>3, HostOfferless, CollectMovesOffer, OffersStay
<1>4. ASSUME NEW s \in Session, Window(s) PROVE OneOffer' /\ OffersSpent
  BY <1>4, WindowOfferless, PostMovesOffer, OffersStay
<1>5. ASSUME NEW s \in Session, Connect(s) \/ Disconnect(s) \/ Time(s)
      PROVE  OneOffer' /\ OffersSpent
  <2>1. UNCHANGED <<calls, mail, windows>>
    BY <1>5 DEF Connect, Disconnect, Time, GrowOlder, GoQuiet, serviceVars, peerVars
  <2>2. \/ UNCHANGED peers
        \/ peers[s] = "answered" /\ peers' = [peers EXCEPT ![s] = "up"]
    BY <1>5 DEF Connect, Disconnect, Time, peerVars, hostVars
  <2>3. NoOfferMoves
    BY <2>1, <2>2 DEF NoOfferMoves, PostsOffer, Taken, Up, IInv, TypeOK
  <2> QED BY <2>3, OffersStay
<1>6. ASSUME NEW a \in Agent, Machine(a) PROVE OneOffer' /\ OffersSpent
  BY <1>6, MachineOfferless, OffersStay
<1>7. CASE UNCHANGED vars
  <2>1. NoOfferMoves
    BY <1>7 DEF NoOfferMoves, PostsOffer, Taken, Up, vars, serviceVars, peerVars
  <2> QED BY <2>1, OffersStay
<1> QED BY <1>1, <1>2, <1>3, <1>4, <1>5, <1>6, <1>7 DEF Next

(* The offer of a session is in one place at a time, whatever the requests *)
(* do that post it, end the session or deliver its messages (postSignal,   *)
(* collectSignals, close).                                                 *)
THEOREM OfferInOnePlace == Spec => []OneOffer
<1>1. Init => OneOffer
  <2> SUFFICES ASSUME Init PROVE OneOffer
    OBVIOUS
  <2>1. /\ \A k \in Call : calls[k].phase = "idle"
        /\ \A s \in Session : mail[s] = {} /\ peers[s] = "none"
    BY DEF Init, ServiceInit, NoCall
  <2> QED BY <2>1 DEF OneOffer, PostsOffer, Taken
<1> QED BY <1>1, OfferStep, RemoteInvariant, PTL DEF Spec

(* Only the direct connection sets a stream going.                         *)
LEMMA ConnectBegins ==
  ASSUME IInv, [Next]_vars, NEW s \in Session, Up(s)', ~Up(s)
  PROVE  Connect(s)
<1> USE DEF IInv, TypeOK, Up
<1>1. ~UNCHANGED peers
  OBVIOUS
<1>2. ASSUME NEW k \in Call, Serve(k) \/ Member(k) PROVE UNCHANGED peers
  BY <1>2 DEF Serve, ReceiveTicket, Granted, Member, peerVars, hostVars
<1>3. ASSUME NEW r \in Session, Host(r) PROVE FALSE
  <2>1. ASSUME CollectOffer(r) PROVE FALSE
    BY <2>1 DEF CollectOffer
  <2>2. ASSUME NEW k \in Call, PostAnswer(k, r) PROVE FALSE
    BY <2>2 DEF PostAnswer
  <2>3. ASSUME Report(r) PROVE FALSE
    BY <2>3 DEF Report, StreamUnreported, ReportConnected
  <2>4. ASSUME StopHost(r) \/ FinishHost(r) PROVE FALSE
    BY <2>4 DEF StopHost, FinishHost
  <2> QED BY <1>3, <2>1, <2>2, <2>3, <2>4 DEF Host
<1>4. ASSUME NEW r \in Session, Window(r) \/ Disconnect(r) \/ Time(r) PROVE UNCHANGED peers
  BY <1>4 DEF Window, PostOffer, CollectAnswer, Beat, Leave, LeaveUnheard, CloseWindow,
              Disconnect, Time, peerVars, hostVars
<1>5. ASSUME NEW r \in Session, Connect(r) PROVE r = s
  BY <1>5 DEF Connect
<1>6. ASSUME NEW a \in Agent, Machine(a) PROVE FALSE
  BY <1>6 DEF Machine, StartPoll, GiveUpPoll, StartSession, Restart
<1>7. ASSUME UNCHANGED vars PROVE UNCHANGED peers
  BY <1>7 DEF vars, peerVars
<1> QED BY <1>1, <1>2, <1>3, <1>4, <1>5, <1>6, <1>7 DEF Next

LEMMA StreamSteps ==
  ASSUME IInv, OneOffer, [Next]_vars
  PROVE  Stream!Next
<1>1. OffersSpent
  BY OfferStep
<1> DEFINE Now == [s \in Session |-> StreamState(s)]
           Then == [s \in Session |-> StreamState(s)']
<1>2. CASE \A s \in Session : Up(s)' => Up(s)
  <2> DEFINE Over == {s \in Session : StreamState(s)' = "over"}
  <2>1. ASSUME NEW s \in Session, s \notin Over PROVE StreamState(s)' = StreamState(s)
    BY <1>1, <1>2, <2>1 DEF OffersSpent, StreamState
  <2>2. Then = [s \in Session |-> IF s \in Over THEN "over" ELSE Now[s]]
    BY <2>1
  <2>3. Stream!End(Over)
    BY <2>2 DEF Stream!End
  <2>4. Over \in SUBSET Session
    OBVIOUS
  <2> QED BY <2>3, <2>4 DEF Stream!Next
<1>3. CASE \E s \in Session : Up(s)' /\ ~Up(s)
  <2>1. PICK s \in Session : Up(s)' /\ ~Up(s)
    BY <1>3
  <2>2. Connect(s)
    BY <2>1, ConnectBegins
  <2>3. ~OfferUsed(s)
    BY <2>2 DEF Connect, OfferUsed, Taken
  <2>4. StreamState(s) = "ahead" /\ StreamState(s)' = "running"
    BY <2>1, <2>3 DEF StreamState
  <2>5. ASSUME NEW r \in Session \ {s} PROVE StreamState(r)' = StreamState(r)
    <3>1. UNCHANGED <<windows, calls, mail>> /\ peers'[r] = peers[r]
      BY <2>2 DEF Connect, serviceVars
    <3>2. Up(r)' <=> Up(r)
      BY <3>1 DEF Up
    <3>3. OfferUsed(r)' <=> OfferUsed(r)
      BY <3>1 DEF OfferUsed, PostsOffer, Taken
    <3> QED BY <3>2, <3>3 DEF StreamState
  <2>6. Now[s] = "ahead" /\ Then = [Now EXCEPT ![s] = "running"]
    BY <2>4, <2>5
  <2> QED BY <2>6 DEF Stream!Begin, Stream!Next
<1> QED BY <1>2, <1>3

(* A host that has lost its connection, or has ended with its process,     *)
(* never streams in that session again: a forgotten window, a replayed     *)
(* grant or a late message cannot bring the stream back.                   *)
THEOREM StreamsRunOnce == Spec => StreamsOnce
<1>1. Init => Stream!Init
  <2> SUFFICES ASSUME Init PROVE Stream!Init
    OBVIOUS
  <2>1. \A s \in Session : peers[s] = "none" /\ windows[s] = "none"
    BY DEF Init
  <2>2. \A s \in Session : StreamState(s) = "ahead"
    BY <2>1 DEF StreamState, Up, OfferUsed
  <2> QED BY <2>2 DEF Stream!Init
<1>2. IInv /\ OneOffer /\ [Next]_vars => [Stream!Next]_([s \in Session |-> StreamState(s)])
  BY StreamSteps
<1> QED BY <1>1, <1>2, RemoteInvariant, OfferInOnePlace, PTL DEF Spec, StreamsOnce, Stream!Spec
=============================================================================
