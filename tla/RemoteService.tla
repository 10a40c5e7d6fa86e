--------------------------- MODULE RemoteService ---------------------------
(***************************************************************************)
(* The control plane's half of remote desktop sessions                     *)
(* (apps/api/src/remote/remote.service.ts).                                *)
(*                                                                         *)
(* A session is a row.  Most handlers read it in one statement and write   *)
(* it in another, and several close sessions on the way; `calls` holds the *)
(* requests in progress, each with the sessions it has yet to close.  The  *)
(* messages of the two peers wait in `mail`.                               *)
(*                                                                         *)
(* Time is the age of a session: "late" when it should have connected (45  *)
(* seconds after it was asked for), "lapsed" when its grant has expired    *)
(* (120 seconds), "over" when it has been connected for four hours.  A     *)
(* session is quiet when neither side has been heard of for five minutes.  *)
(* Which computers are `offline`, their last heartbeat too old, is an input*)
(* of every statement that asks.                                           *)
(***************************************************************************)
EXTENDS Integers, Sequences

CONSTANTS
  Agent,      \* enrolled computers of one Space
  Session,    \* identities for rows of RemoteSession
  Call,       \* requests the control plane can be serving at once
  Challenge,  \* step-up codes that have been issued
  None

ASSUME RemoteConstants ==
  /\ Agent # {}
  /\ None \notin Agent \cup Session \cup Call \cup Challenge

VARIABLES
  rows,    \* rows[s]: the row of session s
  mail,    \* mail[s]: the messages of s that were not collected yet
  spent,   \* the step-up codes that have been consumed
  calls    \* calls[k]: a request in progress

serviceVars == <<rows, mail, spent, calls>>
-----------------------------------------------------------------------------
Live == {"pending", "connecting", "active"}
Ages == {"fresh", "late", "lapsed", "over"}

Row == [state : Live \cup {"none", "ended"}, agent : Agent, connected : BOOLEAN, age : Ages, quiet : BOOLEAN]

(* Candidates are left out: whether the peers find a way to each other is  *)
(* up to the network once both have the other's description.               *)
Message == {"offer", "answer"}

CallState ==
  [phase : {"idle", "looking", "creating", "granting", "posting", "reporting", "closing"},
   steps : {<<>>, <<"mark", "append">>, <<"append">>},
   agent : Agent \cup {None}, session : Session \cup {None}, message : Message \cup {None},
   todo : SUBSET Session, at : Session \cup {None}]

NoRow == [state |-> "none", agent |-> CHOOSE a \in Agent : TRUE,
          connected |-> FALSE, age |-> "fresh", quiet |-> FALSE]

NoCall == [phase |-> "idle", steps |-> <<>>, agent |-> None,
           session |-> None, message |-> None, todo |-> {}, at |-> None]

ServiceInit ==
  /\ rows = [s \in Session |-> NoRow]
  /\ mail = [s \in Session |-> {}]
  /\ spent = {}
  /\ calls = [k \in Call |-> NoCall]

Idle(k) == calls[k].phase = "idle"

(* The call has closed all the sessions it had to close.                   *)
Swept(k) == calls[k].todo = {} /\ calls[k].at = None

IsLive(s) == rows[s].state \in Live
-----------------------------------------------------------------------------
(* close, of every session in todo: the row is read, and a session that    *)
(* has not ended by then is ended and its messages deleted.                *)

CloseRead(k, s) ==
  /\ ~Idle(k)
  /\ calls[k].at = None
  /\ s \in calls[k].todo
  /\ calls' = [calls EXCEPT ![k].todo = calls[k].todo \ {s},
                            ![k].at = IF rows[s].state = "ended" THEN None ELSE s]
  /\ UNCHANGED <<rows, mail, spent>>

CloseWrite(k) ==
  /\ calls[k].at # None
  /\ rows' = [rows EXCEPT ![calls[k].at].state = "ended"]
  /\ mail' = [mail EXCEPT ![calls[k].at] = {}]
  /\ calls' = [calls EXCEPT ![k].at = None]
  /\ UNCHANGED spent

(* Nothing is left to do but answer.                                       *)
Answer(k) ==
  /\ calls[k].phase = "closing"
  /\ Swept(k)
  /\ calls' = [calls EXCEPT ![k] = NoCall]
  /\ UNCHANGED <<rows, mail, spent>>

(* Variant: only sessions that never connected are looked at.              *)
StaleUnconnected(s, offline) == IsLive(s) /\ rows[s].state # "active" /\ rows[s].age = "lapsed"

(* expireStale: what should no longer be live.                             *)
Stale(s, offline) ==
  /\ IsLive(s)
  /\ \/ rows[s].state # "active" /\ rows[s].age \in {"lapsed", "over"}
     \/ rows[s].state = "connecting" /\ rows[s].age # "fresh"
     \/ rows[s].quiet
     \/ rows[s].connected /\ rows[s].age = "over"
     \/ rows[s].agent \in offline

AllStale(offline) == {s \in Session : Stale(s, offline)}

(* listSessions                                                            *)
ListSessions(k, offline) ==
  /\ Idle(k)
  /\ AllStale(offline) # {}
  /\ calls' = [calls EXCEPT ![k] = [NoCall EXCEPT !.phase = "closing", !.todo = AllStale(offline)]]
  /\ UNCHANGED <<rows, mail, spent>>

(* endSession, by the viewer or by the owner of the Space.                 *)
EndSession(k, s) ==
  /\ Idle(k)
  /\ rows[s].state # "none"
  /\ calls' = [calls EXCEPT ![k] = [NoCall EXCEPT !.phase = "closing", !.todo = {s}]]
  /\ UNCHANGED <<rows, mail, spent>>

(* endSessionsForDevice, when a device is revoked: the sessions it viewed. *)
EndSessionsForDevice(k, viewed) ==
  /\ Idle(k)
  /\ viewed # {} /\ \A s \in viewed : IsLive(s)
  /\ calls' = [calls EXCEPT ![k] = [NoCall EXCEPT !.phase = "closing", !.todo = viewed]]
  /\ UNCHANGED <<rows, mail, spent>>
-----------------------------------------------------------------------------
(* createSession.                                                          *)

(* verifyStepUp: taking control consumes a code, viewing takes none.       *)
StepUp(ch) ==
  \/ ch = None /\ UNCHANGED spent
  \/ ch \in Challenge \ spent /\ spent' = spent \cup {ch}

(* The checks, the confirmation and the read of expireStale.               *)
AskSession(k, a, ch, offline) ==
  /\ Idle(k)
  /\ a \notin offline
  /\ StepUp(ch)
  /\ calls' = [calls EXCEPT ![k] =
         [NoCall EXCEPT !.phase = "looking", !.agent = a, !.todo = AllStale(offline)]]
  /\ UNCHANGED <<rows, mail>>

(* A computer that is in use by somebody else is refused; one's own        *)
(* session there is closed and replaced.  Whose it is, is left open.       *)
LookForLive(k) ==
  LET here == {s \in Session : IsLive(s) /\ rows[s].agent = calls[k].agent}
  IN /\ calls[k].phase = "looking"
     /\ Swept(k)
     /\ \/ /\ here = {}
           /\ calls' = [calls EXCEPT ![k].phase = "creating"]
        \/ \E s \in here :
             calls' = [calls EXCEPT ![k].phase = "creating", ![k].todo = {s}]
        \/ /\ here # {}
           /\ calls' = [calls EXCEPT ![k] = NoCall]
     /\ UNCHANGED <<rows, mail, spent>>

CreateSession(k, s) ==
  /\ calls[k].phase = "creating"
  /\ Swept(k)
  /\ rows[s].state = "none"
  /\ rows' = [rows EXCEPT ![s] =
         [state |-> "pending", agent |-> calls[k].agent,
          connected |-> FALSE, age |-> "fresh", quiet |-> FALSE]]
  /\ calls' = [calls EXCEPT ![k] = NoCall]
  /\ UNCHANGED <<mail, spent>>

(* The request fails on the way: what it has closed stays closed.          *)
(* Bound: this is also what happens when no row is left.                   *)
CreateFails(k) ==
  /\ calls[k].phase = "creating"
  /\ Swept(k)
  /\ calls' = [calls EXCEPT ![k] = NoCall]
  /\ UNCHANGED <<rows, mail, spent>>

(* heartbeat, of the viewer.                                               *)
Heartbeat(s) ==
  /\ IsLive(s)
  /\ rows' = [rows EXCEPT ![s].quiet = FALSE]
  /\ UNCHANGED <<mail, spent, calls>>
-----------------------------------------------------------------------------
(* postSignal.  The row is read; a pending session is marked as connecting *)
(* before the message is appended, so that whoever collects it finds the   *)
(* session so marked.  One that waited past its grant is closed instead.   *)

(* Variant: the message is appended first and the session marked after it. *)
StepsMarkLast(s) ==
  IF rows[s].state = "pending" THEN <<"append", "mark">> ELSE <<"append">>

(* The statements that follow the read.                                    *)
Steps(s) == IF rows[s].state = "pending" THEN <<"mark", "append">> ELSE <<"append">>

PostSignal(k, s, message) ==
  /\ Idle(k)
  /\ IsLive(s)
  /\ calls' = [calls EXCEPT ![k] =
         IF rows[s].state = "pending" /\ rows[s].age \in {"lapsed", "over"}
         THEN [NoCall EXCEPT !.phase = "closing", !.todo = {s}]
         ELSE [NoCall EXCEPT !.phase = "posting", !.steps = Steps(s),
                             !.session = s, !.message = message]]
  /\ UNCHANGED <<rows, mail, spent>>

NextStep(k, step) ==
  /\ calls[k].phase = "posting"
  /\ Head(calls[k].steps) = step
  /\ calls' = [calls EXCEPT ![k] = IF Len(calls[k].steps) = 1 THEN NoCall
                                   ELSE [calls[k] EXCEPT !.steps = Tail(calls[k].steps)]]

MarkConnecting(k) ==
  /\ NextStep(k, "mark")
  /\ rows' = [rows EXCEPT ![calls[k].session].state = "connecting"]
  /\ UNCHANGED <<mail, spent>>

(* appendSignal, under the lock of the session's row.                      *)
AppendSignal(k) ==
  /\ NextStep(k, "append")
  /\ mail' = [mail EXCEPT ![calls[k].session] = mail[calls[k].session] \cup {calls[k].message}]
  /\ UNCHANGED <<rows, spent>>

(* Variant: what was returned is returned again to whoever asks.           *)
CollectSignalAgain(s, message) ==
  /\ message \in mail[s]
  /\ UNCHANGED <<rows, mail, spent, calls>>

(* collectSignals: what is returned counts as delivered.                   *)
CollectSignal(s, message) ==
  /\ message \in mail[s]
  /\ mail' = [mail EXCEPT ![s] = mail[s] \ {message}]
  /\ UNCHANGED <<rows, spent, calls>>
-----------------------------------------------------------------------------
(* The agent's requests.                                                   *)

(* pendingGrantsFor, the read of expireStale.                              *)
PollGrants(k, a, offline) ==
  /\ Idle(k)
  /\ calls' = [calls EXCEPT ![k] =
         [NoCall EXCEPT !.phase = "granting", !.agent = a, !.todo = AllStale(offline)]]
  /\ UNCHANGED <<rows, mail, spent>>

(* The sessions whose grants are signed and returned.                      *)
GrantsFor(a) == {s \in Session : /\ rows[s].agent = a
                                 /\ rows[s].state \in {"pending", "connecting"}}

AnswerGrants(k) ==
  /\ calls[k].phase = "granting"
  /\ Swept(k)
  /\ calls' = [calls EXCEPT ![k] = NoCall]
  /\ UNCHANGED <<rows, mail, spent>>

(* Variant: the report of a connection is always welcome.                  *)
ReportableAlways(s) == rows[s].state # "none"

(* An ended session is not reported as connected.                          *)
Reportable(s) == IsLive(s)

(* markConnected                                                           *)
ReadConnected(k, s) ==
  /\ Idle(k)
  /\ Reportable(s)
  /\ calls' = [calls EXCEPT ![k] = [NoCall EXCEPT !.phase = "reporting", !.session = s]]
  /\ UNCHANGED <<rows, mail, spent>>

MarkConnected(k) ==
  /\ calls[k].phase = "reporting"
  /\ rows' = [rows EXCEPT ![calls[k].session].state = "active",
                          ![calls[k].session].connected = TRUE,
                          ![calls[k].session].quiet = FALSE]
  /\ calls' = [calls EXCEPT ![k] = NoCall]
  /\ UNCHANGED <<mail, spent>>
-----------------------------------------------------------------------------
(* Time.                                                                   *)

Older == [fresh |-> "late", late |-> "lapsed", lapsed |-> "over", over |-> "over"]

(* A session of four hours is one that connected.                          *)
GrowOlder(s) ==
  /\ rows[s].state # "none"
  /\ rows[s].age # "over"
  /\ rows[s].age = "lapsed" => rows[s].connected
  /\ rows' = [rows EXCEPT ![s].age = Older[rows[s].age]]
  /\ UNCHANGED <<mail, spent, calls>>

GoQuiet(s) ==
  /\ IsLive(s)
  /\ ~rows[s].quiet
  /\ rows[s].age \in {"lapsed", "over"}
  /\ rows' = [rows EXCEPT ![s].quiet = TRUE]
  /\ UNCHANGED <<mail, spent, calls>>
=============================================================================
