------------------------ MODULE PowerCommandsProofs ------------------------
(***************************************************************************)
(* The safety properties of PowerCommands, for every set of agents,        *)
(* commands and requests, every drift of the agents' clocks and every      *)
(* length of the countdown.                                                *)
(*                                                                         *)
(* The argument.  A command's envelope is signed in the step that marks    *)
(* the row delivered, and only a row that waits can be marked; a row that  *)
(* has been delivered never waits again.  So an envelope is in one place   *)
(* at a time - in the answer to one poll, in one inbox, or used up - and   *)
(* all that happens to a command after the mark happens once.  What must   *)
(* be true of a command that is carried out (its time has come, it is      *)
(* addressed to whoever holds it) is already true when it is marked, and   *)
(* stays true because a row's times and addressee never change.            *)
(***************************************************************************)
EXTENDS PowerCommands, TLAPS

(* Rows: what waits is undelivered, a result means it was delivered, a     *)
(* command that does not exist has been neither delivered nor cancelled.   *)
RowsInv ==
  \A c \in Command :
    /\ rows[c].state \in Waiting => ~rows[c].delivered
    /\ rows[c].state = "none" => ~rows[c].delivered /\ rows[c].cancelledAt = None
    /\ rows[c].delivered => rows[c].executeAt <= now
    /\ rows[c].state = "succeeded" => ran[c].times = 1

(* Before it is delivered a command has left no trace outside its row.     *)
Trace(c) ==
  \/ \E p \in Poll : c \in SignedBy(p)
  \/ \E a \in Agent : c \in HeldBy(a)
  \/ \E a \in Agent : acting[a] # None /\ acting[a].id = c
  \/ \E m \in reports : m.id = c
  \/ ran[c].times > 0

DeliveredInv == \A c \in Command : Trace(c) => rows[c].delivered

(* What an answer or an inbox holds was signed for the agent that polled.  *)
EnvelopeInv ==
  /\ \A p \in Poll : \A e \in polls[p].signed :
       e = Sign(e.id, polls[p].agent) /\ AddressedTo(rows[e.id], polls[p].agent)
  /\ \A a \in Agent : \A e \in inbox[a] : e = Sign(e.id, a) /\ AddressedTo(rows[e.id], a)

(* What a poll found due was due, and is for the agent that polled.        *)
DueInv ==
  \A p \in Poll : \A c \in polls[p].due :
    /\ rows[c].state # "none"
    /\ rows[c].executeAt <= now
    /\ AddressedTo(rows[c], polls[p].agent)

(* Used up: the agent that held it has handled the envelope.               *)
Handled(c) ==
  \/ ran[c].times > 0
  \/ \E a \in Agent : acting[a] # None /\ acting[a].id = c
  \/ \E m \in reports : m.id = c

OnePlaceInv ==
  \A c \in Command :
    /\ \A p, q \in Poll : c \in SignedBy(p) /\ c \in SignedBy(q) => p = q
    /\ \A a, b \in Agent : c \in HeldBy(a) /\ c \in HeldBy(b) => a = b
    /\ \A p \in Poll, a \in Agent : ~(c \in SignedBy(p) /\ c \in HeldBy(a))
    /\ Handled(c) => (\A p \in Poll : c \notin SignedBy(p)) /\ (\A a \in Agent : c \notin HeldBy(a))
    /\ ran[c].times <= 1

(* A report of success is of a command that was carried out.               *)
ReportInv ==
  /\ \A m \in reports : m.succeeded => ran[m.id].times = 1
  /\ \A a \in Agent : acting[a] # None /\ acting[a].succeeded => ran[acting[a].id].times = 1

RanInv ==
  \A c \in Command : ran[c].times > 0 =>
    /\ ran[c].by \in Agent /\ AddressedTo(rows[c], ran[c].by)
    /\ rows[c].executeAt <= ran[c].at
    /\ ran[c].at + Drift[ran[c].by] < rows[c].expiresAt

CancelInv ==
  \A c \in Command :
    rows[c].cancelledAt # None /\ rows[c].cancelledAt < rows[c].executeAt
      => ~rows[c].delivered /\ rows[c].state \notin Waiting

(* A cancel in progress has found a row.                                   *)
FoundInv ==
  \A k \in Caller : calls[k].phase = "cancelling" =>
    calls[k].found \in Command /\ rows[calls[k].found].state # "none"

IInv ==
  /\ TypeOK
  /\ RowsInv
  /\ DeliveredInv
  /\ EnvelopeInv
  /\ DueInv
  /\ OnePlaceInv
  /\ ReportInv
  /\ RanInv
  /\ CancelInv
  /\ FoundInv
-----------------------------------------------------------------------------
LEMMA AnyAgentIsAgent == AnyAgent \in Agent
BY PowerConstants DEF AnyAgent

LEMMA NothingTypes == NoRow \in Row /\ NoCall \in Call /\ NoPoll \in PollState
BY AnyAgentIsAgent DEF NoRow, Row, NoCall, Call, NoPoll, PollState, States, Actions

(* What the three updates of a row leave alone.                            *)
SameOrder(r, s) ==
  /\ s.action = r.action /\ s.target = r.target /\ s.helper = r.helper
  /\ s.createdAt = r.createdAt /\ s.executeAt = r.executeAt /\ s.expiresAt = r.expiresAt
  /\ s.confirmedBy = r.confirmedBy

LEMMA RowUpdates ==
  ASSUME NEW r \in Row, now \in Int
  PROVE  /\ \A s \in States :
              /\ [r EXCEPT !.state = s] \in Row
              /\ SameOrder(r, [r EXCEPT !.state = s])
              /\ [r EXCEPT !.state = s].state = s
              /\ [r EXCEPT !.state = s].delivered = r.delivered
              /\ [r EXCEPT !.state = s].cancelledAt = r.cancelledAt
         /\ CancelledRow(r) \in Row
         /\ SameOrder(r, CancelledRow(r))
         /\ CancelledRow(r).state = "cancelled"
         /\ CancelledRow(r).delivered = r.delivered
         /\ CancelledRow(r).cancelledAt = now
         /\ ClaimedRow(r) \in Row
         /\ SameOrder(r, ClaimedRow(r))
         /\ ClaimedRow(r).state = "sent"
         /\ ClaimedRow(r).delivered = TRUE
         /\ ClaimedRow(r).cancelledAt = r.cancelledAt
<1>1. ASSUME NEW s \in States
      PROVE  /\ [r EXCEPT !.state = s] \in Row
             /\ SameOrder(r, [r EXCEPT !.state = s])
             /\ [r EXCEPT !.state = s].state = s
             /\ [r EXCEPT !.state = s].delivered = r.delivered
             /\ [r EXCEPT !.state = s].cancelledAt = r.cancelledAt
  <2>1. [r EXCEPT !.state = s] \in Row
    BY DEF Row
  <2> QED
    BY <2>1 DEF Row, SameOrder
<1>2. /\ CancelledRow(r) \in Row
      /\ SameOrder(r, CancelledRow(r))
      /\ CancelledRow(r).state = "cancelled"
      /\ CancelledRow(r).delivered = r.delivered
      /\ CancelledRow(r).cancelledAt = now
  <2>1. CancelledRow(r) \in Row
    BY DEF Row, States, CancelledRow
  <2> QED
    BY <2>1 DEF Row, SameOrder, CancelledRow
<1>3. /\ ClaimedRow(r) \in Row
      /\ SameOrder(r, ClaimedRow(r))
      /\ ClaimedRow(r).state = "sent"
      /\ ClaimedRow(r).delivered = TRUE
      /\ ClaimedRow(r).cancelledAt = r.cancelledAt
  <2>1. ClaimedRow(r) \in Row
    BY DEF Row, States, ClaimedRow
  <2> QED
    BY <2>1 DEF Row, SameOrder, ClaimedRow
<1> QED
  BY <1>1, <1>2, <1>3

(* The types hold initially and every step keeps them.                     *)
LEMMA TypeInit == Init => TypeOK
BY NothingTypes, AgentConstants
   DEF Init, ServiceInit, AgentInit, TypeOK, Run, NeverRan

LEMMA TypeMember ==
  ASSUME TypeOK, NEW k \in Caller, Member(k)
  PROVE  TypeOK'
<1>1. ASSUME NEW action \in Actions, NEW t \in Agent, NEW h \in Agent \cup {None},
             NEW ch \in Challenge \cup {None},
             Request(k, action, t, h, ch), UNCHANGED agentVars
      PROVE  TypeOK'
  <2>1. spent' \subseteq Challenge
    BY <1>1 DEF Request, StepUp, TypeOK
  <2>2. calls' \in [Caller -> Call]
    <3>1. calls' = [calls EXCEPT ![k] =
                     [phase |-> "checking", action |-> action, target |-> t, helper |-> h,
                      confirmedBy |-> ch, found |-> None]]
      BY <1>1 DEF Request
    <3>2. [phase |-> "checking", action |-> action, target |-> t, helper |-> h,
           confirmedBy |-> ch, found |-> None] \in Call
      BY DEF Call
    <3> QED
      BY <3>1, <3>2 DEF TypeOK
  <2>3. QED
    BY <1>1, <2>1, <2>2 DEF Request, TypeOK, agentVars
<1>2. ASSUME CheckPending(k), UNCHANGED agentVars
      PROVE  TypeOK'
  <2>1. calls' \in [Caller -> Call]
    <3>1. [calls[k] EXCEPT !.phase = "creating"] \in Call
      BY DEF TypeOK, Call
    <3>2. \E call \in Call : calls' = [calls EXCEPT ![k] = call]
      BY <1>2, <3>1, NothingTypes DEF CheckPending
    <3> QED
      BY <3>2 DEF TypeOK
  <2>2. QED
    BY <1>2, <2>1 DEF CheckPending, TypeOK, agentVars
<1>3. ASSUME NEW c \in Command, Create(k, c), UNCHANGED agentVars
      PROVE  TypeOK'
  <2>1. NewRow(calls[k]) \in Row
    <3>1. calls[k] \in Call /\ now \in Nat
      BY DEF TypeOK
    <3>2. /\ calls[k].action \in Actions /\ calls[k].target \in Agent
          /\ calls[k].helper \in Agent \cup {None}
          /\ calls[k].confirmedBy \in Challenge \cup {None}
      BY <3>1 DEF Call
    <3>3. QED
      BY <3>1, <3>2, PowerConstants DEF NewRow, Row, States
  <2>2. QED
    BY <1>3, <2>1, NothingTypes DEF Create, TypeOK, agentVars
<1>4. ASSUME NEW t \in Agent, NEW c \in Command, FindCancellable(k, t, c),
             UNCHANGED agentVars
      PROVE  TypeOK'
  <2>1. calls' \in [Caller -> Call]
    BY <1>4, NothingTypes DEF FindCancellable, TypeOK, Call, NoCall, Actions
  <2>2. QED
    BY <1>4, <2>1 DEF FindCancellable, TypeOK, agentVars
<1>5. ASSUME Cancel(k), UNCHANGED agentVars
      PROVE  TypeOK'
  <2> DEFINE found == calls[k].found
  <2>1. now \in Int /\ rows \in [Command -> Row]
    BY DEF TypeOK
  <2>2. ASSUME found \in Command
        PROVE  CancelledRow(rows[found]) \in Row
    BY <2>1, <2>2, RowUpdates
  <2>3. rows' = [rows EXCEPT ![found] = CancelledRow(rows[found])]
    BY <1>5 DEF Cancel
  <2>4. rows' \in [Command -> Row]
    <3> HIDE DEF found
    <3> QED  BY <2>1, <2>2, <2>3
  <2>5. QED
    BY <1>5, <2>4, NothingTypes DEF Cancel, TypeOK, agentVars
<1>6. QED
  BY <1>1, <1>2, <1>3, <1>4, <1>5 DEF Member

LEMMA TypeServe ==
  ASSUME TypeOK, NEW p \in Poll, Serve(p)
  PROVE  TypeOK'
<1> USE DEF agentVars
<1>p. polls[p] \in PollState
  BY DEF TypeOK
<1>1. ASSUME NEW c \in Command, Claim(p, c), UNCHANGED agentVars
      PROVE  TypeOK'
  <2>1. rows' \in [Command -> Row]
    <3>1. rows[c] \in Row /\ now \in Int
      BY DEF TypeOK
    <3>2. ClaimedRow(rows[c]) \in Row
      BY <3>1, RowUpdates
    <3>3. QED
      BY <1>1, <3>2 DEF Claim, TypeOK
  <2>2. Sign(c, polls[p].agent) \in Envelope
    <3>1. rows[c] \in Row
      BY DEF TypeOK
    <3>2. QED
      BY <1>p, <3>1 DEF Sign, Envelope, Row, PollState
  <2>3. polls' \in [Poll -> PollState]
    <3> DEFINE new == [polls[p] EXCEPT !.due = polls[p].due \ {c},
                         !.signed = polls[p].signed \cup {Sign(c, polls[p].agent)}]
               less == [polls[p] EXCEPT !.due = polls[p].due \ {c}]
    <3>1. new \in PollState /\ less \in PollState
      BY <1>p, <2>2 DEF PollState
    <3>2. polls' = [polls EXCEPT ![p] = new] \/ polls' = [polls EXCEPT ![p] = less]
      BY <1>1 DEF Claim
    <3> HIDE DEF new, less
    <3>3. QED
      BY <3>1, <3>2 DEF TypeOK
  <2>4. QED
    BY <1>1, <2>1, <2>3 DEF Claim, TypeOK
<1>2. ASSUME Receive(p)
      PROVE  TypeOK'
  <2>1. polls[p].agent \in Agent /\ polls[p].signed \subseteq Envelope
    BY <1>p DEF PollState
  <2>2. QED
    BY <1>2, <2>1, NothingTypes DEF Receive, ServiceSend, TypeOK
<1>3. ASSUME LoseAnswer(p)
      PROVE  TypeOK'
  BY <1>3, NothingTypes DEF LoseAnswer, ServiceSend, TypeOK
<1>4. QED
  BY <1>1, <1>2, <1>3 DEF Serve

LEMMA SweptTypes == TypeOK => Swept \in [Command -> Row]
<1> SUFFICES ASSUME TypeOK, NEW c \in Command
             PROVE  Swept[c] \in Row
  BY DEF Swept
<1>1. rows[c] \in Row /\ now \in Int
  BY DEF TypeOK
<1>2. QED
  BY <1>1, RowUpdates DEF Swept, States

LEMMA TypeLoop ==
  ASSUME TypeOK, NEW a \in Agent, Loop(a)
  PROVE  TypeOK'
<1>1. CASE Heartbeat(a)
  BY <1>1 DEF Heartbeat, NewGuard, TypeOK
<1>2. ASSUME NEW p \in Poll, StartPoll(a, p)
      PROVE  TypeOK'
  <2>1. [phase |-> "busy", agent |-> a, due |-> DueFor(a), signed |-> {}] \in PollState
    BY DEF PollState, DueFor
  <2>2. QED
    BY <1>2, <2>1, SweptTypes DEF StartPoll, BeginCollect, TypeOK
<1>3. CASE GiveUp(a)
  BY <1>3 DEF GiveUp, serviceVars, TypeOK
<1>4. CASE Handle(a)
  <2>1. PICK e \in inbox[a] : Execute(a, e) \/ ExecuteInVain(a, e) \/ RefuseCommand(a, e)
    BY <1>4 DEF Handle
  <2>2. e \in Envelope /\ e.id \in Command
    BY DEF TypeOK, Envelope
  <2>3. nonces' \in [Agent -> SUBSET Envelope]
    <3>1. nonces[a] \subseteq Envelope /\ Remembered(a) \subseteq Envelope
      BY DEF Remembered, TypeOK
    <3>2. CASE Accept(a, e)
      BY <2>2, <3>1, <3>2 DEF Accept, TypeOK
    <3>3. CASE Refuse(a, e)
      BY <3>1, <3>3 DEF Refuse, TypeOK
    <3>4. QED
      BY <2>1, <3>2, <3>3 DEF Execute, ExecuteInVain, RefuseCommand
  <2>4. inbox' \in [Agent -> SUBSET Envelope]
    BY <2>1 DEF Execute, ExecuteInVain, RefuseCommand, Take, TypeOK
  <2>5. acting' \in [Agent -> Report \cup {None}]
    <3>1. \A succeeded \in BOOLEAN : ToReport(a, e, succeeded) => acting' \in [Agent -> Report \cup {None}]
      BY <2>2 DEF ToReport, Report, TypeOK
    <3>2. QED
      BY <2>1, <3>1 DEF Execute, ExecuteInVain, RefuseCommand
  <2>6. ran' \in [Command -> Run]
    <3>1. ran[e.id].times \in Nat /\ now \in Int
      BY <2>2 DEF TypeOK, Run
    <3>2. [times |-> ran[e.id].times + 1, by |-> a, at |-> now] \in Run
      BY <3>1 DEF Run
    <3>3. QED
      BY <2>1, <3>2 DEF Execute, ExecuteInVain, RefuseCommand, DoneOnceMore, TypeOK
  <2>7. UNCHANGED <<knowsId, awaiting>> /\ UNCHANGED serviceVars
    BY <2>1 DEF Execute, ExecuteInVain, RefuseCommand
  <2>8. QED
    BY <2>3, <2>4, <2>5, <2>6, <2>7 DEF serviceVars, TypeOK
<1>5. CASE SendReport(a)
  BY <1>5 DEF SendReport, TypeOK
<1>6. CASE Restart(a)
  BY <1>6 DEF Restart, NewGuard, serviceVars, TypeOK
<1>7. QED
  BY <1>1, <1>2, <1>3, <1>4, <1>5, <1>6 DEF Loop

LEMMA TypeOthers ==
  ASSUME TypeOK, Others
  PROVE  TypeOK'
<1> USE DEF agentVars
<1>1. ASSUME NEW m \in reports, RecordResult(m), UNCHANGED agentVars
      PROVE  TypeOK'
  <2>1. rows' \in [Command -> Row]
    <3>1. m.id \in Command /\ rows[m.id] \in Row /\ now \in Int
      BY DEF TypeOK, Report
    <3>2. \A s \in States : [rows[m.id] EXCEPT !.state = s] \in Row
      BY <3>1, RowUpdates
    <3>3. QED
      BY <1>1, <3>1, <3>2 DEF RecordResult, Resolve, TypeOK, States
  <2>2. QED
    BY <1>1, <2>1 DEF RecordResult, TypeOK
<1>2. ASSUME NEW m \in reports, LoseReport(m)
      PROVE  TypeOK'
  BY <1>2 DEF LoseReport, TypeOK
<1>3. ASSUME NEW t \in Agent, NEW ch \in Challenge, RequestRefusedOffline(t, ch),
             UNCHANGED agentVars
      PROVE  TypeOK'
  BY <1>3 DEF RequestRefusedOffline, StepUp, TypeOK
<1>4. ASSUME NEW a \in Agent, Revoke(a) \/ GoStale(a) \/ Tick, UNCHANGED agentVars
      PROVE  TypeOK'
  BY <1>4 DEF Revoke, GoStale, Tick, TypeOK
<1>5. QED
  BY <1>1, <1>2, <1>3, <1>4, AnyAgentIsAgent DEF Others

(* Every variable keeps its type, whatever the members, the polls and the  *)
(* agents do.                                                              *)
THEOREM TypeCorrect == Spec => []TypeOK
<1>1. TypeOK /\ [Next]_vars => TypeOK'
  <2> SUFFICES ASSUME TypeOK, [Next]_vars
               PROVE  TypeOK'
    OBVIOUS
  <2>1. CASE Next
    BY <2>1, TypeMember, TypeServe, TypeLoop, TypeOthers DEF Next
  <2>2. CASE UNCHANGED vars
    BY <2>2 DEF vars, serviceVars, agentVars, TypeOK
  <2>3. QED
    BY <2>1, <2>2
<1>2. QED
  BY <1>1, TypeInit, PTL DEF Spec
-----------------------------------------------------------------------------
(* The inductive step, by what an action disturbs.                         *)

LEMMA InvInit == Init => IInv
<1> SUFFICES ASSUME Init
             PROVE  IInv
  OBVIOUS
<1>1. TypeOK
  BY TypeInit
<1>2. /\ \A c \in Command : rows[c] = NoRow /\ ran[c] = NeverRan
      /\ \A p \in Poll : polls[p] = NoPoll
      /\ \A k \in Caller : calls[k] = NoCall
      /\ \A a \in Agent : inbox[a] = {} /\ acting[a] = None
      /\ reports = {}
  BY DEF Init, ServiceInit, AgentInit
<1>3. RowsInv /\ CancelInv /\ FoundInv /\ DueInv /\ ReportInv /\ RanInv
  BY <1>2 DEF RowsInv, CancelInv, FoundInv, DueInv, ReportInv, RanInv, NoRow, NoPoll, NoCall,
              NeverRan, Waiting
<1>4. DeliveredInv /\ EnvelopeInv /\ OnePlaceInv
  BY <1>2 DEF DeliveredInv, EnvelopeInv, OnePlaceInv, Trace, Handled, SignedBy, HeldBy,
              NoPoll, NeverRan
<1>5. QED
  BY <1>1, <1>3, <1>4 DEF IInv

(* Steps that touch no row, envelope, report or execution.                 *)
LEMMA InvQuiet ==
  ASSUME IInv, TypeOK', FoundInv', now' >= now,
         UNCHANGED <<rows, polls, reports, inbox, acting, ran>>
  PROVE  IInv'
<1>1. now \in Nat /\ now' \in Nat /\ \A c \in Command : rows[c] \in Row
  BY DEF IInv, TypeOK
<1>2. \A c \in Command : rows[c].executeAt \in Int
  BY <1>1 DEF Row
<1>3. RowsInv' /\ DueInv'
  <2>1. RowsInv'
    BY <1>1, <1>2 DEF IInv, RowsInv
  <2>2. DueInv'
    <3>1. \A p \in Poll : polls[p].due \subseteq Command
      BY DEF IInv, TypeOK, PollState
    <3>2. QED
      BY <1>1, <1>2, <3>1 DEF IInv, DueInv, AddressedTo
  <2>3. QED
    BY <2>1, <2>2
<1>4. DeliveredInv' /\ EnvelopeInv' /\ OnePlaceInv' /\ ReportInv' /\ RanInv' /\ CancelInv'
  BY DEF IInv, DeliveredInv, EnvelopeInv, OnePlaceInv, ReportInv, RanInv, CancelInv,
         Trace, Handled, SignedBy, HeldBy, Sign, AddressedTo
<1>5. QED
  BY <1>3, <1>4 DEF IInv

(* Nothing about a command's order, and nothing that says it exists or was *)
(* delivered, is ever taken back.                                          *)
Kept(c) ==
  /\ rows[c].state # "none" => rows'[c].state # "none" /\ SameOrder(rows[c], rows'[c])
  /\ rows[c].delivered => rows'[c].delivered /\ rows[c].state # "none"

(* Nothing appears in an answer, an inbox or a report, and nothing is      *)
(* carried out: an answer keeps the agent it is for, or is emptied.        *)
NothingNew ==
  /\ UNCHANGED <<now, ran>>
  /\ reports' \subseteq reports
  /\ \A a \in Agent : inbox'[a] \subseteq inbox[a] /\ acting'[a] \in {acting[a], None}
  /\ \A p \in Poll : /\ polls'[p].signed \subseteq polls[p].signed
                     /\ polls'[p].signed # {} => polls'[p].agent = polls[p].agent

(* Nothing is found due, either.                                           *)
NothingDue ==
  \A p \in Poll : /\ polls'[p].due \subseteq polls[p].due
                  /\ polls'[p].due # {} => polls'[p].agent = polls[p].agent

LEMMA DueKept ==
  ASSUME IInv, UNCHANGED now, NothingDue, \A c \in Command : Kept(c)
  PROVE  DueInv'
<1>1. \A p \in Poll : polls[p].due \subseteq Command
  BY DEF IInv, TypeOK, PollState
<1>2. QED
  BY <1>1 DEF IInv, DueInv, NothingDue, Kept, SameOrder, AddressedTo

(* A signed envelope stays what it is, and what was carried out was right. *)
LEMMA EnvelopeKept ==
  ASSUME IInv, \A c \in Command : Kept(c),
         NEW e \in Envelope, NEW a \in Agent, Trace(e.id),
         e = Sign(e.id, a) /\ AddressedTo(rows[e.id], a)
  PROVE  (e = Sign(e.id, a) /\ AddressedTo(rows[e.id], a))'
<1>1. e.id \in Command
  BY DEF Envelope
<1>2. QED
  BY <1>1 DEF IInv, DeliveredInv, Kept, SameOrder, Sign, AddressedTo

LEMMA RanKept ==
  ASSUME IInv, UNCHANGED ran, \A c \in Command : Kept(c)
  PROVE  RanInv'
<1>1. \A c \in Command : ran[c].times > 0 => rows[c].state # "none"
  BY DEF IInv, DeliveredInv, Trace, Kept
<1>2. QED
  BY <1>1 DEF IInv, RanInv, Kept, SameOrder, AddressedTo

(* Steps that may write rows, but create no envelope, report or execution. *)
LEMMA InvFewer ==
  ASSUME IInv, TypeOK', RowsInv', DueInv', CancelInv', FoundInv', NothingNew,
         \A c \in Command : Kept(c)
  PROVE  IInv'
<1>t. /\ \A p \in Poll : polls[p].signed \subseteq Envelope /\ polls[p].agent \in Agent
      /\ \A a \in Agent : inbox[a] \subseteq Envelope
      /\ \A e \in Envelope : e.id \in Command
  BY DEF IInv, TypeOK, PollState, Envelope
<1>h. /\ \A p \in Poll : SignedBy(p)' \subseteq SignedBy(p)
      /\ \A a \in Agent : HeldBy(a)' \subseteq HeldBy(a)
      /\ \A c \in Command : Handled(c)' => Handled(c)
      /\ \A c \in Command : Trace(c)' => Trace(c)
  <2>1. /\ \A p \in Poll : SignedBy(p)' \subseteq SignedBy(p)
        /\ \A a \in Agent : HeldBy(a)' \subseteq HeldBy(a)
    BY DEF NothingNew, SignedBy, HeldBy
  <2>2. /\ \A c \in Command : Handled(c)' => Handled(c)
    BY DEF NothingNew, Handled
  <2>3. QED
    BY <2>1, <2>2 DEF Trace, Handled
<1>1. DeliveredInv'
  BY <1>h DEF IInv, DeliveredInv, Kept
<1>2. EnvelopeInv'
  <2>1. ASSUME NEW p \in Poll, NEW e \in polls'[p].signed
        PROVE  (e = Sign(e.id, polls[p].agent) /\ AddressedTo(rows[e.id], polls[p].agent))'
    <3>1. e \in polls[p].signed /\ polls'[p].agent = polls[p].agent
      BY <2>1 DEF NothingNew
    <3>2. /\ e \in Envelope /\ Trace(e.id)
          /\ e = Sign(e.id, polls[p].agent) /\ AddressedTo(rows[e.id], polls[p].agent)
      BY <1>t, <3>1 DEF Trace, SignedBy, IInv, EnvelopeInv
    <3>3. QED
      BY <1>t, <3>1, <3>2, EnvelopeKept
  <2>2. ASSUME NEW a \in Agent, NEW e \in inbox'[a]
        PROVE  (e = Sign(e.id, a) /\ AddressedTo(rows[e.id], a))'
    <3>1. e \in inbox[a]
      BY <2>2 DEF NothingNew
    <3>2. /\ e \in Envelope /\ Trace(e.id)
          /\ e = Sign(e.id, a) /\ AddressedTo(rows[e.id], a)
      BY <1>t, <3>1 DEF Trace, HeldBy, IInv, EnvelopeInv
    <3>3. QED
      BY <3>2, EnvelopeKept
  <2>3. QED
    BY <2>1, <2>2 DEF EnvelopeInv
<1>3. OnePlaceInv'
  BY <1>h DEF IInv, OnePlaceInv, NothingNew
<1>4. ReportInv'
  BY DEF IInv, ReportInv, NothingNew
<1>5. RanInv'
  BY RanKept DEF NothingNew
<1>6. QED
  BY <1>1, <1>2, <1>3, <1>4, <1>5 DEF IInv

LEMMA InvMember ==
  ASSUME IInv, TypeOK', NEW k \in Caller, Member(k)
  PROVE  IInv'
<1> USE DEF agentVars
<1>t. /\ now \in Int /\ calls \in [Caller -> Call] /\ rows \in [Command -> Row]
  BY DEF IInv, TypeOK
<1>1. ASSUME NEW action \in Actions, NEW t \in Agent, NEW h \in Agent \cup {None},
             NEW ch \in Challenge \cup {None},
             Request(k, action, t, h, ch), UNCHANGED agentVars
      PROVE  IInv'
  <2>1. FoundInv'
    BY <1>1, <1>t DEF Request, IInv, FoundInv
  <2>2. QED
    BY <1>1, <1>t, <2>1, InvQuiet DEF Request
<1>2. ASSUME CheckPending(k), UNCHANGED agentVars
      PROVE  IInv'
  <2>1. FoundInv'
    BY <1>2, <1>t DEF CheckPending, IInv, FoundInv, NoCall, Call
  <2>2. QED
    BY <1>2, <1>t, <2>1, InvQuiet DEF CheckPending
<1>3. ASSUME NEW c \in Command, Create(k, c), UNCHANGED agentVars
      PROVE  IInv'
  <2>1. /\ rows' = [rows EXCEPT ![c] = NewRow(calls[k])]
        /\ rows[c].state = "none"
        /\ UNCHANGED <<now, polls, reports, inbox, acting, ran>>
    BY <1>3 DEF Create
  <2>2. /\ rows'[c].state \in Waiting /\ ~rows'[c].delivered /\ rows'[c].cancelledAt = None
        /\ \A d \in Command \ {c} : rows'[d] = rows[d]
    BY <2>1, <1>t DEF NewRow, Waiting
  <2>3. ~rows[c].delivered
    BY <2>1 DEF IInv, RowsInv
  <2>4. \A d \in Command : Kept(d)
    BY <2>1, <2>2, <2>3 DEF Kept, SameOrder, IInv, RowsInv
  <2>5. RowsInv' /\ CancelInv'
    BY <2>1, <2>2 DEF IInv, RowsInv, CancelInv, Waiting
  <2>6. FoundInv'
    BY <1>3, <1>t, <2>4 DEF Create, IInv, FoundInv, NoCall, Kept
  <2>7. QED
    BY <2>1, <2>4, <2>5, <2>6, InvFewer, DueKept DEF NothingNew, NothingDue
<1>4. ASSUME NEW t \in Agent, NEW c \in Command, FindCancellable(k, t, c),
             UNCHANGED agentVars
      PROVE  IInv'
  <2>1. rows[c].state # "none"
    BY <1>4 DEF FindCancellable, Newest, OutstandingOn, Outstanding
  <2>2. FoundInv'
    BY <1>4, <1>t, <2>1 DEF FindCancellable, IInv, FoundInv, NoCall
  <2>3. QED
    BY <1>4, <1>t, <2>2, InvQuiet DEF FindCancellable
<1>5. ASSUME Cancel(k), UNCHANGED agentVars
      PROVE  IInv'
  <2> DEFINE c == calls[k].found
  <2>1. c \in Command /\ rows[c].state # "none"
    BY <1>5 DEF Cancel, IInv, FoundInv
  <2>2. /\ rows' = [rows EXCEPT ![c] = CancelledRow(rows[c])]
        /\ calls' = [calls EXCEPT ![k] = NoCall]
        /\ UNCHANGED <<now, polls, reports, inbox, acting, ran>>
    BY <1>5 DEF Cancel
  <2> HIDE DEF c
  <2>3. /\ rows[c] \in Row /\ rows'[c] = CancelledRow(rows[c])
        /\ \A d \in Command \ {c} : rows'[d] = rows[d]
    BY <1>t, <2>1, <2>2
  <2>4. /\ SameOrder(rows[c], rows'[c]) /\ rows'[c].state = "cancelled"
        /\ rows'[c].delivered = rows[c].delivered /\ rows'[c].cancelledAt = now
    <3> DEFINE r == rows[c]
    <3>1. /\ SameOrder(r, CancelledRow(r)) /\ CancelledRow(r).state = "cancelled"
          /\ CancelledRow(r).delivered = r.delivered /\ CancelledRow(r).cancelledAt = now
      BY <1>t, <2>3, RowUpdates
    <3>2. QED
      BY <2>3, <3>1
  <2>5. \A d \in Command : Kept(d)
    BY <2>1, <2>3, <2>4 DEF Kept, SameOrder, IInv, RowsInv
  <2>6. RowsInv'
    BY <2>2, <2>3, <2>4 DEF IInv, RowsInv, Waiting, SameOrder
  <2>7. CancelInv'
    <3>1. rows[c].executeAt \in Int
      BY <2>3 DEF Row
    <3>2. now < rows[c].executeAt => ~rows[c].delivered
      BY <1>t, <2>1, <3>1 DEF IInv, RowsInv
    <3>3. QED
      BY <2>3, <2>4, <3>2 DEF IInv, CancelInv, Waiting, SameOrder
  <2>8. FoundInv'
    BY <1>t, <2>2, <2>5 DEF IInv, FoundInv, NoCall, Kept
  <2>9. QED
    BY <2>2, <2>5, <2>6, <2>7, <2>8, InvFewer, DueKept DEF NothingNew, NothingDue
<1>6. QED
  BY <1>1, <1>2, <1>3, <1>4, <1>5 DEF Member

LEMMA InvOthers ==
  ASSUME IInv, TypeOK', Others
  PROVE  IInv'
<1> USE DEF agentVars
<1>t. /\ now \in Nat /\ rows \in [Command -> Row] /\ reports \subseteq Report
  BY DEF IInv, TypeOK
<1>f. UNCHANGED <<rows, calls>> => FoundInv'
  BY DEF IInv, FoundInv
<1>k. UNCHANGED rows => \A c \in Command : Kept(c)
  BY DEF Kept, SameOrder, IInv, RowsInv
<1>1. ASSUME NEW m \in reports, RecordResult(m), UNCHANGED agentVars
      PROVE  IInv'
  <2>1. /\ m.id \in Command /\ rows[m.id].delivered
        /\ m.succeeded => ran[m.id].times = 1
    BY <1>t DEF IInv, DeliveredInv, Trace, ReportInv, Report
  <2>2. NothingNew /\ NothingDue /\ UNCHANGED calls
    BY <1>1 DEF RecordResult, NothingNew, NothingDue
  <2>3. CASE UNCHANGED rows
    <3>1. RowsInv' /\ CancelInv'
      BY <2>2, <2>3 DEF IInv, RowsInv, CancelInv, NothingNew
    <3>2. QED
      BY <1>f, <1>k, <2>2, <2>3, <3>1, InvFewer, DueKept DEF NothingNew
  <2>4. CASE Resolve(m.id, m.succeeded)
    <3> DEFINE c == m.id
               outcome == IF m.succeeded THEN "succeeded" ELSE "failed"
    <3>1. /\ rows[c] \in Row /\ rows'[c] = [rows[c] EXCEPT !.state = outcome]
          /\ \A d \in Command \ {c} : rows'[d] = rows[d]
      BY <1>t, <2>1, <2>4 DEF Resolve
    <3>2. /\ SameOrder(rows[c], rows'[c]) /\ rows'[c].state = outcome
          /\ rows'[c].delivered = rows[c].delivered
          /\ rows'[c].cancelledAt = rows[c].cancelledAt
      <4> DEFINE r == rows[c]
      <4>1. outcome \in States
        BY DEF States
      <4> HIDE DEF outcome
      <4>2. /\ SameOrder(r, [r EXCEPT !.state = outcome])
            /\ [r EXCEPT !.state = outcome].state = outcome
            /\ [r EXCEPT !.state = outcome].delivered = r.delivered
            /\ [r EXCEPT !.state = outcome].cancelledAt = r.cancelledAt
        BY <3>1, <4>1 DEF Row, SameOrder
      <4>3. QED
        BY <3>1, <4>2
    <3>3. outcome \in {"succeeded", "failed"} /\ (outcome = "succeeded" => ran[c].times = 1)
      BY <2>1
    <3> HIDE DEF outcome
    <3>4. \A d \in Command : Kept(d)
      BY <3>1, <3>2, <3>3 DEF Kept, SameOrder, IInv, RowsInv
    <3>5. RowsInv' /\ CancelInv'
      <4>1. \A d \in Command \ {c} : rows'[d] = rows[d]
        BY <3>1
      <4>2. UNCHANGED <<now, ran>> /\ rows'[c].state \notin Waiting /\ rows'[c].state # "none"
        BY <2>2, <3>2, <3>3 DEF NothingNew, Waiting
      <4> HIDE DEF c
      <4>3. RowsInv'
        BY <2>1, <3>2, <3>3, <4>1, <4>2 DEF IInv, RowsInv, SameOrder, c
      <4>4. CancelInv'
        BY <2>1, <3>2, <4>1, <4>2 DEF IInv, CancelInv, SameOrder
      <4>5. QED
        BY <4>3, <4>4
    <3>6. FoundInv'
      BY <2>2, <3>4 DEF IInv, FoundInv, Kept
    <3>7. QED
      BY <2>2, <3>4, <3>5, <3>6, InvFewer, DueKept DEF NothingNew
  <2>5. QED
    BY <1>1, <2>3, <2>4 DEF RecordResult
<1>2. ASSUME NEW m \in reports, LoseReport(m)
      PROVE  IInv'
  <2>1. NothingNew /\ NothingDue /\ UNCHANGED <<rows, calls>>
    BY <1>2 DEF LoseReport, NothingNew, NothingDue
  <2>2. RowsInv' /\ CancelInv'
    BY <2>1 DEF IInv, RowsInv, CancelInv, NothingNew
  <2>3. QED
    BY <1>f, <1>k, <2>1, <2>2, InvFewer, DueKept DEF NothingNew
<1>3. ASSUME NEW t \in Agent, NEW ch \in Challenge, RequestRefusedOffline(t, ch),
             UNCHANGED agentVars
      PROVE  IInv'
  BY <1>t, <1>f, <1>3, InvQuiet DEF RequestRefusedOffline
<1>4. ASSUME NEW a \in Agent, Revoke(a) \/ GoStale(a) \/ Tick, UNCHANGED agentVars
      PROVE  IInv'
  BY <1>t, <1>f, <1>4, InvQuiet DEF Revoke, GoStale, Tick
<1>5. QED
  BY <1>1, <1>2, <1>3, <1>4, AnyAgentIsAgent DEF Others

LEMMA InvClaim ==
  ASSUME IInv, TypeOK', NEW p \in Poll, NEW c \in Command,
         Claim(p, c), UNCHANGED agentVars
  PROVE  IInv'
<1> USE DEF agentVars
<1> DEFINE a == polls[p].agent
<1>t. /\ now \in Nat /\ rows \in [Command -> Row] /\ polls \in [Poll -> PollState]
      /\ polls[p] \in PollState /\ a \in Agent /\ rows[c] \in Row
  BY DEF IInv, TypeOK, PollState
<1>1. CASE ~Claimable(c)
  <2>1. NothingNew /\ NothingDue /\ UNCHANGED <<rows, calls, now, ran>>
    <3>1. polls' = [polls EXCEPT ![p] = [polls[p] EXCEPT !.due = polls[p].due \ {c}]]
      BY <1>1 DEF Claim
    <3>2. /\ polls'[p].due = polls[p].due \ {c} /\ polls'[p].signed = polls[p].signed
          /\ polls'[p].agent = polls[p].agent
          /\ \A q \in Poll \ {p} : polls'[q] = polls[q]
      BY <1>t, <3>1 DEF PollState
    <3>3. QED
      BY <1>1, <3>2 DEF Claim, NothingNew, NothingDue
  <2>2. \A d \in Command : Kept(d)
    BY <2>1 DEF Kept, SameOrder, IInv, RowsInv
  <2>3. RowsInv' /\ CancelInv' /\ FoundInv'
    BY <2>1 DEF IInv, RowsInv, CancelInv, FoundInv
  <2>4. QED
    BY <2>1, <2>2, <2>3, InvFewer, DueKept
<1>2. CASE Claimable(c)
  <2>1. /\ rows' = [rows EXCEPT ![c] = ClaimedRow(rows[c])]
        /\ c \in polls[p].due
        /\ UNCHANGED <<now, calls, reports, inbox, acting, ran>>
    BY <1>2 DEF Claim
  <2>2. /\ polls'[p].due = polls[p].due \ {c}
        /\ polls'[p].signed = polls[p].signed \cup {Sign(c, a)}
        /\ polls'[p].agent = a
        /\ \A q \in Poll \ {p} : polls'[q] = polls[q]
    <3>1. polls' = [polls EXCEPT ![p] = [polls[p] EXCEPT
                      !.due = polls[p].due \ {c}, !.signed = polls[p].signed \cup {Sign(c, a)}]]
      BY <1>2 DEF Claim
    <3>2. QED
      BY <1>t, <3>1 DEF PollState
  <2>3. /\ rows'[c] = ClaimedRow(rows[c])
        /\ \A d \in Command \ {c} : rows'[d] = rows[d]
    BY <1>t, <2>1
  <2>4. /\ SameOrder(rows[c], rows'[c]) /\ rows'[c].state = "sent" /\ rows'[c].delivered
        /\ rows'[c].cancelledAt = rows[c].cancelledAt
    <3> DEFINE r == rows[c]
    <3>1. /\ SameOrder(r, ClaimedRow(r)) /\ ClaimedRow(r).state = "sent"
          /\ ClaimedRow(r).delivered = TRUE /\ ClaimedRow(r).cancelledAt = r.cancelledAt
      BY <1>t DEF Row, SameOrder, ClaimedRow
    <3>2. QED
      BY <2>3, <3>1
  <2>5. /\ rows[c].state \in Waiting /\ ~rows[c].delivered /\ ~Trace(c)
        /\ rows[c].executeAt <= now /\ AddressedTo(rows[c], a)
    BY <1>2, <2>1 DEF Claimable, IInv, RowsInv, DeliveredInv, DueInv
  <2>6. \A d \in Command : Kept(d)
    BY <2>3, <2>4, <2>5 DEF Kept, SameOrder, IInv, RowsInv, Waiting
  <2>7. RowsInv' /\ CancelInv' /\ FoundInv'
    <3>1. RowsInv'
      BY <2>1, <2>3, <2>4, <2>5 DEF IInv, RowsInv, Waiting, SameOrder
    <3>2. CancelInv'
      BY <2>3, <2>4, <2>5 DEF IInv, CancelInv, Waiting, SameOrder
    <3>3. FoundInv'
      BY <2>1, <2>6 DEF IInv, FoundInv, Kept
    <3>4. QED
      BY <3>1, <3>2, <3>3
  <2>8. DueInv' /\ RanInv' /\ ReportInv'
    <3>1. NothingDue
      BY <2>2 DEF NothingDue
    <3>2. ReportInv'
      BY <2>1 DEF IInv, ReportInv
    <3>3. QED
      BY <2>1, <2>6, <3>1, <3>2, DueKept, RanKept
  <2>9. /\ SignedBy(p)' = SignedBy(p) \cup {c}
        /\ \A q \in Poll \ {p} : SignedBy(q)' = SignedBy(q)
        /\ \A b \in Agent : HeldBy(b)' = HeldBy(b)
        /\ \A d \in Command : Handled(d)' <=> Handled(d)
    <3>1. SignedBy(p)' = SignedBy(p) \cup {c}
      <4> DEFINE old == polls[p].signed
                 new == Sign(c, a)
      <4>1. new.id = c /\ polls'[p].signed = old \cup {new}
        BY <2>2 DEF Sign
      <4> HIDE DEF new
      <4>2. {e.id : e \in old \cup {new}} = {e.id : e \in old} \cup {new.id}
        OBVIOUS
      <4>3. QED
        BY <4>1, <4>2 DEF SignedBy
    <3>2. QED
      BY <2>1, <2>2, <3>1 DEF SignedBy, HeldBy, Handled
  <2>10. DeliveredInv'
    <3>1. \A d \in Command : Trace(d)' => d = c \/ Trace(d)
      BY <2>1, <2>9 DEF Trace
    <3>2. QED
      BY <2>4, <2>6, <3>1 DEF IInv, DeliveredInv, Kept
  <2>11. EnvelopeInv'
    <3>1. \A q \in Poll : polls[q].signed \subseteq Envelope /\ polls[q].agent \in Agent
      BY DEF IInv, TypeOK, PollState
    <3>2. ASSUME NEW q \in Poll, NEW e \in polls[q].signed
          PROVE  (e = Sign(e.id, polls[q].agent) /\ AddressedTo(rows[e.id], polls[q].agent))'
      <4>1. /\ e \in Envelope /\ Trace(e.id) /\ polls'[q].agent = polls[q].agent
            /\ e = Sign(e.id, polls[q].agent) /\ AddressedTo(rows[e.id], polls[q].agent)
        BY <2>2, <3>1, <3>2 DEF Trace, SignedBy, IInv, EnvelopeInv
      <4>2. QED
        BY <2>6, <3>1, <4>1, EnvelopeKept
    <3>3. Sign(c, a) = Sign(c, a)' /\ Sign(c, a).id = c /\ AddressedTo(rows[c], a)'
      BY <2>2, <2>4, <2>5 DEF Sign, SameOrder, AddressedTo
    <3>4. ASSUME NEW b \in Agent, NEW e \in inbox[b]
          PROVE  (e = Sign(e.id, b) /\ AddressedTo(rows[e.id], b))'
      <4>1. /\ e \in Envelope /\ Trace(e.id)
            /\ e = Sign(e.id, b) /\ AddressedTo(rows[e.id], b)
        BY <3>4 DEF Trace, HeldBy, IInv, EnvelopeInv, TypeOK
      <4>2. QED
        BY <2>6, <4>1, EnvelopeKept
    <3>5. QED
      BY <2>1, <2>2, <3>2, <3>3, <3>4 DEF EnvelopeInv
  <2>12. OnePlaceInv'
    <3>1. /\ \A q \in Poll : c \notin SignedBy(q)
          /\ \A b \in Agent : c \notin HeldBy(b)
          /\ ~Handled(c)
      BY <2>5 DEF Trace, Handled
    <3>2. QED
      BY <2>1, <2>9, <3>1 DEF IInv, OnePlaceInv
  <2>13. QED
    BY <2>7, <2>8, <2>10, <2>11, <2>12 DEF IInv
<1>3. QED
  BY <1>1, <1>2

LEMMA InvServe ==
  ASSUME IInv, TypeOK', NEW p \in Poll, Serve(p)
  PROVE  IInv'
<1>t. /\ polls \in [Poll -> PollState] /\ polls[p] \in PollState /\ polls[p].agent \in Agent
      /\ inbox \in [Agent -> SUBSET Envelope] /\ now \in Nat
      /\ polls[p].signed \subseteq Envelope
  BY DEF IInv, TypeOK, PollState
<1>s. ASSUME ServiceSend(p), UNCHANGED <<acting, ran>>
      PROVE  /\ RowsInv' /\ CancelInv' /\ FoundInv' /\ DueInv' /\ RanInv' /\ ReportInv'
             /\ \A c \in Command : Kept(c)
             /\ UNCHANGED <<now, rows, reports>>
             /\ polls'[p].signed = {}
             /\ \A q \in Poll \ {p} : polls'[q] = polls[q]
  <2>1. /\ UNCHANGED <<now, rows, reports, calls>>
        /\ polls' = [polls EXCEPT ![p] = NoPoll]
    BY <1>s DEF ServiceSend
  <2>2. /\ polls'[p].signed = {} /\ polls'[p].due = {}
        /\ \A q \in Poll \ {p} : polls'[q] = polls[q]
    BY <1>t, <2>1 DEF NoPoll
  <2>3. \A c \in Command : Kept(c)
    BY <2>1 DEF Kept, SameOrder, IInv, RowsInv
  <2>4. RowsInv' /\ CancelInv' /\ FoundInv' /\ ReportInv'
    BY <1>s, <2>1 DEF IInv, RowsInv, CancelInv, FoundInv, ReportInv
  <2>5. NothingDue
    BY <2>2 DEF NothingDue
  <2>6. QED
    BY <1>s, <2>1, <2>2, <2>3, <2>4, <2>5, DueKept, RanKept
<1>1. CASE LoseAnswer(p)
  <2>1. ServiceSend(p) /\ UNCHANGED <<inbox, acting, ran>>
    BY <1>1 DEF LoseAnswer
  <2>2. NothingNew
    BY <1>s, <2>1 DEF NothingNew
  <2>3. QED
    BY <1>s, <2>1, <2>2, InvFewer
<1>2. CASE Receive(p)
  <2>a. PICK a \in Agent : a = polls[p].agent
    BY <1>t
  <2>1. ServiceSend(p) /\ inbox' = [inbox EXCEPT ![a] = polls[p].signed] /\ UNCHANGED <<acting, ran>>
    BY <1>2, <2>a DEF Receive
  <2>2. /\ inbox'[a] = polls[p].signed
        /\ \A b \in Agent \ {a} : inbox'[b] = inbox[b]
    BY <1>t, <2>1
  <2>3. /\ SignedBy(p)' = {}
        /\ \A q \in Poll \ {p} : SignedBy(q)' = SignedBy(q)
        /\ HeldBy(a)' = SignedBy(p)
        /\ \A b \in Agent \ {a} : HeldBy(b)' = HeldBy(b)
        /\ \A c \in Command : Handled(c)' <=> Handled(c)
    <3>1. SignedBy(p)' = {} /\ \A q \in Poll \ {p} : SignedBy(q)' = SignedBy(q)
      BY <1>s, <2>1 DEF SignedBy
    <3>2. HeldBy(a)' = SignedBy(p) /\ \A b \in Agent \ {a} : HeldBy(b)' = HeldBy(b)
      BY <2>2 DEF SignedBy, HeldBy
    <3>3. \A c \in Command : Handled(c)' <=> Handled(c)
      BY <1>s, <2>1 DEF Handled
    <3>4. QED
      BY <3>1, <3>2, <3>3
  <2>4. DeliveredInv'
    <3>1. \A c \in Command : Trace(c)' => Trace(c)
      BY <1>s, <2>1, <2>3 DEF Trace
    <3>2. QED
      BY <1>s, <2>1, <3>1 DEF IInv, DeliveredInv
  <2>5. EnvelopeInv'
    <3>1. ASSUME NEW e, NEW b \in Agent
          PROVE  /\ Sign(e.id, b)' = Sign(e.id, b)
                 /\ AddressedTo(rows[e.id], b)' <=> AddressedTo(rows[e.id], b)
      BY <1>s, <2>1 DEF Sign, AddressedTo
    <3>2. \A e \in inbox'[a] : e = Sign(e.id, a) /\ AddressedTo(rows[e.id], a)
      BY <2>a, <2>2 DEF IInv, EnvelopeInv
    <3>3. \A b \in Agent \ {a} : \A e \in inbox'[b] : e = Sign(e.id, b) /\ AddressedTo(rows[e.id], b)
      BY <2>2 DEF IInv, EnvelopeInv
    <3>4. \A q \in Poll : \A e \in polls'[q].signed :
            /\ e = Sign(e.id, polls[q].agent) /\ AddressedTo(rows[e.id], polls[q].agent)
            /\ polls'[q].agent = polls[q].agent /\ polls[q].agent \in Agent
      BY <1>s, <2>1 DEF IInv, EnvelopeInv, TypeOK, PollState
    <3>5. QED
      BY <3>1, <3>2, <3>3, <3>4 DEF EnvelopeInv
  <2>6. OnePlaceInv'
    BY <1>t, <2>1, <2>3 DEF IInv, OnePlaceInv
  <2>7. QED
    BY <1>s, <2>1, <2>4, <2>5, <2>6 DEF IInv
<1>3. QED
  BY <1>1, <1>2, InvClaim DEF Serve

LEMMA InvPoll ==
  ASSUME IInv, TypeOK', NEW a \in Agent, NEW p \in Poll, StartPoll(a, p)
  PROVE  IInv'
<1>t. /\ now \in Nat /\ rows \in [Command -> Row] /\ polls \in [Poll -> PollState]
  BY DEF IInv, TypeOK
<1>1. /\ rows' = Swept
      /\ polls' = [polls EXCEPT ![p] =
             [phase |-> "busy", agent |-> a, due |-> DueFor(a), signed |-> {}]]
      /\ UNCHANGED <<now, calls, reports, inbox, acting, ran>>
  BY DEF StartPoll, BeginCollect
<1>2. ASSUME NEW c \in Command
      PROVE  /\ SameOrder(rows[c], rows'[c])
             /\ rows'[c].delivered = rows[c].delivered
             /\ rows'[c].cancelledAt = rows[c].cancelledAt
             /\ \/ rows'[c].state = rows[c].state
                \/ rows'[c].state = "expired" /\ rows[c].state \in Outstanding
  <2>1. CASE rows'[c] = rows[c]
    BY <2>1 DEF SameOrder
  <2>2. CASE /\ rows'[c] = [rows[c] EXCEPT !.state = "expired"]
             /\ rows[c].state \in Outstanding
    <3>1. rows[c] \in Row
      BY <1>t
    <3>2. QED
      BY <2>2, <3>1 DEF Row, SameOrder
  <2>3. QED
    BY <1>1, <2>1, <2>2 DEF Swept
<1>3. \A c \in Command : Kept(c)
  BY <1>2 DEF Kept, IInv, RowsInv, Outstanding
<1>4. RowsInv' /\ CancelInv' /\ FoundInv'
  <2>1. RowsInv'
    BY <1>1, <1>2 DEF IInv, RowsInv, Waiting, SameOrder, Outstanding
  <2>2. CancelInv'
    BY <1>2 DEF IInv, CancelInv, Waiting, SameOrder
  <2>3. FoundInv'
    BY <1>1, <1>3 DEF IInv, FoundInv, Kept
  <2>4. QED
    BY <2>1, <2>2, <2>3
<1>5. /\ polls'[p].due = DueFor(a) /\ polls'[p].agent = a /\ polls'[p].signed = {}
      /\ \A q \in Poll \ {p} : polls'[q] = polls[q]
  BY <1>t, <1>1
<1>6. DueInv'
  <2>1. ASSUME NEW c \in DueFor(a)
        PROVE  /\ rows'[c].state # "none" /\ rows'[c].executeAt <= now
               /\ AddressedTo(rows'[c], a)
    BY <1>2, <1>3 DEF DueFor, Kept, SameOrder, AddressedTo, Waiting
  <2>2. ASSUME NEW q \in Poll \ {p}, NEW c \in polls[q].due
        PROVE  /\ rows'[c].state # "none" /\ rows'[c].executeAt <= now
               /\ AddressedTo(rows'[c], polls[q].agent)
    <3>1. c \in Command
      BY <2>2 DEF IInv, TypeOK, PollState
    <3>2. QED
      BY <1>3, <2>2, <3>1 DEF IInv, DueInv, Kept, SameOrder, AddressedTo
  <2>3. QED
    BY <1>1, <1>5, <2>1, <2>2 DEF DueInv
<1>7. NothingNew
  BY <1>1, <1>5 DEF NothingNew
<1>8. QED
  BY <1>3, <1>4, <1>6, <1>7, InvFewer

(* The three ways to handle an envelope, but for the execution.            *)
LEMMA Handling ==
  ASSUME IInv, NEW a \in Agent, NEW e \in inbox[a],
         Execute(a, e) \/ ExecuteInVain(a, e) \/ RefuseCommand(a, e)
  PROVE  /\ UNCHANGED <<now, rows, calls, polls, reports>>
         /\ e \in Envelope /\ e.id \in Command /\ acting[a] = None
         /\ acting'[a].id = e.id
         /\ \A b \in Agent \ {a} : acting'[b] = acting[b] /\ inbox'[b] = inbox[b]
         /\ inbox'[a] = inbox[a] \ {e}
         /\ e.id \in HeldBy(a)
         /\ e.id \notin HeldBy(a)'
         /\ ran[e.id].times = 0
<1>t. /\ inbox \in [Agent -> SUBSET Envelope] /\ acting \in [Agent -> Report \cup {None}]
      /\ e \in Envelope /\ e.id \in Command /\ ran[e.id].times \in Nat
  BY DEF IInv, TypeOK, Envelope, Run
<1>1. /\ UNCHANGED <<now, rows, calls, polls, reports>> /\ acting[a] = None
      /\ inbox' = [inbox EXCEPT ![a] = inbox[a] \ {e}]
      /\ \E succeeded \in BOOLEAN : ToReport(a, e, succeeded)
  BY DEF Execute, ExecuteInVain, RefuseCommand, Take, serviceVars
<1>2. PICK succeeded \in BOOLEAN : acting' = [acting EXCEPT ![a] =
         [id |-> e.id, device |-> a, succeeded |-> succeeded]]
  BY <1>1 DEF ToReport
<1>3. /\ acting'[a] = [id |-> e.id, device |-> a, succeeded |-> succeeded]
      /\ \A b \in Agent \ {a} : acting'[b] = acting[b] /\ inbox'[b] = inbox[b]
      /\ inbox'[a] = inbox[a] \ {e}
  BY <1>t, <1>1, <1>2
<1>4. e.id \in HeldBy(a) /\ \A d \in inbox[a] : d.id = e.id => d = e
  BY <1>t DEF HeldBy, IInv, EnvelopeInv
<1>5. e.id \notin HeldBy(a)'
  BY <1>3, <1>4 DEF HeldBy
<1>6. ran[e.id].times = 0
  BY <1>t, <1>4 DEF IInv, OnePlaceInv, Handled
<1>7. QED
  BY <1>t, <1>1, <1>3, <1>4, <1>5, <1>6

LEMMA InvHandle ==
  ASSUME IInv, TypeOK', NEW a \in Agent, Handle(a)
  PROVE  IInv'
<1>1. PICK e \in inbox[a] : Execute(a, e) \/ ExecuteInVain(a, e) \/ RefuseCommand(a, e)
  BY DEF Handle
<1> DEFINE c == e.id
<1>h. /\ UNCHANGED <<now, rows, calls, polls, reports>>
      /\ e \in Envelope /\ c \in Command /\ acting[a] = None
      /\ acting'[a].id = c
      /\ \A b \in Agent \ {a} : acting'[b] = acting[b] /\ inbox'[b] = inbox[b]
      /\ inbox'[a] = inbox[a] \ {e}
      /\ c \in HeldBy(a) /\ c \notin HeldBy(a)'
      /\ ran[c].times = 0
  BY <1>1, Handling
<1>2. /\ \A d \in Command \ {c} : ran'[d] = ran[d]
      /\ ran'[c].times \in {0, 1}
      /\ ran'[c].times = 0 => ran'[c] = ran[c]
      /\ ran'[c].times > 0 => /\ ran'[c].by = a /\ ran'[c].at = now
                              /\ now + Drift[a] < e.expiresAt
      /\ acting'[a].succeeded => ran'[c].times = 1
  <2>t. /\ ran \in [Command -> Run] /\ acting \in [Agent -> Report \cup {None}]
    BY DEF IInv, TypeOK
  <2>1. CASE Execute(a, e)
    <3>1. ran' = [ran EXCEPT ![c] = [times |-> ran[c].times + 1, by |-> a, at |-> now]]
      BY <2>1 DEF Execute, DoneOnceMore
    <3>2. now + Drift[a] < e.expiresAt
      BY <2>1 DEF Execute, Accept, Valid, LocalTime
    <3>3. ran'[c] = [times |-> 1, by |-> a, at |-> now]
      BY <1>h, <2>t, <3>1
    <3>4. QED
      BY <1>h, <2>t, <3>1, <3>2, <3>3
  <2>2. CASE ExecuteInVain(a, e) \/ RefuseCommand(a, e)
    <3>1. ran' = ran /\ ToReport(a, e, FALSE)
      BY <2>2 DEF ExecuteInVain, RefuseCommand
    <3>2. ~acting'[a].succeeded
      BY <2>t, <3>1 DEF ToReport
    <3>3. QED
      BY <1>h, <3>1, <3>2
  <2>3. QED
    BY <1>1, <2>1, <2>2
<1>3. /\ rows[c].delivered /\ AddressedTo(rows[c], a) /\ e = Sign(c, a)
      /\ rows[c].executeAt <= now
  BY <1>h DEF IInv, DeliveredInv, Trace, EnvelopeInv, RowsInv
<1>4. RowsInv' /\ CancelInv' /\ FoundInv' /\ DueInv'
  <2>1. RowsInv'
    BY <1>h, <1>2 DEF IInv, RowsInv
  <2>2. CancelInv' /\ FoundInv'
    BY <1>h DEF IInv, CancelInv, FoundInv
  <2>3. DueInv'
    BY <1>h DEF IInv, DueInv
  <2>4. QED
    BY <2>1, <2>2, <2>3
<1>5. /\ \A p \in Poll : SignedBy(p)' = SignedBy(p)
      /\ \A b \in Agent : HeldBy(b)' \subseteq HeldBy(b)
      /\ \A d \in Command : Handled(d)' => d = c \/ Handled(d)
  <2>1. /\ \A p \in Poll : SignedBy(p)' = SignedBy(p)
        /\ \A b \in Agent : HeldBy(b)' \subseteq HeldBy(b)
    BY <1>h DEF SignedBy, HeldBy
  <2>2. ASSUME NEW d \in Command, Handled(d)'
        PROVE  d = c \/ Handled(d)
    BY <1>h, <1>2, <2>2 DEF Handled
  <2>3. QED
    BY <2>1, <2>2
<1>6. DeliveredInv'
  <2>1. \A d \in Command : Trace(d)' => d = c \/ Trace(d)
    BY <1>h, <1>5 DEF Trace, Handled
  <2>2. QED
    BY <1>h, <1>3, <2>1 DEF IInv, DeliveredInv
<1>7. EnvelopeInv'
  BY <1>h DEF IInv, EnvelopeInv, Sign, AddressedTo
<1>8. OnePlaceInv'
  <2>1. \A d \in Command : ran'[d].times <= 1
    BY <1>2 DEF IInv, OnePlaceInv
  <2>2. /\ \A p \in Poll : c \notin SignedBy(p)
        /\ \A b \in Agent : c \notin HeldBy(b)'
    BY <1>h, <1>5 DEF IInv, OnePlaceInv
  <2>3. QED
    BY <1>5, <2>1, <2>2 DEF IInv, OnePlaceInv
<1>9. ReportInv'
  <2>1. \A m \in reports : m.id \in Command
    BY DEF IInv, TypeOK, Report
  <2>2. \A d \in Command : ran[d].times = 1 => ran'[d].times = 1
    BY <1>h, <1>2
  <2>3. \A b \in Agent : acting[b] # None => acting[b].id \in Command
    BY DEF IInv, TypeOK, Report
  <2>4. QED
    BY <1>h, <1>2, <2>1, <2>2, <2>3 DEF IInv, ReportInv
<1>10. RanInv'
  <2>1. ran'[c].times > 0 => /\ ran'[c].by \in Agent /\ AddressedTo(rows[c], ran'[c].by)
                             /\ rows[c].executeAt <= ran'[c].at
                             /\ ran'[c].at + Drift[ran'[c].by] < rows[c].expiresAt
    BY <1>2, <1>3 DEF Sign
  <2>2. QED
    BY <1>h, <1>2, <2>1 DEF IInv, RanInv, AddressedTo
<1>11. QED
  BY <1>4, <1>6, <1>7, <1>8, <1>9, <1>10 DEF IInv

LEMMA InvReport ==
  ASSUME IInv, TypeOK', NEW a \in Agent, SendReport(a)
  PROVE  IInv'
<1>1. /\ acting[a] # None
      /\ reports' = reports \cup {acting[a]}
      /\ \A b \in Agent : acting'[b] \in {acting[b], None}
      /\ UNCHANGED <<now, rows, calls, polls, inbox, ran>>
  BY DEF SendReport, IInv, TypeOK
<1>2. /\ \A p \in Poll : SignedBy(p)' = SignedBy(p)
      /\ \A b \in Agent : HeldBy(b)' = HeldBy(b)
      /\ \A c \in Command : Handled(c)' => Handled(c)
  BY <1>1 DEF SignedBy, HeldBy, Handled
<1>3. RowsInv' /\ CancelInv' /\ FoundInv' /\ DueInv' /\ EnvelopeInv' /\ RanInv'
  BY <1>1 DEF IInv, RowsInv, CancelInv, FoundInv, DueInv, EnvelopeInv, RanInv, Sign, AddressedTo
<1>4. DeliveredInv' /\ OnePlaceInv' /\ ReportInv'
  <2>1. \A c \in Command : Trace(c)' => Trace(c)
    BY <1>1, <1>2 DEF Trace, Handled
  <2>2. DeliveredInv'
    BY <1>1, <2>1 DEF IInv, DeliveredInv
  <2>3. OnePlaceInv'
    BY <1>1, <1>2 DEF IInv, OnePlaceInv
  <2>4. ReportInv'
    BY <1>1 DEF IInv, ReportInv
  <2>5. QED
    BY <2>2, <2>3, <2>4
<1>5. QED
  BY <1>3, <1>4 DEF IInv

LEMMA InvLoop ==
  ASSUME IInv, TypeOK', NEW a \in Agent, Loop(a)
  PROVE  IInv'
<1>1. now \in Nat
  BY DEF IInv, TypeOK
<1>2. CASE Heartbeat(a) \/ GiveUp(a)
  <2>1. UNCHANGED <<now, rows, calls, polls, reports, inbox, acting, ran>>
    BY <1>2 DEF Heartbeat, GiveUp, serviceVars
  <2>2. FoundInv'
    BY <2>1 DEF IInv, FoundInv
  <2>3. QED
    BY <1>1, <2>1, <2>2, InvQuiet
<1>3. CASE Restart(a)
  <2>1. /\ UNCHANGED <<now, rows, calls, polls, reports, ran>>
        /\ inbox' = [inbox EXCEPT ![a] = {}] /\ acting' = [acting EXCEPT ![a] = None]
    BY <1>3 DEF Restart, serviceVars
  <2>2. NothingNew /\ NothingDue
    BY <2>1 DEF NothingNew, NothingDue, IInv, TypeOK
  <2>3. \A c \in Command : Kept(c)
    BY <2>1 DEF Kept, SameOrder, IInv, RowsInv
  <2>4. RowsInv' /\ CancelInv' /\ FoundInv'
    BY <2>1 DEF IInv, RowsInv, CancelInv, FoundInv
  <2>5. QED
    BY <2>1, <2>2, <2>3, <2>4, InvFewer, DueKept
<1>4. QED
  BY <1>2, <1>3, InvPoll, InvHandle, InvReport DEF Loop
-----------------------------------------------------------------------------
(* The strengthening is an invariant: an envelope is in one place at most, *)
(* and what is signed, held or carried out was due.                        *)
THEOREM InductiveInvariant == Spec => []IInv
<1>1. IInv /\ [Next]_vars => IInv'
  <2> SUFFICES ASSUME IInv, [Next]_vars
               PROVE  IInv'
    OBVIOUS
  <2>1. TypeOK'
    <3>1. CASE Next
      BY <3>1, TypeMember, TypeServe, TypeLoop, TypeOthers DEF Next, IInv
    <3>2. CASE UNCHANGED vars
      BY <3>2 DEF vars, serviceVars, agentVars, TypeOK, IInv
    <3>3. QED
      BY <3>1, <3>2
  <2>2. CASE Next
    BY <2>1, <2>2, InvMember, InvServe, InvLoop, InvOthers DEF Next
  <2>3. CASE UNCHANGED vars
    <3>1. FoundInv' /\ now' >= now
      BY <2>3 DEF vars, serviceVars, IInv, FoundInv, TypeOK
    <3>2. QED
      BY <2>1, <2>3, <3>1, InvQuiet DEF vars, serviceVars, agentVars
  <2>4. QED
    BY <2>2, <2>3
<1>2. QED
  BY <1>1, InvInit, PTL DEF Spec

(* No command is carried out twice, however polls, answers and restarts    *)
(* interleave.                                                             *)
THEOREM CommandAtMostOnce == Spec => []AtMostOnce
<1>1. IInv => AtMostOnce
  BY DEF IInv, OnePlaceInv, AtMostOnce
<1>2. QED
  BY <1>1, InductiveInvariant, PTL

(* A command is carried out after its countdown and before its expiry,     *)
(* whatever the drift of the clock of the agent that carries it out.       *)
THEOREM CommandInWindow == Spec => []ActsWithinWindow
<1>1. IInv => ActsWithinWindow
  BY DEF IInv, RanInv, ActsWithinWindow
<1>2. QED
  BY <1>1, InductiveInvariant, PTL

(* A wake is carried out by its helper, everything else by its target.     *)
THEOREM CommandByAddressee == Spec => []ActedByAddressee
<1>1. IInv => ActedByAddressee
  <2> SUFFICES ASSUME IInv, NEW c \in Command, ran[c].times > 0
               PROVE  ran[c].by = Addressee(rows[c])
    BY DEF ActedByAddressee
  <2>1. ran[c].by \in Agent /\ AddressedTo(rows[c], ran[c].by)
    BY DEF IInv, RanInv
  <2>2. QED
    BY <2>1, PowerConstants DEF AddressedTo, Addressee
<1>2. QED
  BY <1>1, InductiveInvariant, PTL

(* A cancel written during the countdown means the command is never handed *)
(* over and never carried out.                                             *)
THEOREM CancelIsFinal == Spec => []CancelInCountdownIsFinal
<1>1. IInv => CancelInCountdownIsFinal
  <2> SUFFICES ASSUME IInv, NEW c \in Command,
                      rows[c].cancelledAt # None, rows[c].cancelledAt < rows[c].executeAt
               PROVE  ran[c].times = 0 /\ ~rows[c].delivered
    BY DEF CancelInCountdownIsFinal
  <2>1. ~rows[c].delivered /\ ran[c].times \in Nat
    BY DEF IInv, CancelInv, TypeOK, Run
  <2>2. QED
    BY <2>1 DEF IInv, DeliveredInv, Trace
<1>2. QED
  BY <1>1, InductiveInvariant, PTL

(* "succeeded" is said only of what was done, and what was never handed    *)
(* over was not done.                                                      *)
THEOREM ResultsAreTrue == Spec => []ResultIsTrue
<1>1. IInv => ResultIsTrue
  <2> SUFFICES ASSUME IInv, NEW c \in Command
               PROVE  /\ rows[c].state = "succeeded" => ran[c].times = 1
                      /\ ~rows[c].delivered => ran[c].times = 0
    BY DEF ResultIsTrue
  <2>1. ran[c].times \in Nat
    BY DEF IInv, TypeOK, Run
  <2>2. QED
    BY <2>1 DEF IInv, RowsInv, DeliveredInv, Trace
<1>2. QED
  BY <1>1, InductiveInvariant, PTL
=============================================================================
