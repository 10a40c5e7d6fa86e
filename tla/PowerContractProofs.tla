------------------------ MODULE PowerContractProofs ------------------------
(***************************************************************************)
(* PowerCommands implements PowerContract, and two more of its properties, *)
(* for every set of agents, commands, requests and polls.                  *)
(*                                                                         *)
(* The argument.  Whether a command is acted on, handed over or lapsed     *)
(* depends on its row's delivered mark, on ran and on whether its envelope *)
(* is alive.  A step that touches neither rows nor ran can at most end the *)
(* life of envelopes, which the contract calls a lapse; each of the six    *)
(* kinds of steps that do touch them is one step of the contract.  What    *)
(* makes them so (only what was handed over is carried out or reported,    *)
(* only what is due is handed over) is the invariant of PowerCommandsProofs *)
(***************************************************************************)
EXTENDS PowerCommandsProofs

(* A poll that is over holds no envelope.                                  *)
PollsInv == \A p \in Poll : polls[p].phase = "idle" => polls[p].signed = {}

LEMMA PollsInit == Init => PollsInv
BY DEF Init, ServiceInit, PollsInv, NoPoll

LEMMA PollsStep ==
  ASSUME TypeOK, PollsInv, [Next]_vars
  PROVE  PollsInv'
<1> USE DEF serviceVars, agentVars
<1>t. polls \in [Poll -> PollState]
  BY DEF TypeOK
<1>1. ASSUME UNCHANGED polls PROVE PollsInv'
  BY <1>1 DEF PollsInv
<1>2. ASSUME NEW k \in Caller, Member(k) PROVE PollsInv'
  <2>1. UNCHANGED polls
    BY <1>2 DEF Member, Request, CheckPending, Create, FindCancellable, Cancel
  <2> QED
    BY <1>1, <2>1
<1>3. ASSUME NEW p \in Poll, NEW c \in Command, Claim(p, c) PROVE PollsInv'
  <2>1. /\ polls[p].phase = "busy"
        /\ \E due, signed :
             polls' = [polls EXCEPT ![p] = [polls[p] EXCEPT !.due = due, !.signed = signed]]
    <3>1. \/ polls' = [polls EXCEPT ![p] = [polls[p] EXCEPT !.due = polls[p].due \ {c},
                         !.signed = polls[p].signed \cup {Sign(c, polls[p].agent)}]]
          \/ polls' = [polls EXCEPT ![p] = [polls[p] EXCEPT !.due = polls[p].due \ {c},
                         !.signed = polls[p].signed]]
      BY <1>3, <1>t DEF Claim, PollState
    <3> QED
      BY <1>3, <3>1 DEF Claim
  <2> QED
    BY <1>t, <2>1 DEF PollsInv, PollState
<1>4. ASSUME NEW p \in Poll, Receive(p) \/ LoseAnswer(p) PROVE PollsInv'
  <2>1. polls' = [polls EXCEPT ![p] = NoPoll]
    BY <1>4 DEF Receive, LoseAnswer, ServiceSend
  <2> QED
    BY <1>t, <2>1 DEF PollsInv, NoPoll
<1>5. ASSUME NEW a \in Agent, NEW p \in Poll, StartPoll(a, p) PROVE PollsInv'
  <2>1. polls' = [polls EXCEPT ![p] =
                    [phase |-> "busy", agent |-> a, due |-> DueFor(a), signed |-> {}]]
    BY <1>5 DEF StartPoll, BeginCollect
  <2> QED
    BY <1>t, <2>1 DEF PollsInv
<1>6. ASSUME NEW a \in Agent,
             Heartbeat(a) \/ GiveUp(a) \/ Handle(a) \/ SendReport(a) \/ Restart(a)
      PROVE  PollsInv'
  <2>1. UNCHANGED polls
    BY <1>6 DEF Heartbeat, GiveUp, Handle, Execute, ExecuteInVain, RefuseCommand, SendReport,
                Restart
  <2> QED
    BY <1>1, <2>1
<1>7. CASE Others
  <2>1. UNCHANGED polls
    BY <1>7 DEF Others, RecordResult, LoseReport, RequestRefusedOffline, Revoke, GoStale, Tick
  <2> QED
    BY <1>1, <2>1
<1>8. CASE UNCHANGED vars
  BY <1>1, <1>8 DEF vars
<1> QED
  BY <1>2, <1>3, <1>4, <1>5, <1>6, <1>7, <1>8 DEF Next, Serve, Loop

LEMMA PollsInvariant == Spec => []PollsInv
<1>1. Spec => []TypeOK
  BY TypeCorrect
<1>2. TypeOK /\ PollsInv /\ [Next]_vars => PollsInv'
  BY PollsStep
<1> QED
  BY <1>1, <1>2, PollsInit, PTL DEF Spec
-----------------------------------------------------------------------------
(* The refinement mapping, with its cases in the order they are asked.     *)

PhaseOf(state, delivered, times, alive) ==
  IF state = "none" THEN "absent"
  ELSE IF times > 0 THEN "acted"
  ELSE IF delivered THEN (IF alive THEN "handed" ELSE "lapsed")
  ELSE IF state \in Waiting THEN "open" ELSE "withdrawn"

ToldOf(state) ==
  IF state = "none" THEN "nothing"
  ELSE IF state \in Outstanding THEN "waiting"
  ELSE IF state \in {"cancelled", "expired"} THEN "off"
  ELSE state

(* What the invariant says of a row.                                       *)
LEMMA RowFacts ==
  ASSUME IInv, NEW c \in Command
  PROVE  /\ rows[c].delivered \in BOOLEAN /\ ran[c].times \in Nat
         /\ rows[c].state = "none" => ~rows[c].delivered
         /\ ran[c].times > 0 => rows[c].delivered
         /\ Alive(c) => rows[c].delivered /\ ran[c].times = 0
<1>1. rows[c].delivered \in BOOLEAN /\ ran[c].times \in Nat
  BY DEF IInv, TypeOK, Row, Run
<1>2. /\ rows[c].state = "none" => ~rows[c].delivered
      /\ ran[c].times > 0 => rows[c].delivered
  BY DEF IInv, RowsInv, DeliveredInv, Trace
<1>3. Alive(c) => Trace(c) /\ ~Handled(c)
  BY DEF IInv, OnePlaceInv, Alive, Trace
<1>4. Alive(c) => rows[c].delivered /\ ran[c].times = 0
  BY <1>1, <1>3 DEF IInv, DeliveredInv, Handled
<1> QED
  BY <1>1, <1>2, <1>4

LEMMA PhaseNow ==
  ASSUME IInv, NEW c \in Command
  PROVE  Phase(c) = PhaseOf(rows[c].state, rows[c].delivered, ran[c].times, Alive(c))
BY RowFacts DEF Phase, PhaseOf, Waiting

LEMMA PhaseNext ==
  ASSUME IInv', NEW c \in Command
  PROVE  Phase(c)' = PhaseOf(rows'[c].state, rows'[c].delivered, ran'[c].times, Alive(c)')
<1>1. /\ rows'[c].delivered \in BOOLEAN /\ ran'[c].times \in Nat
      /\ rows'[c].state = "none" => ~rows'[c].delivered
      /\ ran'[c].times > 0 => rows'[c].delivered
  BY DEF IInv, TypeOK, Row, Run, RowsInv, DeliveredInv, Trace
<1> QED
  BY <1>1 DEF Phase, PhaseOf, Waiting

LEMMA ToldNow ==
  ASSUME NEW c \in Command
  PROVE  Told(c) = ToldOf(rows[c].state) /\ Told(c)' = ToldOf(rows'[c].state)
BY DEF Told, ToldOf, Outstanding
-----------------------------------------------------------------------------
(* The steps of the contract.                                              *)

Step == Contract!Next \/ UNCHANGED Contract!contractVars

(* Envelopes die and nothing else happens: a lapse.                        *)
LEMMA Fades ==
  ASSUME IInv, IInv', UNCHANGED <<now, rows, ran>>,
         \A c \in Command : Alive(c)' => Alive(c)
  PROVE  Step
<1> DEFINE Gone == {c \in Command : Phase(c) = "handed" /\ ~Alive(c)'}
<1>1. \A c \in Command : Phase(c)' = IF c \in Gone THEN "lapsed" ELSE Phase(c)
  BY PhaseNow, PhaseNext DEF PhaseOf
<1>2. \A c \in Command : Told(c)' = Told(c)
  BY ToldNow
<1> HIDE DEF Gone
<1>3. \A c \in Gone : c \in Command /\ Phase(c) = "handed"
  BY DEF Gone
<1>4. Contract!Lapse(Gone)
  BY <1>1, <1>2, <1>3 DEF Contract!Lapse
<1>5. Gone \in SUBSET Command
  BY <1>3
<1> QED
  BY <1>4, <1>5 DEF Step, Contract!Next

(* Time passes.                                                            *)
LEMMA Passes ==
  ASSUME IInv, IInv', now' > now, UNCHANGED <<rows, ran>>,
         \A c \in Command : Alive(c)' = Alive(c)
  PROVE  Step
<1>1. \A c \in Command : Phase(c)' = Phase(c) /\ Told(c)' = Told(c)
  BY PhaseNow, PhaseNext, ToldNow DEF PhaseOf
<1>2. Contract!Pass
  BY <1>1 DEF Contract!Pass
<1> QED
  BY <1>2 DEF Step, Contract!Next

(* Rows are cancelled or expire: the commands are called off.              *)
LEMMA CallsOff ==
  ASSUME IInv, IInv', UNCHANGED <<now, ran>>, rows' \in [Command -> Row],
         \A c \in Command : Alive(c)' = Alive(c),
         NEW Off \in SUBSET Command,
         \A c \in Command \ Off : rows'[c] = rows[c],
         \A c \in Off : /\ rows[c].state # "none"
                        /\ rows'[c].state \in {"cancelled", "expired"}
                        /\ rows'[c].executeAt = rows[c].executeAt
                        /\ rows'[c].delivered = rows[c].delivered
  PROVE  Step
<1>1. ASSUME NEW c \in Command
      PROVE  /\ Phase(c)' = IF c \in Off /\ Phase(c) = "open" THEN "withdrawn" ELSE Phase(c)
             /\ Told(c)' = IF c \in Off THEN "off" ELSE Told(c)
             /\ rows'[c].executeAt = rows[c].executeAt
             /\ c \in Off => Phase(c) # "absent"
  <2>1. CASE c \in Off
    BY <2>1, PhaseNow, PhaseNext, ToldNow DEF PhaseOf, ToldOf, Waiting, Outstanding
  <2>2. CASE c \notin Off
    BY <2>2, PhaseNow, PhaseNext, ToldNow DEF PhaseOf
  <2> QED
    BY <2>1, <2>2
<1>2. Contract!CallOff(Off)
  BY <1>1 DEF Contract!CallOff
<1> QED
  BY <1>2 DEF Step, Contract!Next

(* A row is created: a command is opened.                                  *)
LEMMA Opens ==
  ASSUME IInv, IInv', UNCHANGED <<now, ran>>, NEW c \in Command,
         \A d \in Command : Alive(d)' = Alive(d),
         rows[c].state = "none", rows'[c].state \in Waiting, rows'[c].delivered = FALSE,
         rows'[c].executeAt >= now,
         \A d \in Command \ {c} : rows'[d] = rows[d]
  PROVE  Step
<1>1. /\ Phase(c) = "absent" /\ Phase(c)' = "open" /\ Told(c)' = "waiting"
  BY RowFacts, PhaseNow, PhaseNext, ToldNow DEF PhaseOf, ToldOf, Waiting, Outstanding
<1>2. \A d \in Command \ {c} : Phase(d)' = Phase(d) /\ Told(d)' = Told(d)
  BY PhaseNow, PhaseNext, ToldNow DEF PhaseOf
<1>3. Contract!Open(c)
  BY <1>1, <1>2 DEF Contract!Open
<1> QED
  BY <1>3 DEF Step, Contract!Next

(* A due row is claimed: the command is handed over.                       *)
LEMMA HandsOver ==
  ASSUME IInv, IInv', UNCHANGED <<now, ran>>, NEW c \in Command,
         \A d \in Command \ {c} : Alive(d)' = Alive(d) /\ rows'[d] = rows[d],
         rows[c].state \in Waiting, rows[c].executeAt <= now,
         rows'[c].state = "sent", rows'[c].delivered = TRUE,
         rows'[c].executeAt = rows[c].executeAt
  PROVE  Step
<1>1. ~rows[c].delivered /\ ran[c].times = 0
  BY RowFacts DEF IInv, RowsInv
<1>2. Phase(c) = "open" /\ Phase(c)' = IF Alive(c)' THEN "handed" ELSE "lapsed"
  BY <1>1, PhaseNow, PhaseNext DEF PhaseOf, Waiting
<1>3. Told(c)' = Told(c)
  BY ToldNow DEF ToldOf, Waiting, Outstanding
<1>4. \A d \in Command \ {c} : Phase(d)' = Phase(d) /\ Told(d)' = Told(d)
  BY PhaseNow, PhaseNext, ToldNow DEF PhaseOf
<1>5. Contract!HandOver(c)
  BY <1>2, <1>3, <1>4 DEF Contract!HandOver
<1> QED
  BY <1>5 DEF Step, Contract!Next

(* A living envelope is carried out: the command is acted on.              *)
LEMMA ActsOn ==
  ASSUME IInv, IInv', UNCHANGED <<now, rows>>, NEW c \in Command,
         Alive(c), ran'[c].times = 1,
         \A d \in Command \ {c} : Alive(d)' = Alive(d) /\ ran'[d] = ran[d]
  PROVE  Step
<1>1. rows[c].state # "none" /\ Phase(c) = "handed" /\ Phase(c)' = "acted"
  BY RowFacts, PhaseNow, PhaseNext DEF PhaseOf
<1>2. \A d \in Command : Told(d)' = Told(d)
  BY ToldNow
<1>3. \A d \in Command \ {c} : Phase(d)' = Phase(d)
  BY PhaseNow, PhaseNext DEF PhaseOf
<1>4. Contract!Act(c)
  BY <1>1, <1>2, <1>3 DEF Contract!Act
<1> QED
  BY <1>4 DEF Step, Contract!Next

(* A result is recorded: it is told.                                       *)
LEMMA Tells ==
  ASSUME IInv, IInv', UNCHANGED <<now, ran>>, NEW c \in Command,
         \A d \in Command : Alive(d)' = Alive(d),
         \A d \in Command \ {c} : rows'[d] = rows[d],
         ~Alive(c), rows[c].delivered,
         rows'[c].delivered = rows[c].delivered, rows'[c].executeAt = rows[c].executeAt,
         NEW outcome \in {"succeeded", "failed"}, rows'[c].state = outcome,
         outcome = "succeeded" => ran[c].times = 1
  PROVE  Step
<1>1. /\ Phase(c)' = Phase(c)
      /\ \/ Phase(c) = "acted"
         \/ Phase(c) = "lapsed" /\ outcome = "failed"
  <2>1. /\ rows[c].state # "none" /\ rows'[c].state # "none"
        /\ ran[c].times \in Nat /\ Alive(c)' = Alive(c) /\ ran'[c].times = ran[c].times
    BY RowFacts
  <2>2. Phase(c) = IF ran[c].times > 0 THEN "acted" ELSE "lapsed"
    BY <2>1, PhaseNow DEF PhaseOf
  <2>3. Phase(c)' = IF ran[c].times > 0 THEN "acted" ELSE "lapsed"
    BY <2>1, PhaseNext DEF PhaseOf
  <2> QED
    BY <2>1, <2>2, <2>3
<1>2. Told(c)' = outcome
  BY ToldNow DEF ToldOf, Outstanding
<1>3. \A d \in Command \ {c} : Phase(d)' = Phase(d) /\ Told(d)' = Told(d)
  BY PhaseNow, PhaseNext, ToldNow DEF PhaseOf
<1>4. Contract!Tell(c, outcome)
  BY <1>1, <1>2, <1>3 DEF Contract!Tell
<1> QED
  BY <1>4 DEF Step, Contract!Next
-----------------------------------------------------------------------------
(* Every step of PowerCommands is one of them.                             *)

(* What is alive depends on these alone.                                   *)
LEMMA SameAlive ==
  ASSUME UNCHANGED <<polls, awaiting, inbox>>, NEW c \in Command
  PROVE  Alive(c)' = Alive(c)
BY DEF Alive, SignedBy, HeldBy

LEMMA MemberSteps ==
  ASSUME IInv, IInv', NEW k \in Caller, Member(k)
  PROVE  Step
<1> USE DEF agentVars
<1>t. /\ now \in Nat /\ calls \in [Caller -> Call] /\ rows \in [Command -> Row]
      /\ rows' \in [Command -> Row]
  BY DEF IInv, TypeOK
<1>a. UNCHANGED <<polls, awaiting, inbox, ran>>
  BY DEF Member, Request, CheckPending, Create, FindCancellable, Cancel
<1>b. \A c \in Command : Alive(c)' = Alive(c)
  BY <1>a, SameAlive
<1>1. CASE UNCHANGED <<now, rows>>
  BY <1>a, <1>b, <1>1, Fades
<1>2. ASSUME NEW c \in Command, Create(k, c) PROVE Step
  <2>1. /\ rows[c].state = "none" /\ UNCHANGED now
        /\ rows' = [rows EXCEPT ![c] = NewRow(calls[k])]
    BY <1>2 DEF Create
  <2>2. /\ rows'[c] = NewRow(calls[k])
        /\ \A d \in Command \ {c} : rows'[d] = rows[d]
    BY <1>t, <2>1
  <2>3. /\ NewRow(calls[k]).state \in Waiting /\ NewRow(calls[k]).delivered = FALSE
        /\ NewRow(calls[k]).executeAt >= now
    BY <1>t, PowerConstants DEF NewRow, Waiting
  <2> QED
    BY <1>a, <1>b, <2>1, <2>2, <2>3, Opens
<1>3. ASSUME Cancel(k) PROVE Step
  <2> DEFINE c == calls[k].found
  <2>1. c \in Command /\ rows[c].state # "none"
    BY <1>3 DEF Cancel, IInv, FoundInv
  <2>2. /\ UNCHANGED now
        /\ rows' = [rows EXCEPT ![c] = CancelledRow(rows[c])]
    BY <1>3 DEF Cancel
  <2> HIDE DEF c
  <2>3. /\ rows[c] \in Row /\ rows'[c] = CancelledRow(rows[c])
        /\ \A d \in Command \ {c} : rows'[d] = rows[d]
    BY <1>t, <2>1, <2>2
  <2>4. /\ rows'[c].state = "cancelled" /\ rows'[c].delivered = rows[c].delivered
        /\ rows'[c].executeAt = rows[c].executeAt
    BY <2>3 DEF CancelledRow, Row
  <2>5. {c} \in SUBSET Command
    BY <2>1
  <2>6. /\ \A d \in Command \ {c} : rows'[d] = rows[d]
        /\ \A d \in {c} : /\ rows[d].state # "none"
                         /\ rows'[d].state \in {"cancelled", "expired"}
                         /\ rows'[d].executeAt = rows[d].executeAt
                         /\ rows'[d].delivered = rows[d].delivered
    BY <2>1, <2>3, <2>4
  <2> QED
    BY <1>a, <1>b, <1>t, <2>2, <2>5, <2>6, CallsOff
<1> QED
  BY <1>1, <1>2, <1>3 DEF Member, Request, CheckPending, FindCancellable

LEMMA ServeSteps ==
  ASSUME IInv, IInv', NEW p \in Poll, Serve(p)
  PROVE  Step
<1> USE DEF agentVars
<1> DEFINE a == polls[p].agent
<1>t. /\ rows \in [Command -> Row] /\ polls \in [Poll -> PollState] /\ a \in Agent
      /\ polls[p] \in PollState /\ inbox \in [Agent -> SUBSET Envelope]
      /\ awaiting \in [Agent -> Poll \cup {None}] /\ None \notin Poll
  BY AgentConstants DEF IInv, TypeOK, PollState
<1>1. ASSUME NEW c \in Command, Claim(p, c), UNCHANGED agentVars PROVE Step
  <2>1. CASE ~Claimable(c)
    <3>1. /\ polls' = [polls EXCEPT ![p] = [polls[p] EXCEPT !.due = polls[p].due \ {c}]]
          /\ UNCHANGED <<now, rows>>
      BY <1>1, <2>1 DEF Claim
    <3>2. \A q \in Poll : polls'[q].signed = polls[q].signed /\ polls'[q].agent = polls[q].agent
      BY <1>t, <3>1 DEF PollState
    <3>3. \A d \in Command : Alive(d)' => Alive(d)
      BY <1>1, <3>2 DEF Alive, SignedBy, HeldBy
    <3> QED
      BY <1>1, <3>1, <3>3, Fades
  <2>2. CASE Claimable(c)
    <3>1. /\ polls' = [polls EXCEPT ![p] = [polls[p] EXCEPT !.due = polls[p].due \ {c},
                         !.signed = polls[p].signed \cup {Sign(c, a)}]]
          /\ rows' = [rows EXCEPT ![c] = ClaimedRow(rows[c])]
          /\ UNCHANGED now /\ c \in polls[p].due
      BY <1>1, <2>2 DEF Claim
    <3>2. /\ rows'[c] = ClaimedRow(rows[c]) /\ rows[c] \in Row
          /\ \A d \in Command \ {c} : rows'[d] = rows[d]
      BY <1>t, <3>1
    <3>3. /\ rows'[c].state = "sent" /\ rows'[c].delivered = TRUE
          /\ rows'[c].executeAt = rows[c].executeAt
      BY <3>2 DEF ClaimedRow, Row
    <3>4. rows[c].state \in Waiting /\ rows[c].executeAt <= now
      BY <2>2, <3>1 DEF Claimable, IInv, DueInv
    <3>5. /\ \A q \in Poll : polls'[q].agent = polls[q].agent
          /\ \A q \in Poll \ {p} : polls'[q].signed = polls[q].signed
          /\ polls'[p].signed = polls[p].signed \cup {Sign(c, a)}
      BY <1>t, <3>1 DEF PollState
    <3>6. \A d \in Command \ {c}, q \in Poll : d \in SignedBy(q)' <=> d \in SignedBy(q)
      BY <3>5 DEF SignedBy, Sign
    <3>7. \A d \in Command \ {c} : Alive(d)' = Alive(d)
      BY <1>1, <3>5, <3>6 DEF Alive, HeldBy
    <3> QED
      BY <1>1, <3>1, <3>2, <3>3, <3>4, <3>7, HandsOver
  <2> QED
    BY <2>1, <2>2
<1>2. ASSUME Receive(p) \/ LoseAnswer(p) PROVE Step
  <2>1. /\ polls' = [polls EXCEPT ![p] = NoPoll]
        /\ UNCHANGED <<now, rows, ran>>
    BY <1>2 DEF Receive, LoseAnswer, ServiceSend
  <2>2. SignedBy(p)' = {} /\ \A q \in Poll \ {p} : polls'[q] = polls[q]
    BY <1>t, <2>1 DEF SignedBy, NoPoll
  <2>3. \A b \in Agent : awaiting'[b] \in {awaiting[b], None}
    BY <1>2, <1>t DEF Receive, LoseAnswer
  <2>4. ASSUME NEW c \in Command, NEW q \in Poll, c \in SignedBy(q)',
               awaiting'[polls'[q].agent] = q
        PROVE  Alive(c)
    <3>1. q # p /\ polls'[q] = polls[q]
      BY <2>2, <2>4
    <3>2. polls[q].agent \in Agent
      BY <1>t DEF PollState
    <3>3. awaiting[polls[q].agent] = q
      BY <1>t, <2>3, <2>4, <3>1, <3>2
    <3> QED
      BY <2>4, <3>1, <3>3 DEF Alive, SignedBy
  <2>5. ASSUME NEW c \in Command, NEW b \in Agent, c \in HeldBy(b)'
        PROVE  Alive(c)
    <3>1. CASE inbox'[b] = inbox[b]
      BY <2>5, <3>1 DEF Alive, HeldBy
    <3>2. CASE inbox'[b] # inbox[b]
      <4>1. b = a /\ awaiting[a] = p /\ inbox'[b] = polls[p].signed
        BY <1>2, <1>t, <3>2 DEF Receive, LoseAnswer
      <4> QED
        BY <2>5, <4>1 DEF Alive, HeldBy, SignedBy
    <3> QED
      BY <3>1, <3>2
  <2>6. \A c \in Command : Alive(c)' => Alive(c)
    BY <2>4, <2>5 DEF Alive
  <2> QED
    BY <2>1, <2>6, Fades
<1> QED
  BY <1>1, <1>2 DEF Serve

LEMMA LoopSteps ==
  ASSUME IInv, IInv', PollsInv, NEW a \in Agent, Loop(a)
  PROVE  Step
<1>t. /\ rows \in [Command -> Row] /\ rows' \in [Command -> Row]
      /\ polls \in [Poll -> PollState]
      /\ inbox \in [Agent -> SUBSET Envelope]
      /\ awaiting \in [Agent -> Poll \cup {None}] /\ None \notin Poll
      /\ ran \in [Command -> Run]
  BY AgentConstants DEF IInv, TypeOK
<1>1. CASE Heartbeat(a) \/ SendReport(a)
  <2>1. UNCHANGED <<now, rows, ran, polls, awaiting, inbox>>
    BY <1>1 DEF Heartbeat, SendReport
  <2> QED
    BY <2>1, SameAlive, Fades
<1>2. CASE GiveUp(a) \/ Restart(a)
  <2>1. /\ UNCHANGED <<now, rows, ran, polls>>
        /\ \A b \in Agent : awaiting'[b] \in {awaiting[b], None} /\ inbox'[b] \subseteq inbox[b]
    BY <1>2, <1>t DEF GiveUp, Restart, serviceVars
  <2>2. \A q \in Poll : polls[q].agent \in Agent
    BY <1>t DEF PollState
  <2>3. \A c \in Command : Alive(c)' => Alive(c)
    BY <1>t, <2>1, <2>2 DEF Alive, SignedBy, HeldBy
  <2> QED
    BY <2>1, <2>3, Fades
<1>3. ASSUME NEW p \in Poll, StartPoll(a, p) PROVE Step
  <2>1. /\ polls[p].phase = "idle" /\ awaiting[a] = None
        /\ rows' = Swept
        /\ polls' = [polls EXCEPT ![p] =
               [phase |-> "busy", agent |-> a, due |-> DueFor(a), signed |-> {}]]
        /\ awaiting' = [awaiting EXCEPT ![a] = p]
        /\ UNCHANGED <<now, ran, inbox>>
    BY <1>3 DEF StartPoll, BeginCollect, Idle
  <2>2. /\ SignedBy(p) = {} /\ SignedBy(p)' = {}
        /\ \A q \in Poll \ {p} : polls'[q] = polls[q] /\ polls[q].agent \in Agent
    BY <1>t, <2>1 DEF SignedBy, PollsInv, PollState
  <2>3. \A q \in Poll \ {p} :
          awaiting'[polls[q].agent] = q <=> awaiting[polls[q].agent] = q
    BY <1>t, <2>1, <2>2
  <2>4. \A c \in Command, q \in Poll :
          /\ c \in SignedBy(q)' <=> c \in SignedBy(q)
          /\ c \in SignedBy(q) => (awaiting'[polls'[q].agent] = q <=> awaiting[polls[q].agent] = q)
    BY <2>2, <2>3 DEF SignedBy
  <2>5. \A c \in Command : Alive(c)' = Alive(c)
    BY <2>1, <2>4 DEF Alive, HeldBy
  <2> DEFINE Off == {c \in Command : rows[c].state \in Outstanding /\ rows[c].expiresAt < now}
  <2>6. \A c \in Command \ Off : rows'[c] = rows[c]
    BY <2>1 DEF Swept
  <2>7. ASSUME NEW c \in Off
        PROVE  /\ rows[c].state # "none"
               /\ rows'[c].state \in {"cancelled", "expired"}
               /\ rows'[c].executeAt = rows[c].executeAt
               /\ rows'[c].delivered = rows[c].delivered
    <3>1. rows'[c] = [rows[c] EXCEPT !.state = "expired"] /\ rows[c] \in Row
      BY <1>t, <2>1, <2>7 DEF Swept
    <3> QED
      BY <2>7, <3>1 DEF Row, Outstanding
  <2> HIDE DEF Off
  <2>8. Off \in SUBSET Command
    BY DEF Off
  <2> QED
    BY <1>t, <2>1, <2>5, <2>6, <2>7, <2>8, CallsOff
<1>4. ASSUME NEW e \in inbox[a], Execute(a, e) \/ ExecuteInVain(a, e) \/ RefuseCommand(a, e)
      PROVE  Step
  <2>1. /\ UNCHANGED <<now, rows, polls, awaiting>>
        /\ \A b \in Agent \ {a} : inbox'[b] = inbox[b]
        /\ inbox'[a] = inbox[a] \ {e}
        /\ e.id \in Command /\ e.id \in HeldBy(a) /\ ran[e.id].times = 0
    BY <1>4, Handling DEF Execute, ExecuteInVain, RefuseCommand
  <2>2. \A c \in Command : Alive(c)' => Alive(c)
    BY <2>1 DEF Alive, SignedBy, HeldBy
  <2>3. \A c \in Command \ {e.id} : Alive(c)' = Alive(c)
    BY <2>1 DEF Alive, SignedBy, HeldBy
  <2>4. CASE UNCHANGED ran
    BY <2>1, <2>2, <2>4, Fades
  <2>5. CASE DoneOnceMore(a, e.id)
    <3>1. ran'[e.id].times = 1 /\ \A d \in Command \ {e.id} : ran'[d] = ran[d]
      BY <1>t, <2>1, <2>5 DEF DoneOnceMore
    <3>2. Alive(e.id)
      BY <2>1 DEF Alive
    <3> QED
      BY <2>1, <2>3, <3>1, <3>2, ActsOn
  <2> QED
    BY <1>4, <2>4, <2>5 DEF Execute, ExecuteInVain, RefuseCommand
<1> QED
  BY <1>1, <1>2, <1>3, <1>4 DEF Loop, Handle

LEMMA OtherSteps ==
  ASSUME IInv, IInv', Others
  PROVE  Step
<1> USE DEF agentVars
<1>t. /\ now \in Nat /\ rows \in [Command -> Row] /\ reports \subseteq Report
  BY DEF IInv, TypeOK
<1>a. UNCHANGED <<polls, awaiting, inbox, ran>>
  BY DEF Others, RecordResult, LoseReport, RequestRefusedOffline, Revoke, GoStale, Tick
<1>b. \A c \in Command : Alive(c)' = Alive(c)
  BY <1>a, SameAlive
<1>1. CASE UNCHANGED <<now, rows>>
  BY <1>a, <1>b, <1>1, Fades
<1>2. CASE Tick
  BY <1>a, <1>b, <1>2, <1>t, Passes DEF Tick
<1>3. ASSUME NEW m \in reports, RecordResult(m), Resolve(m.id, m.succeeded) PROVE Step
  <2> DEFINE c == m.id
             outcome == IF m.succeeded THEN "succeeded" ELSE "failed"
  <2>1. /\ c \in Command /\ rows[c].delivered
        /\ m.succeeded => ran[c].times = 1
    BY <1>t DEF IInv, DeliveredInv, Trace, ReportInv, Report
  <2>2. ~Alive(c)
    BY <2>1 DEF IInv, OnePlaceInv, Handled, Alive
  <2>3. /\ UNCHANGED now
        /\ rows' = [rows EXCEPT ![c].state = outcome]
    BY <1>3 DEF RecordResult, Resolve
  <2>4. outcome \in {"succeeded", "failed"} /\ (outcome = "succeeded" => ran[c].times = 1)
    BY <2>1
  <2> HIDE DEF c, outcome
  <2>5. /\ rows'[c].state = outcome /\ rows'[c].delivered = rows[c].delivered
        /\ rows'[c].executeAt = rows[c].executeAt
        /\ \A d \in Command \ {c} : rows'[d] = rows[d]
    BY <1>t, <2>1, <2>3 DEF Row
  <2> QED
    BY <1>a, <1>b, <2>1, <2>2, <2>3, <2>4, <2>5, Tells
<1> QED
  BY <1>1, <1>2, <1>3 DEF Others, RecordResult, LoseReport, RequestRefusedOffline, Revoke,
     GoStale

(* Whatever the control plane, the agents and the network between them do, *)
(* to any number of commands at once, is what PowerContract allows.        *)
THEOREM CommandsKeepContract == Spec => ImplementsContract
<1>1. Init => Contract!Init
  <2> SUFFICES ASSUME Init PROVE Contract!Init
    OBVIOUS
  <2>1. now = 0 /\ \A c \in Command : rows[c].state = "none" /\ rows[c].executeAt = 0
    BY DEF Init, ServiceInit, NoRow
  <2>2. \A c \in Command : Phase(c) = "absent" /\ Told(c) = "nothing"
    BY <2>1, InvInit, PhaseNow, ToldNow DEF PhaseOf, ToldOf
  <2> QED
    BY <2>1, <2>2 DEF Contract!Init
<1>2. IInv /\ IInv' /\ PollsInv /\ [Next]_vars => [Contract!Next]_(Contract!contractVars)
  <2> SUFFICES ASSUME IInv, IInv', PollsInv, [Next]_vars PROVE Step
    BY DEF Step
  <2>1. CASE UNCHANGED vars
    <3>1. UNCHANGED <<now, rows, ran, polls, awaiting, inbox>>
      BY <2>1 DEF vars, serviceVars, agentVars
    <3> QED
      BY <3>1, SameAlive, Fades
  <2>2. CASE Next
    BY <2>2, MemberSteps, ServeSteps, LoopSteps, OtherSteps DEF Next
  <2> QED
    BY <2>1, <2>2
<1> QED
  BY <1>1, <1>2, InductiveInvariant, PollsInvariant, PTL DEF Spec, ImplementsContract, Contract!Spec
-----------------------------------------------------------------------------
(* What is settled stays settled, whatever was found due before it was     *)
(* (cancelPending, the sweep of collectFor, its conditional claim).        *)
THEOREM SettledIsFinal == Spec => SettledStaysSettled
<1>1. IInv /\ [Next]_vars
        => [\A c \in Command :
              rows[c].state \notin Outstanding \cup {"none"}
                => rows'[c].state \notin Outstanding \cup {"none"}]_vars
  <2> SUFFICES ASSUME IInv, Next, NEW c \in Command,
                      rows[c].state \notin Outstanding \cup {"none"}
               PROVE  rows'[c].state \notin Outstanding \cup {"none"}
    OBVIOUS
  <2> USE DEF Outstanding
  <2>t. rows \in [Command -> Row] /\ reports \subseteq Report
    BY DEF IInv, TypeOK
  <2>1. CASE UNCHANGED rows
    BY <2>1
  <2>2. ASSUME NEW k \in Caller, NEW d \in Command, Create(k, d)
        PROVE  rows'[c].state \notin Outstanding \cup {"none"}
    <3>1. d # c /\ rows' = [rows EXCEPT ![d] = NewRow(calls[k])]
      BY <2>2 DEF Create
    <3> QED
      BY <2>t, <3>1
  <2>3. ASSUME NEW k \in Caller, Cancel(k)
        PROVE  rows'[c].state \notin Outstanding \cup {"none"}
    <3>1. rows' = [rows EXCEPT ![calls[k].found] = CancelledRow(rows[calls[k].found])]
      BY <2>3 DEF Cancel
    <3>2. CASE c = calls[k].found
      BY <2>t, <3>1, <3>2 DEF CancelledRow, Row
    <3>3. CASE c # calls[k].found
      BY <2>t, <3>1, <3>3
    <3> QED
      BY <3>2, <3>3
  <2>4. ASSUME NEW p \in Poll, NEW d \in Command, Claim(p, d)
        PROVE  rows'[c].state \notin Outstanding \cup {"none"}
    <3>1. \/ UNCHANGED rows
          \/ rows[d].state \in Waiting /\ rows' = [rows EXCEPT ![d] = ClaimedRow(rows[d])]
      BY <2>4 DEF Claim, Claimable
    <3> QED
      BY <2>t, <3>1 DEF Waiting
  <2>5. ASSUME NEW a \in Agent, NEW p \in Poll, StartPoll(a, p)
        PROVE  rows'[c].state \notin Outstanding \cup {"none"}
    <3>1. rows' = Swept
      BY <2>5 DEF StartPoll, BeginCollect
    <3> QED
      BY <3>1 DEF Swept
  <2>6. ASSUME NEW m \in reports, RecordResult(m)
        PROVE  rows'[c].state \notin Outstanding \cup {"none"}
    <3>1. \/ UNCHANGED rows
          \/ \E s \in {"succeeded", "failed"} : rows' = [rows EXCEPT ![m.id].state = s]
      BY <2>6 DEF RecordResult, Resolve
    <3> QED
      BY <2>t, <3>1 DEF Row
  <2>7. \/ UNCHANGED rows
        \/ \E k \in Caller : Cancel(k) \/ \E d \in Command : Create(k, d)
        \/ \E p \in Poll, d \in Command : Claim(p, d)
        \/ \E a \in Agent, p \in Poll : StartPoll(a, p)
        \/ \E m \in reports : RecordResult(m)
    <3>1. ASSUME NEW k \in Caller, Member(k)
          PROVE  UNCHANGED rows \/ Cancel(k) \/ \E d \in Command : Create(k, d)
      BY <3>1 DEF Member, Request, CheckPending, FindCancellable
    <3>2. ASSUME NEW p \in Poll, Serve(p)
          PROVE  UNCHANGED rows \/ \E d \in Command : Claim(p, d)
      BY <3>2 DEF Serve, Receive, LoseAnswer, ServiceSend
    <3>3. ASSUME NEW a \in Agent, Loop(a)
          PROVE  UNCHANGED rows \/ \E p \in Poll : StartPoll(a, p)
      BY <3>3 DEF Loop, Heartbeat, GiveUp, Handle, Execute, ExecuteInVain, RefuseCommand,
                  SendReport, Restart, serviceVars
    <3>4. ASSUME Others
          PROVE  UNCHANGED rows \/ \E m \in reports : RecordResult(m)
      BY <3>4 DEF Others, LoseReport, RequestRefusedOffline, Revoke, GoStale, Tick
    <3> QED
      BY <3>1, <3>2, <3>3, <3>4 DEF Next
  <2> QED
    BY <2>1, <2>2, <2>3, <2>4, <2>5, <2>6, <2>7
<1> QED
  BY <1>1, InductiveInvariant, PTL DEF Spec, SettledStaysSettled
-----------------------------------------------------------------------------
(* Who holds a confirmation.  Whatever holds one, it was spent before; a   *)
(* destructive command is only created by a request that holds one.        *)
ConfirmInv ==
  /\ OneConfirmationOneCommand
  /\ \A c \in Command : rows[c].confirmedBy # None => rows[c].confirmedBy \in spent
  /\ \A k \in Caller : calls[k].confirmedBy # None => calls[k].confirmedBy \in spent
  /\ \A k \in Caller :
       calls[k].phase \in {"checking", "creating"} /\ Destructive(calls[k].action)
         => calls[k].confirmedBy # None

LEMMA ConfirmInit == Init => ConfirmInv
BY DEF Init, ServiceInit, ConfirmInv, OneConfirmationOneCommand, NoRow, NoCall

(* A step that creates no row and takes no confirmation.                   *)
LEMMA ConfirmKept ==
  ASSUME ConfirmInv, spent \subseteq spent',
         \A c \in Command : /\ rows'[c].confirmedBy = rows[c].confirmedBy
                            /\ rows'[c].action = rows[c].action
                            /\ rows[c].state = "none" => rows'[c].state = "none",
         \A k \in Caller : \/ calls'[k].confirmedBy = None
                              /\ calls'[k].phase \notin {"checking", "creating"}
                           \/ /\ calls'[k].confirmedBy = calls[k].confirmedBy
                              /\ calls'[k].action = calls[k].action
                              /\ calls'[k].phase = "creating" /\ calls[k].phase = "checking"
                           \/ calls'[k] = calls[k]
  PROVE  ConfirmInv'
<1>1. OneConfirmationOneCommand'
  BY DEF ConfirmInv, OneConfirmationOneCommand, Destructive
<1>2. /\ \A c \in Command : rows'[c].confirmedBy # None => rows'[c].confirmedBy \in spent'
      /\ \A k \in Caller : calls'[k].confirmedBy # None => calls'[k].confirmedBy \in spent'
  BY DEF ConfirmInv
<1>3. \A k \in Caller :
        calls'[k].phase \in {"checking", "creating"} /\ Destructive(calls'[k].action)
          => calls'[k].confirmedBy # None
  BY DEF ConfirmInv, Destructive
<1> QED
  BY <1>1, <1>2, <1>3 DEF ConfirmInv, Destructive

LEMMA ConfirmCreate ==
  ASSUME TypeOK, ConfirmInv, NEW k \in Caller, NEW c \in Command, Create(k, c)
  PROVE  ConfirmInv'
<1>1. /\ rows[c].state = "none" /\ calls[k].phase = "creating"
      /\ rows' = [rows EXCEPT ![c] = NewRow(calls[k])]
      /\ calls' = [calls EXCEPT ![k] = NoCall]
      /\ UNCHANGED spent
  BY DEF Create
<1>2. /\ rows'[c].confirmedBy = calls[k].confirmedBy /\ rows'[c].action = calls[k].action
      /\ \A d \in Command \ {c} : rows'[d] = rows[d]
      /\ calls'[k].confirmedBy = None /\ calls'[k].phase = "idle"
      /\ \A l \in Caller \ {k} : calls'[l] = calls[l]
  BY <1>1 DEF TypeOK, NewRow, NoCall
<1>3. OneConfirmationOneCommand'
  <2>1. \A d, e \in Command :
          rows'[d].confirmedBy # None /\ rows'[d].confirmedBy = rows'[e].confirmedBy => d = e
    BY <1>2 DEF ConfirmInv, OneConfirmationOneCommand
  <2>2. \A i, j \in Caller :
          calls'[i].confirmedBy # None /\ calls'[i].confirmedBy = calls'[j].confirmedBy => i = j
    BY <1>2 DEF ConfirmInv, OneConfirmationOneCommand
  <2>3. \A d \in Command, j \in Caller :
          rows'[d].confirmedBy # None => calls'[j].confirmedBy # rows'[d].confirmedBy
    BY <1>2 DEF ConfirmInv, OneConfirmationOneCommand
  <2>4. \A d \in Command :
          rows'[d].state # "none" /\ Destructive(rows'[d].action) => rows'[d].confirmedBy # None
    BY <1>1, <1>2 DEF ConfirmInv, OneConfirmationOneCommand, Destructive
  <2> QED
    BY <2>1, <2>2, <2>3, <2>4 DEF OneConfirmationOneCommand, Destructive
<1>4. /\ \A d \in Command : rows'[d].confirmedBy # None => rows'[d].confirmedBy \in spent'
      /\ \A j \in Caller : calls'[j].confirmedBy # None => calls'[j].confirmedBy \in spent'
      /\ \A j \in Caller :
           calls'[j].phase \in {"checking", "creating"} /\ Destructive(calls'[j].action)
             => calls'[j].confirmedBy # None
  BY <1>1, <1>2 DEF ConfirmInv, Destructive
<1> QED
  BY <1>3, <1>4 DEF ConfirmInv, Destructive

LEMMA ConfirmRequest ==
  ASSUME TypeOK, ConfirmInv, NEW k \in Caller, NEW action \in Actions, NEW t \in Agent,
         NEW h \in Agent \cup {None}, NEW ch \in Challenge \cup {None},
         Request(k, action, t, h, ch)
  PROVE  ConfirmInv'
<1>1. /\ \/ Destructive(action) /\ ch \in Challenge \ spent /\ spent' = spent \cup {ch}
         \/ ~Destructive(action) /\ ch = None /\ spent' = spent
      /\ calls' = [calls EXCEPT ![k] =
           [phase |-> "checking", action |-> action, target |-> t, helper |-> h,
            confirmedBy |-> ch, found |-> None]]
      /\ UNCHANGED rows
  BY DEF Request, StepUp
<1>2. /\ calls'[k].confirmedBy = ch /\ calls'[k].action = action
      /\ \A l \in Caller \ {k} : calls'[l] = calls[l]
  BY <1>1 DEF TypeOK
<1>3. Destructive(action) => ch # None
  BY <1>1, PowerConstants
<1>4. /\ \A c \in Command : rows[c].confirmedBy # None => rows[c].confirmedBy \in spent
      /\ \A j \in Caller : calls[j].confirmedBy # None => calls[j].confirmedBy \in spent
  BY DEF ConfirmInv
<1>5. OneConfirmationOneCommand'
  <2>1. ch # None => ch \notin spent
    BY <1>1
  <2>2. \A i, j \in Caller :
          calls'[i].confirmedBy # None /\ calls'[i].confirmedBy = calls'[j].confirmedBy => i = j
    BY <1>2, <1>4, <2>1 DEF ConfirmInv, OneConfirmationOneCommand
  <2>3. \A d \in Command, j \in Caller :
          rows[d].confirmedBy # None => calls'[j].confirmedBy # rows[d].confirmedBy
    BY <1>2, <1>4, <2>1 DEF ConfirmInv, OneConfirmationOneCommand
  <2> QED
    BY <1>1, <2>2, <2>3 DEF ConfirmInv, OneConfirmationOneCommand, Destructive
<1>6. /\ \A c \in Command : rows'[c].confirmedBy # None => rows'[c].confirmedBy \in spent'
      /\ \A j \in Caller : calls'[j].confirmedBy # None => calls'[j].confirmedBy \in spent'
      /\ \A j \in Caller :
           calls'[j].phase \in {"checking", "creating"} /\ Destructive(calls'[j].action)
             => calls'[j].confirmedBy # None
  BY <1>1, <1>2, <1>3, <1>4 DEF ConfirmInv, Destructive
<1> QED
  BY <1>5, <1>6 DEF ConfirmInv, Destructive

LEMMA ConfirmStep ==
  ASSUME IInv, ConfirmInv, [Next]_vars
  PROVE  ConfirmInv'
<1> USE DEF agentVars, serviceVars
<1>t. /\ rows \in [Command -> Row] /\ calls \in [Caller -> Call] /\ now \in Nat
      /\ reports \subseteq Report
  BY DEF IInv, TypeOK
<1>1. ASSUME spent \subseteq spent', UNCHANGED <<rows, calls>> PROVE ConfirmInv'
  BY <1>1, ConfirmKept
<1>2. ASSUME spent' = spent, UNCHANGED calls,
             \A c \in Command : /\ rows'[c].confirmedBy = rows[c].confirmedBy
                                /\ rows'[c].action = rows[c].action
                                /\ rows[c].state = "none" => rows'[c].state = "none"
      PROVE  ConfirmInv'
  BY <1>2, ConfirmKept
<1>3. ASSUME NEW k \in Caller, CheckPending(k) PROVE ConfirmInv'
  <2>1. /\ UNCHANGED <<rows, spent>> /\ calls[k].phase = "checking"
        /\ \/ calls' = [calls EXCEPT ![k] = NoCall]
           \/ calls' = [calls EXCEPT ![k] = [calls[k] EXCEPT !.phase = "creating"]]
    BY <1>3 DEF CheckPending
  <2>2. \A j \in Caller \ {k} : calls'[j] = calls[j]
    BY <1>t, <2>1
  <2>3. \/ calls'[k].confirmedBy = None /\ calls'[k].phase \notin {"checking", "creating"}
        \/ /\ calls'[k].confirmedBy = calls[k].confirmedBy /\ calls'[k].action = calls[k].action
           /\ calls'[k].phase = "creating" /\ calls[k].phase = "checking"
    BY <1>t, <2>1 DEF NoCall, Call
  <2> QED
    BY <2>1, <2>2, <2>3, ConfirmKept
<1>4. ASSUME NEW k \in Caller, NEW t \in Agent, NEW c \in Command, FindCancellable(k, t, c)
      PROVE  ConfirmInv'
  <2>1. /\ UNCHANGED <<rows, spent>>
        /\ calls' = [calls EXCEPT ![k] =
             [NoCall EXCEPT !.phase = "cancelling", !.target = t, !.found = c]]
    BY <1>4 DEF FindCancellable
  <2>2. /\ calls'[k].confirmedBy = None /\ calls'[k].phase = "cancelling"
        /\ \A j \in Caller \ {k} : calls'[j] = calls[j]
    BY <1>t, <2>1 DEF NoCall
  <2> QED
    BY <2>1, <2>2, ConfirmKept
<1>5. ASSUME NEW k \in Caller, Cancel(k) PROVE ConfirmInv'
  <2> DEFINE c == calls[k].found
  <2>1. /\ c \in Command /\ rows[c].state # "none" /\ spent' = spent
        /\ rows' = [rows EXCEPT ![c] = CancelledRow(rows[c])]
        /\ calls' = [calls EXCEPT ![k] = NoCall]
    BY <1>5 DEF Cancel, IInv, FoundInv
  <2> HIDE DEF c
  <2>2. /\ rows'[c].confirmedBy = rows[c].confirmedBy /\ rows'[c].action = rows[c].action
        /\ \A d \in Command \ {c} : rows'[d] = rows[d]
    BY <1>t, <2>1 DEF CancelledRow, Row
  <2>3. /\ calls'[k].confirmedBy = None /\ calls'[k].phase = "idle"
        /\ \A j \in Caller \ {k} : calls'[j] = calls[j]
    BY <1>t, <2>1 DEF NoCall
  <2> QED
    BY <2>1, <2>2, <2>3, ConfirmKept
<1>6. ASSUME NEW p \in Poll, Serve(p) PROVE ConfirmInv'
  <2>1. /\ UNCHANGED <<spent, calls>>
        /\ \/ UNCHANGED rows
           \/ \E c \in Command : /\ rows[c].state \in Waiting
                                 /\ rows' = [rows EXCEPT ![c] = ClaimedRow(rows[c])]
    BY <1>6 DEF Serve, Claim, Claimable, Receive, LoseAnswer, ServiceSend
  <2>2. ASSUME NEW c \in Command
        PROVE  /\ rows'[c].confirmedBy = rows[c].confirmedBy
               /\ rows'[c].action = rows[c].action
               /\ rows[c].state = "none" => rows'[c].state = "none"
    <3>1. \/ rows'[c] = rows[c]
          \/ /\ rows[c].state \in Waiting
             /\ rows'[c] = ClaimedRow(rows[c])
      BY <1>t, <2>1
    <3>2. ClaimedRow(rows[c]).confirmedBy = rows[c].confirmedBy
          /\ ClaimedRow(rows[c]).action = rows[c].action
      BY <1>t DEF ClaimedRow, Row
    <3>3. rows[c].state \in Waiting => rows[c].state # "none"
      BY DEF Waiting
    <3> QED
      BY <3>1, <3>2, <3>3
  <2> QED
    BY <1>2, <2>1, <2>2
<1>7. ASSUME NEW a \in Agent, NEW p \in Poll, StartPoll(a, p) PROVE ConfirmInv'
  <2>1. UNCHANGED <<spent, calls>> /\ rows' = Swept
    BY <1>7 DEF StartPoll, BeginCollect
  <2>2. ASSUME NEW c \in Command
        PROVE  /\ rows'[c].confirmedBy = rows[c].confirmedBy
               /\ rows'[c].action = rows[c].action
               /\ rows[c].state = "none" => rows'[c].state = "none"
    <3>1. \/ rows'[c] = rows[c]
          \/ /\ rows[c].state \in Outstanding
             /\ rows'[c] = [rows[c] EXCEPT !.state = "expired"]
      BY <2>1 DEF Swept
    <3> QED
      BY <1>t, <3>1 DEF Row, Outstanding
  <2> QED
    BY <1>2, <2>1, <2>2
<1>8. ASSUME NEW a \in Agent,
             Heartbeat(a) \/ GiveUp(a) \/ Handle(a) \/ SendReport(a) \/ Restart(a)
      PROVE  ConfirmInv'
  <2>1. UNCHANGED <<rows, calls, spent>>
    BY <1>8 DEF Heartbeat, GiveUp, Handle, Execute, ExecuteInVain, RefuseCommand, SendReport,
                Restart
  <2> QED
    BY <1>1, <2>1
<1>9. ASSUME NEW m \in reports, RecordResult(m) PROVE ConfirmInv'
  <2>1. /\ UNCHANGED <<spent, calls>> /\ m.id \in Command /\ rows[m.id].state # "none"
        /\ \/ UNCHANGED rows
           \/ \E s \in {"succeeded", "failed"} : rows' = [rows EXCEPT ![m.id].state = s]
    BY <1>9, <1>t DEF RecordResult, Resolve, IInv, RowsInv, DeliveredInv, Trace, Report
  <2>2. \A c \in Command : /\ rows'[c].confirmedBy = rows[c].confirmedBy
                           /\ rows'[c].action = rows[c].action
                           /\ rows[c].state = "none" => rows'[c].state = "none"
    BY <1>t, <2>1 DEF Row
  <2> QED
    BY <1>2, <2>1, <2>2
<1>10. ASSUME NEW t \in Agent, NEW ch \in Challenge, RequestRefusedOffline(t, ch)
       PROVE  ConfirmInv'
  <2>1. spent \subseteq spent' /\ UNCHANGED <<rows, calls>>
    BY <1>10 DEF RequestRefusedOffline, StepUp, Destructive
  <2> QED
    BY <1>1, <2>1
<1>11. ASSUME (\E m \in reports : LoseReport(m)) \/ (\E a \in Agent : Revoke(a) \/ GoStale(a)) \/ Tick
       PROVE  ConfirmInv'
  <2>1. UNCHANGED <<rows, calls, spent>>
    BY <1>11 DEF LoseReport, Revoke, GoStale, Tick
  <2> QED
    BY <1>1, <2>1
<1>12. CASE UNCHANGED vars
  BY <1>1, <1>12 DEF vars
<1>13. TypeOK
  BY DEF IInv
<1> HIDE DEF agentVars, serviceVars
<1>14. ASSUME NEW k \in Caller, Member(k) PROVE ConfirmInv'
  BY <1>3, <1>4, <1>5, <1>13, <1>14, ConfirmCreate, ConfirmRequest DEF Member
<1>15. ASSUME NEW a \in Agent, Loop(a) PROVE ConfirmInv'
  BY <1>7, <1>8, <1>15 DEF Loop
<1>16. CASE Others
  BY <1>9, <1>10, <1>11, <1>16 DEF Others
<1> QED
  BY <1>6, <1>12, <1>14, <1>15, <1>16 DEF Next

(* A confirmation is good for one destructive command, however many        *)
(* requests carry it at once (verifyStepUp, challenges.consume).           *)
THEOREM ConfirmedOnce == Spec => []OneConfirmationOneCommand
<1>1. IInv /\ ConfirmInv /\ [Next]_vars => ConfirmInv'
  BY ConfirmStep
<1>2. ConfirmInv => OneConfirmationOneCommand
  BY DEF ConfirmInv
<1> QED
  BY <1>1, <1>2, ConfirmInit, InductiveInvariant, PTL DEF Spec
=============================================================================
