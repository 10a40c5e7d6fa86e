--------------------------- MODULE PowerCommands ---------------------------
(***************************************************************************)
(* Power commands end to end: the control plane (PowerService), the agents *)
(* (PowerAgent) and the connection between them, on which the answer to a  *)
(* poll or a report may be lost or come late.                              *)
(***************************************************************************)
EXTENDS PowerAgent

vars == <<serviceVars, agentVars>>

Init == ServiceInit /\ AgentInit

(* The members' requests.                                                  *)
Member(k) ==
  \/ \E action \in Actions, t \in Agent, h \in Agent \cup {None},
        ch \in Challenge \cup {None} :
       Request(k, action, t, h, ch) /\ UNCHANGED agentVars
  \/ CheckPending(k) /\ UNCHANGED agentVars
  \/ \E c \in Command : Create(k, c) /\ UNCHANGED agentVars
  \/ \E t \in Agent, c \in Command : FindCancellable(k, t, c) /\ UNCHANGED agentVars
  \/ Cancel(k) /\ UNCHANGED agentVars

(* A poll that the control plane is answering.                             *)
Serve(p) ==
  \/ \E c \in Command : Claim(p, c) /\ UNCHANGED agentVars
  \/ Receive(p)
  \/ LoseAnswer(p)

(* The loop of an agent, and its end.                                      *)
Handle(a) == \E e \in inbox[a] :
               Execute(a, e) \/ ExecuteInVain(a, e) \/ RefuseCommand(a, e)

Loop(a) ==
  \/ Heartbeat(a)
  \/ \E p \in Poll : StartPoll(a, p)
  \/ GiveUp(a)
  \/ Handle(a)
  \/ SendReport(a)
  \/ Restart(a)

Others ==
  \/ \E m \in reports : RecordResult(m) /\ UNCHANGED agentVars
  \/ \E m \in reports : LoseReport(m)
  \/ \E t \in Agent, ch \in Challenge :
       RequestRefusedOffline(t, ch) /\ UNCHANGED agentVars
  \/ \E a \in Agent : Revoke(a) /\ UNCHANGED agentVars
  \/ \E a \in Agent : GoStale(a) /\ UNCHANGED agentVars
  \/ Tick /\ UNCHANGED agentVars

Next ==
  \/ \E k \in Caller : Member(k)
  \/ \E p \in Poll : Serve(p)
  \/ \E a \in Agent : Loop(a)
  \/ Others

Spec == Init /\ [][Next]_vars

(* Time passes; a handler that has begun goes on; an answer arrives or is  *)
(* lost; the loop of an agent that runs fetches the key, handles what it   *)
(* has collected, and polls every three seconds.  Strong fairness of the   *)
(* poll only makes up for the bound on polls in progress: the control      *)
(* plane has no such bound, so a poll never waits for another to end.      *)
Fairness ==
  /\ WF_vars(Tick /\ UNCHANGED agentVars)
  /\ \A p \in Poll :
       /\ WF_vars(\E c \in Command : Claim(p, c) /\ UNCHANGED agentVars)
       /\ WF_vars(Receive(p) \/ LoseAnswer(p))
  /\ \A a \in Steady :
       /\ WF_vars(Handle(a))
       /\ WF_vars(SendReport(a))
       /\ SF_vars(\E p \in Poll : StartPoll(a, p))

FairSpec == Spec /\ Fairness
-----------------------------------------------------------------------------
(* Where a command's envelope is while it can still be acted on.           *)

SignedBy(p) == {e.id : e \in polls[p].signed}
HeldBy(a) == {e.id : e \in inbox[a]}

(* The envelope is in an answer somebody waits for, or in an inbox.        *)
Alive(c) ==
  \/ \E p \in Poll : c \in SignedBy(p) /\ awaiting[polls[p].agent] = p
  \/ \E a \in Agent : c \in HeldBy(a)

Phase(c) ==
  CASE rows[c].state = "none" -> "absent"
    [] ran[c].times > 0 -> "acted"
    [] ran[c].times = 0 /\ rows[c].delivered ->
         IF Alive(c) THEN "handed" ELSE "lapsed"
    [] ran[c].times = 0 /\ ~rows[c].delivered /\ rows[c].state \in Waiting -> "open"
    [] OTHER -> "withdrawn"

Told(c) ==
  CASE rows[c].state = "none" -> "nothing"
    [] rows[c].state \in Outstanding -> "waiting"
    [] rows[c].state \in {"cancelled", "expired"} -> "off"
    [] OTHER -> rows[c].state

Contract == INSTANCE PowerContract WITH
  clock <- now,
  phase <- [c \in Command |-> Phase(c)],
  earliest <- [c \in Command |-> rows[c].executeAt],
  told <- [c \in Command |-> Told(c)]

(* The commands implement their contract: nothing the two halves do, in    *)
(* any order, goes beyond what PowerContract allows.                       *)
ImplementsContract == Contract!Spec
-----------------------------------------------------------------------------
(* Types of all variables (schema.prisma PowerCommand; agent.go Agent).    *)
TypeOK ==
  /\ now \in Nat
  /\ rows \in [Command -> Row]
  /\ spent \subseteq Challenge
  /\ revoked \subseteq Agent
  /\ online \subseteq Agent
  /\ calls \in [Caller -> Call]
  /\ polls \in [Poll -> PollState]
  /\ reports \subseteq Report
  /\ knowsId \subseteq Agent
  /\ nonces \in [Agent -> SUBSET Envelope]
  /\ awaiting \in [Agent -> Poll \cup {None}]
  /\ inbox \in [Agent -> SUBSET Envelope]
  /\ acting \in [Agent -> Report \cup {None}]
  /\ ran \in [Command -> Run]

(* However polls overlap, answers are lost and agents are restarted with   *)
(* an empty replay guard, no command is carried out twice (collectFor      *)
(* claims before it signs, "so two polls cannot both collect").            *)
AtMostOnce == \A c \in Command : ran[c].times <= 1

(* A command is carried out after its countdown has run down on the        *)
(* control plane's clock, although only the control plane knows executeAt, *)
(* and before its expiry on the agent's own clock.                         *)
ActsWithinWindow ==
  \A c \in Command : ran[c].times > 0 =>
    /\ rows[c].executeAt <= ran[c].at
    /\ ran[c].at + Drift[ran[c].by] < rows[c].expiresAt

(* A wake is carried out by the helper that was chosen for it, never by    *)
(* the machine it wakes, even if that comes up and polls in the meantime;  *)
(* everything else by the target (collectFor's addressing).                *)
ActedByAddressee ==
  \A c \in Command : ran[c].times > 0 => ran[c].by = Addressee(rows[c])

(* "Ten seconds real rather than cosmetic": a cancel written before the    *)
(* countdown has run down is final, although cancelPending's write is      *)
(* unconditional and agents poll all the while.                            *)
CancelInCountdownIsFinal ==
  \A c \in Command :
    rows[c].cancelledAt # None /\ rows[c].cancelledAt < rows[c].executeAt
      => ran[c].times = 0 /\ ~rows[c].delivered

(* What the row finally says of a command that was carried out or not is   *)
(* true: "succeeded" only if a machine did it, and a withdrawn command     *)
(* that was never handed over was not done (recordResult, handlePower-     *)
(* Command's single report).                                               *)
ResultIsTrue ==
  \A c \in Command :
    /\ rows[c].state = "succeeded" => ran[c].times = 1
    /\ ~rows[c].delivered => ran[c].times = 0

(* One emailed confirmation authorises one destructive command, however    *)
(* many requests carry it at once: at every moment one request or one row  *)
(* holds it at most (verifyStepUp, challenges.consume).                    *)
OneConfirmationOneCommand ==
  /\ \A c, d \in Command :
       rows[c].confirmedBy # None /\ rows[c].confirmedBy = rows[d].confirmedBy => c = d
  /\ \A k, l \in Caller :
       calls[k].confirmedBy # None /\ calls[k].confirmedBy = calls[l].confirmedBy => k = l
  /\ \A c \in Command, k \in Caller :
       rows[c].confirmedBy # None => calls[k].confirmedBy # rows[c].confirmedBy
  /\ \A c \in Command :
       rows[c].state # "none" /\ Destructive(rows[c].action) => rows[c].confirmedBy # None

(* cancelPending's own words for what it has done: "Cancelled before it    *)
(* was sent".                                                              *)
CancelledBeforeSent ==
  \A c \in Command : rows[c].state = "cancelled" => ~rows[c].delivered

(* "One outstanding command per machine" (requestCommand).                 *)
OneOutstandingPerMachine ==
  \A c, d \in Command :
    (\E t \in Agent : {c, d} \subseteq PendingOn(t)) => c = d

(* Once a command is settled it is never outstanding again: a late claim   *)
(* does not revive what was cancelled or expired after the poll found it.  *)
(* The contract implies this: only a new command is told to be waiting.    *)
SettledStaysSettled ==
  [][\A c \in Command :
       rows[c].state \notin Outstanding \cup {"none"}
         => rows'[c].state \notin Outstanding \cup {"none"}]_vars

(* While one agent keeps running, of whatever Space, no command stays       *)
(* outstanding for ever: not one whose answer or report was lost, nor one   *)
(* for a machine that is gone (collectFor's sweep runs on every poll).      *)
EveryCommandSettles ==
  (\E a \in Steady : [](a \notin revoked)) =>
    \A c \in Command :
      rows[c].state \in Outstanding ~> rows[c].state \notin Outstanding
=============================================================================
