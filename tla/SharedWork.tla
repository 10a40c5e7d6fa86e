----------------------------- MODULE SharedWork ----------------------------
(***************************************************************************)
(* What a computer shares, and the transfers and print jobs it is sent     *)
(* (apps/api/src/files/files.service.ts), with the computers enrolled and  *)
(* revoked meanwhile.                                                      *)
(*                                                                         *)
(* Folders and printers are one resource of each computer.  The worker     *)
(* that collects and reports is external: at this commit the agent has no  *)
(* caller of agent/work.  Whether a computer is online is an input of each *)
(* request for work.                                                       *)
(***************************************************************************)
EXTENDS AgentEnrolment

VARIABLES
  resources,  \* resources[d]: what the control plane knows d can offer
  jobs,       \* jobs[j]: the row of print job j
  transfers   \* transfers[x]: the row of transfer x

workVars == <<resources, jobs, transfers>>

vars == <<enrolVars, workVars>>

JobRow == [state : {"none", "queued", "sent", "printing", "completed", "failed"},
           computer : Identity \cup {None}, document : BOOLEAN]

TransferRow == [state : {"none", "pending", "active", "completed", "failed", "cancelled"},
                computer : Identity \cup {None}]

Init ==
  /\ EnrolInit
  /\ resources = [d \in Identity |-> "unknown"]
  /\ jobs = [j \in Job |-> [state |-> "none", computer |-> None, document |-> FALSE]]
  /\ transfers = [x \in Transfer |-> [state |-> "none", computer |-> None]]
-----------------------------------------------------------------------------
(* reportResources: to be listed is not to be shared.                      *)
ReportResources ==
  LET d == process.identity
  IN /\ process.phase = "up" /\ process.current # None
     /\ Authentic(d) /\ d \in agents
     /\ resources[d] = "unknown"
     /\ resources' = [resources EXCEPT ![d] = "listed"]
     /\ UNCHANGED <<enrolVars, jobs, transfers>>

(* setResourceEnabled.                                                     *)
SetResourceEnabled(d, enabled) ==
  /\ resources[d] # "unknown"
  /\ resources' = [resources EXCEPT ![d] = IF enabled THEN "shared" ELSE "listed"]
  /\ UNCHANGED <<enrolVars, jobs, transfers>>

(* approveFolder: the owner names what nobody has reported.                *)
ApproveFolder(d) ==
  /\ d \in agents /\ devices[d] # "revoked"
  /\ resources' = [resources EXCEPT ![d] = "shared"]
  /\ UNCHANGED <<enrolVars, jobs, transfers>>
-----------------------------------------------------------------------------
(* submitPrintJob and startTransfer: the resource is looked at, then the   *)
(* row is created.                                                         *)
AskForWork(k, d) ==
  /\ In(k, "idle")
  /\ resources[d] = "shared" /\ devices[d] # "revoked"
  /\ calls' = [calls EXCEPT ![k] = [NoCall EXCEPT !.phase = "checked", !.identity = d]]
  /\ UNCHANGED <<tokens, devices, agents, disk, process, enrolments, workVars>>

SubmitPrintJob(k, j) ==
  /\ In(k, "checked")
  /\ jobs[j].state = "none"
  /\ jobs' = [jobs EXCEPT ![j] = [state |-> "queued", computer |-> calls[k].identity,
                                  document |-> TRUE]]
  /\ Ends(k)
  /\ UNCHANGED <<tokens, devices, agents, disk, process, enrolments, resources, transfers>>

StartTransfer(k, x) ==
  /\ In(k, "checked")
  /\ transfers[x].state = "none"
  /\ transfers' = [transfers EXCEPT ![x] = [state |-> "pending",
                                            computer |-> calls[k].identity]]
  /\ Ends(k)
  /\ UNCHANGED <<tokens, devices, agents, disk, process, enrolments, resources, jobs>>
-----------------------------------------------------------------------------
(* agentWork                                                               *)

PendingOf(d) ==
  {x \in Transfer : transfers[x].state = "pending" /\ transfers[x].computer = d}

QueuedOf(d) == {j \in Job : jobs[j].state = "queued" /\ jobs[j].computer = d}

(* The request is authenticated and the transfers are read.                *)
Collect(k, d) ==
  /\ In(k, "idle")
  /\ Authentic(d) /\ d \in agents
  /\ calls' = [calls EXCEPT ![k] = [NoCall EXCEPT
         !.phase = IF PendingOf(d) = {} THEN "looking" ELSE "activating",
         !.identity = d, !.items = PendingOf(d)]]
  /\ UNCHANGED <<tokens, devices, agents, disk, process, enrolments, workVars>>

(* By id, whatever has become of them.                                     *)
ActivateTransfers(k) ==
  /\ In(k, "activating")
  /\ transfers' = [x \in Transfer |->
       IF x \in calls[k].items THEN [transfers[x] EXCEPT !.state = "active"] ELSE transfers[x]]
  /\ Goes(k, "looking")
  /\ UNCHANGED <<tokens, devices, agents, disk, process, enrolments, resources, jobs>>

FindPrintJobs(k) ==
  LET found == QueuedOf(calls[k].identity)
  IN /\ In(k, "looking")
     /\ IF found = {} THEN Ends(k)
        ELSE calls' = [calls EXCEPT ![k].phase = "sending", ![k].items = found]
     /\ UNCHANGED <<tokens, devices, agents, disk, process, enrolments, workVars>>

(* Variants: the document stays with the row; the row gets the state of a  *)
(* transfer.                                                               *)
HandedOverAsTransfer(row) == [row EXCEPT !.state = "active", !.document = FALSE]
HandedOverKept(row) == [row EXCEPT !.state = "sent"]

HandedOver(row) == [row EXCEPT !.state = "sent", !.document = FALSE]

(* Marked sent and dropped, then handed over: an answer that is lost loses *)
(* the document.                                                           *)
SendPrintJobs(k) ==
  /\ In(k, "sending")
  /\ jobs' = [j \in Job |->
       IF j \in calls[k].items THEN HandedOver(jobs[j]) ELSE jobs[j]]
  /\ Ends(k)
  /\ UNCHANGED <<tokens, devices, agents, disk, process, enrolments, resources, transfers>>

(* recordPrintResult: whatever the state was.                              *)
RecordPrintResult(j, state) ==
  /\ jobs[j].state # "none"
  /\ Authentic(jobs[j].computer)
  /\ jobs' = [jobs EXCEPT ![j].state = state, ![j].document = FALSE]
  /\ UNCHANGED <<enrolVars, resources, transfers>>

(* recordProgress, by the computer or by the person who asked: whatever    *)
(* the state was.                                                          *)
RecordProgress(x, state) ==
  /\ transfers[x].state # "none"
  /\ state = "cancelled" \/ Authentic(transfers[x].computer)
  /\ transfers' = [transfers EXCEPT ![x].state = state]
  /\ UNCHANGED <<enrolVars, resources, jobs>>
-----------------------------------------------------------------------------
ServeEnrolment(k) == SpendToken(k) \/ Register(k) \/ Join(k) \/ AnswerEnrolment(k)

ServeWork(k) ==
  \/ \E j \in Job : SubmitPrintJob(k, j)
  \/ \E x \in Transfer : StartTransfer(k, x)
  \/ ActivateTransfers(k)
  \/ FindPrintJobs(k)
  \/ SendPrintJobs(k)

Owner ==
  \/ \E t \in Token : Mint(t) /\ UNCHANGED workVars
  \/ \E d \in Identity : Revoke(d) /\ UNCHANGED workVars
  \/ \E d \in Identity, enabled \in BOOLEAN : SetResourceEnabled(d, enabled)
  \/ \E d \in Identity : ApproveFolder(d)

Agent ==
  \/ Start /\ UNCHANGED workVars
  \/ \E k \in Call, t \in Token : Enroll(k, t) /\ UNCHANGED workVars
  \/ EnrolInVain /\ UNCHANGED workVars
  \/ \E outcome \in {"answered", "lost", "clock", "unrecorded"} : Beat(outcome) /\ UNCHANGED workVars
  \/ Reset /\ UNCHANGED workVars
  \/ Forget /\ UNCHANGED workVars
  \/ Stop /\ UNCHANGED workVars
  \/ ReportResources

Worker ==
  \/ \E j \in Job, state \in {"printing", "completed", "failed"} : RecordPrintResult(j, state)
  \/ \E x \in Transfer, state \in {"active", "completed", "failed", "cancelled"} :
       RecordProgress(x, state)

Next ==
  \/ \E k \in Call :
       \/ ServeEnrolment(k) /\ UNCHANGED workVars
       \/ ServeWork(k)
       \/ Fail(k) /\ UNCHANGED workVars
       \/ \E d \in Identity : AskForWork(k, d) \/ Collect(k, d)
  \/ Owner
  \/ Agent
  \/ Worker

Spec == Init /\ [][Next]_vars

(* A service that runs goes on: it waits for an answer 15 s at most, it    *)
(* finishes what it is removing, and, as often as it gets to its ticker,   *)
(* beats with an answer it receives.                                       *)
Fairness ==
  /\ WF_vars((EnrolInVain \/ Forget) /\ UNCHANGED workVars)
  /\ SF_vars(Beat("answered") /\ UNCHANGED workVars)

FairSpec == Spec /\ Fairness
-----------------------------------------------------------------------------
(* Types of all variables (schema.prisma Device, Agent,                    *)
(* AgentEnrollmentToken, PrintJob and FileTransfer; agent.go Agent).       *)
TypeOK ==
  /\ tokens \in [Token -> {"none", "live", "used"}]
  /\ devices \in [Identity -> {"none", "trusted", "revoked"}]
  /\ agents \subseteq Identity
  /\ disk \in Files
  /\ process \in ProcessState
  /\ calls \in [Call -> CallState]
  /\ enrolments \in [Token -> Nat]
  /\ resources \in [Identity -> {"unknown", "listed", "shared"}]
  /\ jobs \in [Job -> JobRow]
  /\ transfers \in [Transfer -> TransferRow]

(* "Two agents racing on the same token cannot both enroll", and a token   *)
(* whose answer was lost enrols nothing more: enroll's conditional update, *)
(* as one-time codes promise.                                              *)
TokenState(t) ==
  CASE enrolments[t] > 0 -> "used"
    [] enrolments[t] = 0 /\ tokens[t] = "used" -> "taken"
    [] enrolments[t] = 0 /\ tokens[t] = "live" -> "offered"
    [] enrolments[t] = 0 /\ tokens[t] = "none" -> "absent"

OneTime == INSTANCE OneTimeCode WITH
  Code <- Token, state <- [t \in Token |-> TokenState(t)], uses <- enrolments

TokensWorkOnce == OneTime!Spec

(* A computer that believes it is in a Space has the identity it was       *)
(* enrolled with, wherever it was killed while it enrolled or forgot (the  *)
(* order in which Enroll and ResetIdentity write and remove the files).    *)
EnrolledAsItself ==
  disk.space # None =>
    /\ disk.key = disk.space /\ disk.record = disk.space
    /\ disk.space \in agents

(* A document is "held briefly" and "dropped the instant" it is handed     *)
(* over, whatever polls and results overlap (agentWork and                 *)
(* recordPrintResult).                                                     *)
DocumentHeldWhileQueued ==
  \A j \in Job : jobs[j].document => jobs[j].state = "queued"

(* A computer that leaves its Space was revoked or reset, or the guard     *)
(* refused what it should have put off: a wrong clock, or a nonce it could *)
(* not store.  A lost answer, a crash half way through enrolling or        *)
(* forgetting, or a refused enrolment is no such cause (beat and           *)
(* forgetIdentity).                                                        *)
ForgottenForCause ==
  [][disk.space # None /\ disk'.space # disk.space =>
       \/ devices[disk.space] = "revoked"
       \/ process.cause \in {"clock", "unrecorded", "reset"}]_vars

(* An agent that keeps running as a revoked device finds out and forgets   *)
(* (beat's handling of ErrRejected).                                       *)
RevokedIsForgotten ==
  \A d \in Identity :
    process.current = d /\ devices[d] = "revoked" ~> process.current # d

(* A revoked computer for which nothing is being served any more.          *)
OutOfService(d) == devices[d] = "revoked" /\ \A k \in Call : calls[k].identity # d

(* Once the requests that came before the revocation are over, nothing is  *)
(* served for the computer ever again, and the documents of its jobs are   *)
(* not handed over (AgentSignatureGuard, enroll and agentWork).            *)
RevokedCollectsNothing ==
  [][\A d \in Identity :
       OutOfService(d) =>
         /\ OutOfService(d)'
         /\ \A j \in Job : jobs[j].computer = d => jobs'[j].document = jobs[j].document]_vars
=============================================================================
