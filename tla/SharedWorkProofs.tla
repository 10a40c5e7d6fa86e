-------------------------- MODULE SharedWorkProofs -------------------------
(***************************************************************************)
(* The safety properties of SharedWork, for every set of key pairs,        *)
(* tokens, requests, print jobs and transfers.                             *)
(*                                                                         *)
(* The argument.  The claim of a token leaves one request with it, and it  *)
(* has made no agent row yet.  Device and agent rows are never taken back. *)
(* The files are written and removed in an order that never leaves an      *)
(* enrolment without its key and record, and the request a process waits   *)
(* for was made with the key on disk, so that its answer fits the files.   *)
(* A job keeps its computer, and a request its identity, so that requests  *)
(* of other computers do not touch the jobs of one that is out of service. *)
(***************************************************************************)
EXTENDS SharedWork, TLAPS

EnrolTypeOK ==
  /\ tokens \in [Token -> {"none", "live", "used"}]
  /\ devices \in [Identity -> {"none", "trusted", "revoked"}]
  /\ agents \subseteq Identity
  /\ disk \in Files
  /\ process \in ProcessState
  /\ calls \in [Call -> CallState]
  /\ enrolments \in [Token -> Nat]

WorkTypeOK ==
  /\ resources \in [Identity -> {"unknown", "listed", "shared"}]
  /\ jobs \in [Job -> JobRow]
  /\ transfers \in [Transfer -> TransferRow]

(* A request that is being served has said who it is; one that enrols has  *)
(* a token.                                                                *)
CallsTypeOK ==
  \A k \in Call :
    /\ calls[k].phase # "idle" => calls[k].identity \in Identity
    /\ calls[k].phase \in {"spending", "registering", "joining", "answering"} =>
         calls[k].token \in Token

(* The process has an identity while it runs.                              *)
ProcessTypeOK ==
  /\ process.phase \in {"creating", "started", "enrolling"} => process.identity \in Identity
  /\ process.current # None => process.identity \in Identity

(* What may come of a beat.                                                *)
Outcomes == {"answered", "lost", "clock", "unrecorded"}

(* Who has claimed a token and has no agent row yet is alone with it.      *)
Holds(k) == calls[k].phase \in {"registering", "joining"}

TokenEnrolsOnce == \A t \in Token : enrolments[t] <= 1

TokensInv ==
  /\ TokenEnrolsOnce
  /\ \A t \in Token : enrolments[t] # 0 => tokens[t] = "used"
  /\ \A k \in Call :
       Holds(k) => tokens[calls[k].token] = "used" /\ enrolments[calls[k].token] = 0
  /\ \A k, m \in Call :
       Holds(k) /\ Holds(m) /\ calls[k].token = calls[m].token => k = m

(* A row is never taken back.                                              *)
DevicesInv ==
  /\ \A d \in agents : devices[d] # "none"
  /\ \A k \in Call :
       /\ calls[k].phase \in {"joining", "answering"} => devices[calls[k].identity] # "none"
       /\ calls[k].phase = "answering" => calls[k].identity \in agents

(* The files are of one key pair, those that are there.                    *)
FilesInv ==
  /\ disk.key # None /\ disk.record # None => disk.record = disk.key
  /\ EnrolledAsItself

Enrols(k) == calls[k].phase \in {"spending", "registering", "joining", "answering"}

(* What the process believes is what the files say, and the request it     *)
(* waits for is its own.                                                   *)
ProcessInv ==
  /\ ProcessTypeOK
  /\ process.phase = "creating" => disk.key = process.identity /\ disk.record = None
  /\ process.phase \in {"started", "enrolling"} =>
       disk.key = process.identity /\ disk.record = process.identity
  /\ process.phase \in {"started", "enrolling", "up"} => disk.space = process.current
  /\ process.current # None => process.current = process.identity
  /\ process.phase # "enrolling" => process.request = None
  /\ process.request # None /\ Enrols(process.request) =>
       calls[process.request].identity = process.identity
  /\ process.phase \in {"cleared", "keyless"} => disk.space = None
  /\ process.phase = "keyless" => disk.key = None
  /\ process.phase = "forgetting" =>
       /\ process.cause # "none"
       /\ process.cause = "refused" /\ disk.space # None => devices[disk.space] = "revoked"

(* A job stays the computer's it was made for.                             *)
JobsInv ==
  /\ \A j \in Job : jobs[j].state = "none" => jobs[j].computer = None
  /\ DocumentHeldWhileQueued
  /\ \A k \in Call :
       calls[k].phase = "sending" =>
         \A j \in calls[k].items :
           /\ j \in Job
           /\ jobs[j].state # "none"
           /\ jobs[j].computer = calls[k].identity

(* The inductive invariant.                                                *)
IInv ==
  /\ TypeOK
  /\ CallsTypeOK
  /\ TokensInv
  /\ DevicesInv
  /\ FilesInv
  /\ ProcessInv
  /\ JobsInv
-----------------------------------------------------------------------------
LEMMA SplitTypes == TypeOK <=> EnrolTypeOK /\ WorkTypeOK
BY DEF TypeOK, EnrolTypeOK, WorkTypeOK

LEMMA TypeInit == Init => TypeOK
BY DEF Init, EnrolInit, TypeOK, Files, ProcessState, NotRunning, CallState, NoCall, JobRow,
       TransferRow

Phases == {"idle", "spending", "registering", "joining", "answering",
           "checked", "activating", "looking", "sending"}

LEMMA GoesTypes ==
  ASSUME calls \in [Call -> CallState], NEW k \in Call, NEW phase \in Phases, Goes(k, phase)
  PROVE  calls' \in [Call -> CallState]
BY DEF Goes, CallState, Phases

LEMMA EndsTypes ==
  ASSUME calls \in [Call -> CallState], NEW k \in Call, Ends(k)
  PROVE  calls' \in [Call -> CallState]
BY DEF Ends, CallState, NoCall

LEMMA ServeEnrolmentTypes ==
  ASSUME EnrolTypeOK, CallsTypeOK, NEW k \in Call, ServeEnrolment(k)
  PROVE  EnrolTypeOK'
<1>1. CASE SpendToken(k)
  BY <1>1, GoesTypes, EndsTypes DEF SpendToken, EnrolTypeOK, CallsTypeOK, In, Phases
<1>2. CASE Register(k)
  BY <1>2, GoesTypes, EndsTypes DEF Register, EnrolTypeOK, CallsTypeOK, In, Phases
<1>3. CASE Join(k)
  BY <1>3, GoesTypes DEF Join, EnrolTypeOK, CallsTypeOK, In, Phases
<1>4. CASE AnswerEnrolment(k)
  <2>1. calls' \in [Call -> CallState]
    BY <1>4, EndsTypes DEF AnswerEnrolment, EnrolTypeOK
  <2>2. disk' \in Files /\ process' \in ProcessState
    <3>1. calls[k].identity \in Identity
      BY <1>4 DEF AnswerEnrolment, CallsTypeOK, In
    <3>2. /\ [disk EXCEPT !.space = calls[k].identity] \in Files
          /\ [process EXCEPT !.phase = "up", !.current = calls[k].identity,
                             !.request = None] \in ProcessState
      BY <3>1 DEF EnrolTypeOK, Files, ProcessState
    <3> QED BY <1>4, <3>2 DEF AnswerEnrolment, EnrolTypeOK, Saved
  <2> QED BY <1>4, <2>1, <2>2 DEF AnswerEnrolment, EnrolTypeOK
<1> QED BY <1>1, <1>2, <1>3, <1>4 DEF ServeEnrolment

LEMMA OtherEnrolmentTypes ==
  ASSUME EnrolTypeOK, CallsTypeOK, ProcessTypeOK,
         \/ \E k \in Call : Fail(k)
         \/ \E t \in Token : Mint(t)
         \/ \E d \in Identity : Revoke(d)
         \/ Start
         \/ \E k \in Call, t \in Token : Enroll(k, t)
         \/ EnrolInVain
         \/ \E outcome \in Outcomes : Beat(outcome)
         \/ Reset
         \/ Forget
         \/ Stop
  PROVE  EnrolTypeOK'
<1> USE DEF EnrolTypeOK
<1>1. ASSUME NEW k \in Call, Fail(k) PROVE EnrolTypeOK'
  BY <1>1, EndsTypes DEF Fail
<1>2. ASSUME NEW t \in Token, Mint(t) PROVE EnrolTypeOK'
  BY <1>2 DEF Mint
<1>3. ASSUME NEW d \in Identity, Revoke(d) PROVE EnrolTypeOK'
  BY <1>3 DEF Revoke
<1>4. CASE Start
  <2>1. CASE Load
    BY <2>1 DEF Load, Files, ProcessState, NotRunning
  <2>2. CASE CreateKey
    <3>1. PICK d \in Identity :
            /\ disk' = [disk EXCEPT !.key = d]
            /\ process' = [NotRunning EXCEPT !.phase = "creating", !.identity = d]
      BY <2>2 DEF CreateKey
    <3>2. disk' \in Files
      BY <3>1 DEF Files
    <3>3. process' \in ProcessState
      BY <3>1 DEF ProcessState, NotRunning
    <3> QED BY <2>2, <3>2, <3>3 DEF CreateKey
  <2>3. CASE CreateRecord
    BY <2>3 DEF CreateRecord, Files, ProcessState, ProcessTypeOK
  <2> QED BY <1>4, <2>1, <2>2, <2>3 DEF Start
<1>5. ASSUME NEW k \in Call, NEW t \in Token, Enroll(k, t) PROVE EnrolTypeOK'
  <2>1. process.identity \in Identity
    BY <1>5 DEF Enroll, ProcessTypeOK
  <2>2. calls' \in [Call -> CallState]
    BY <1>5, <2>1 DEF Enroll, CallState, NoCall
  <2>3. process' \in ProcessState
    BY <1>5 DEF Enroll, ProcessState
  <2> QED BY <1>5, <2>2, <2>3 DEF Enroll
<1>6. CASE EnrolInVain
  BY <1>6 DEF EnrolInVain, ProcessState
<1>7. ASSUME NEW outcome \in Outcomes, Beat(outcome) PROVE EnrolTypeOK'
  <2>1. CASE Refused(outcome)
    <3>1. PICK cause \in {"refused", "clock", "unrecorded"} :
            process' = [process EXCEPT !.phase = "forgetting", !.cause = cause]
      BY <1>7, <2>1 DEF Beat, Refused
    <3> QED BY <1>7, <3>1 DEF Beat, ProcessState
  <2>2. CASE ~Refused(outcome)
    BY <1>7, <2>2 DEF Beat, ProcessState
  <2> QED BY <2>1, <2>2
<1>8. CASE Reset
  BY <1>8 DEF Reset, ProcessState, NotRunning
<1>9. CASE Forget
  BY <1>9 DEF Forget, NextFile, ProcessState, NotRunning, Files
<1>10. CASE Stop
  BY <1>10 DEF Stop, ProcessState, NotRunning
<1> QED BY <1>1, <1>2, <1>3, <1>4, <1>5, <1>6, <1>7, <1>8, <1>9, <1>10

(* What the requests for work and the owner do to the types.               *)
LEMMA WorkTypes ==
  ASSUME EnrolTypeOK, WorkTypeOK, CallsTypeOK,
         \/ \E k \in Call : ServeWork(k)
         \/ \E k \in Call, d \in Identity : AskForWork(k, d) \/ Collect(k, d)
         \/ \E d \in Identity, enabled \in BOOLEAN : SetResourceEnabled(d, enabled)
         \/ \E d \in Identity : ApproveFolder(d)
         \/ ReportResources
         \/ Worker
  PROVE  EnrolTypeOK' /\ WorkTypeOK'
<1> USE DEF EnrolTypeOK, WorkTypeOK, workVars
<1>1. ASSUME NEW k \in Call, NEW j \in Job, SubmitPrintJob(k, j)
      PROVE  EnrolTypeOK' /\ WorkTypeOK'
  <2>1. jobs' \in [Job -> JobRow]
    BY <1>1 DEF SubmitPrintJob, CallsTypeOK, In, JobRow
  <2> QED BY <1>1, <2>1, EndsTypes DEF SubmitPrintJob
<1>2. ASSUME NEW k \in Call, NEW x \in Transfer, StartTransfer(k, x)
      PROVE  EnrolTypeOK' /\ WorkTypeOK'
  <2>1. transfers' \in [Transfer -> TransferRow]
    BY <1>2 DEF StartTransfer, CallsTypeOK, In, TransferRow
  <2> QED BY <1>2, <2>1, EndsTypes DEF StartTransfer
<1>3. ASSUME NEW k \in Call, ActivateTransfers(k) PROVE EnrolTypeOK' /\ WorkTypeOK'
  <2>1. transfers' \in [Transfer -> TransferRow]
    BY <1>3 DEF ActivateTransfers, TransferRow
  <2> QED BY <1>3, <2>1, GoesTypes DEF ActivateTransfers, Phases
<1>4. ASSUME NEW k \in Call, FindPrintJobs(k) PROVE EnrolTypeOK' /\ WorkTypeOK'
  <2>1. calls' \in [Call -> CallState]
    BY <1>4, EndsTypes DEF FindPrintJobs, QueuedOf, CallState
  <2> QED BY <1>4, <2>1 DEF FindPrintJobs
<1>5. ASSUME NEW k \in Call, SendPrintJobs(k) PROVE EnrolTypeOK' /\ WorkTypeOK'
  <2>1. jobs' \in [Job -> JobRow]
    <3>1. \A row \in JobRow : HandedOver(row) \in JobRow
      BY DEF HandedOver, JobRow
    <3> QED BY <1>5, <3>1 DEF SendPrintJobs
  <2> QED BY <1>5, <2>1, EndsTypes DEF SendPrintJobs
<1>6. ASSUME NEW k \in Call, NEW d \in Identity, AskForWork(k, d)
      PROVE  EnrolTypeOK' /\ WorkTypeOK'
  BY <1>6 DEF AskForWork, CallState, NoCall
<1>7. ASSUME NEW k \in Call, NEW d \in Identity, Collect(k, d)
      PROVE  EnrolTypeOK' /\ WorkTypeOK'
  BY <1>7 DEF Collect, CallState, NoCall, PendingOf
<1>8. ASSUME NEW d \in Identity, NEW enabled \in BOOLEAN, SetResourceEnabled(d, enabled)
      PROVE  EnrolTypeOK' /\ WorkTypeOK'
  BY <1>8 DEF SetResourceEnabled, enrolVars
<1>9. ASSUME NEW d \in Identity, ApproveFolder(d) PROVE EnrolTypeOK' /\ WorkTypeOK'
  BY <1>9 DEF ApproveFolder, enrolVars
<1>10. CASE ReportResources
  BY <1>10 DEF ReportResources, enrolVars
<1>11. ASSUME NEW j \in Job, NEW state \in {"printing", "completed", "failed"},
              RecordPrintResult(j, state)
       PROVE  EnrolTypeOK' /\ WorkTypeOK'
  <2>1. \A row \in JobRow : [row EXCEPT !.state = state, !.document = FALSE] \in JobRow
    BY DEF JobRow
  <2>2. jobs' = [jobs EXCEPT ![j] = [jobs[j] EXCEPT !.state = state, !.document = FALSE]]
    BY <1>11 DEF RecordPrintResult
  <2>3. jobs' \in [Job -> JobRow]
    BY <2>1, <2>2
  <2> QED BY <1>11, <2>3 DEF RecordPrintResult, enrolVars
<1>12. ASSUME NEW x \in Transfer, NEW state \in {"active", "completed", "failed", "cancelled"},
              RecordProgress(x, state)
       PROVE  EnrolTypeOK' /\ WorkTypeOK'
  BY <1>12 DEF RecordProgress, enrolVars, TransferRow
<1> QED BY <1>1, <1>2, <1>3, <1>4, <1>5, <1>6, <1>7, <1>8, <1>9, <1>10, <1>11, <1>12
        DEF ServeWork, Worker

LEMMA TypeStep ==
  ASSUME TypeOK, CallsTypeOK, ProcessTypeOK, [Next]_vars
  PROVE  TypeOK'
<1>1. CASE \/ \E k \in Call : ServeEnrolment(k) /\ UNCHANGED workVars
           \/ \E k \in Call : Fail(k) /\ UNCHANGED workVars
           \/ \E t \in Token : Mint(t) /\ UNCHANGED workVars
           \/ \E d \in Identity : Revoke(d) /\ UNCHANGED workVars
           \/ Start /\ UNCHANGED workVars
           \/ \E k \in Call, t \in Token : Enroll(k, t) /\ UNCHANGED workVars
           \/ EnrolInVain /\ UNCHANGED workVars
           \/ \E outcome \in Outcomes : Beat(outcome) /\ UNCHANGED workVars
           \/ Reset /\ UNCHANGED workVars
           \/ Forget /\ UNCHANGED workVars
           \/ Stop /\ UNCHANGED workVars
  <2>1. EnrolTypeOK'
    BY <1>1, SplitTypes, ServeEnrolmentTypes, OtherEnrolmentTypes
  <2>2. WorkTypeOK'
    BY <1>1, SplitTypes DEF WorkTypeOK, workVars
  <2> QED BY <2>1, <2>2 DEF TypeOK, EnrolTypeOK, WorkTypeOK
<1>2. CASE \/ \E k \in Call : ServeWork(k)
           \/ \E k \in Call, d \in Identity : AskForWork(k, d) \/ Collect(k, d)
           \/ \E d \in Identity, enabled \in BOOLEAN : SetResourceEnabled(d, enabled)
           \/ \E d \in Identity : ApproveFolder(d)
           \/ ReportResources
           \/ Worker
  <2>1. EnrolTypeOK' /\ WorkTypeOK'
    BY <1>2, SplitTypes, WorkTypes
  <2> QED BY <2>1 DEF TypeOK, EnrolTypeOK, WorkTypeOK
<1>3. CASE UNCHANGED vars
  BY <1>3 DEF vars, enrolVars, workVars, TypeOK
<1> QED BY <1>1, <1>2, <1>3 DEF Next, Owner, Agent, Outcomes
-----------------------------------------------------------------------------
(* What each action does to the invariant, part by part.                  *)

(* A request that ends, with nothing else done.                            *)
LEMMA EndsKeeps ==
  ASSUME IInv, TypeOK', NEW k \in Call, Ends(k),
         UNCHANGED <<tokens, devices, agents, disk, process, enrolments, workVars>>
  PROVE  IInv'
<1> USE DEF IInv, TypeOK, workVars, Ends, NoCall
<1>1. CallsTypeOK'
  BY DEF CallsTypeOK
<1>2. TokensInv'
  BY DEF TokensInv, TokenEnrolsOnce, Holds
<1>3. DevicesInv'
  BY DEF DevicesInv
<1>4. FilesInv'
  BY DEF FilesInv, EnrolledAsItself
<1>5. ProcessInv'
  BY DEF ProcessInv, ProcessTypeOK, Enrols
<1>6. JobsInv'
  BY DEF JobsInv, DocumentHeldWhileQueued
<1> QED BY <1>1, <1>2, <1>3, <1>4, <1>5, <1>6

LEMMA SpendTokenKeeps ==
  ASSUME IInv, TypeOK', NEW k \in Call, SpendToken(k), UNCHANGED workVars
  PROVE  IInv'
<1> USE DEF IInv, TypeOK, workVars
<1>1. CASE Spendable(calls[k].token)
  <2>1. /\ tokens' = [tokens EXCEPT ![calls[k].token] = "used"]
        /\ Goes(k, "registering")
        /\ UNCHANGED <<devices, agents, disk, process, enrolments>>
        /\ calls[k].phase = "spending" /\ calls[k].token \in Token
        /\ tokens[calls[k].token] = "live"
    BY <1>1 DEF SpendToken, In, Spendable, CallsTypeOK
  <2>2. CallsTypeOK'
    BY <2>1 DEF CallsTypeOK, Goes
  <2>3. TokensInv'
    BY <2>1 DEF TokensInv, TokenEnrolsOnce, Holds, CallsTypeOK, Goes
  <2>4. DevicesInv'
    BY <2>1 DEF DevicesInv, Goes
  <2>5. FilesInv'
    BY <2>1 DEF FilesInv, EnrolledAsItself
  <2>6. ProcessInv'
    BY <2>1 DEF ProcessInv, ProcessTypeOK, Enrols, Goes
  <2>7. JobsInv'
    BY <2>1 DEF JobsInv, DocumentHeldWhileQueued, Goes
  <2> QED BY <2>2, <2>3, <2>4, <2>5, <2>6, <2>7
<1>2. CASE ~Spendable(calls[k].token)
  BY <1>2, EndsKeeps DEF SpendToken
<1> QED BY <1>1, <1>2

LEMMA RegisterKeeps ==
  ASSUME IInv, TypeOK', NEW k \in Call, Register(k), UNCHANGED workVars
  PROVE  IInv'
<1> USE DEF IInv, TypeOK, workVars
<1>1. CASE devices[calls[k].identity] # "revoked"
  <2>1. /\ devices' = [devices EXCEPT ![calls[k].identity] = "trusted"]
        /\ Goes(k, "joining")
        /\ UNCHANGED <<tokens, agents, disk, process, enrolments>>
        /\ calls[k].phase = "registering" /\ calls[k].token \in Token
        /\ calls[k].identity \in Identity
    BY <1>1 DEF Register, In, CallsTypeOK
  <2>2. CallsTypeOK'
    BY <2>1 DEF CallsTypeOK, Goes
  <2>3. TokensInv'
    BY <2>1 DEF TokensInv, TokenEnrolsOnce, Holds, Goes
  <2>4. DevicesInv'
    BY <2>1 DEF DevicesInv, Goes
  <2>5. FilesInv'
    BY <2>1 DEF FilesInv, EnrolledAsItself
  <2>6. ProcessInv'
    BY <1>1, <2>1 DEF ProcessInv, ProcessTypeOK, Enrols, Goes
  <2>7. JobsInv'
    BY <2>1 DEF JobsInv, DocumentHeldWhileQueued, Goes
  <2> QED BY <2>2, <2>3, <2>4, <2>5, <2>6, <2>7
<1>2. CASE devices[calls[k].identity] = "revoked"
  BY <1>2, EndsKeeps DEF Register
<1> QED BY <1>1, <1>2

LEMMA JoinKeeps ==
  ASSUME IInv, TypeOK', NEW k \in Call, Join(k), UNCHANGED workVars
  PROVE  IInv'
<1> USE DEF IInv, TypeOK, workVars
<1>1. CallsTypeOK'
  BY DEF Join, In, Goes, CallsTypeOK
<1>2. TokensInv'
  BY DEF Join, In, Goes, TokensInv, TokenEnrolsOnce, Holds, CallsTypeOK
<1>3. DevicesInv'
  BY DEF Join, In, Goes, DevicesInv
<1>4. FilesInv'
  BY DEF Join, In, Goes, FilesInv, EnrolledAsItself
<1>5. ProcessInv'
  BY DEF Join, In, Goes, ProcessInv, ProcessTypeOK, Enrols
<1>6. JobsInv'
  BY DEF Join, In, Goes, JobsInv, DocumentHeldWhileQueued
<1> QED BY <1>1, <1>2, <1>3, <1>4, <1>5, <1>6

LEMMA AnswerEnrolmentKeeps ==
  ASSUME IInv, TypeOK', NEW k \in Call, AnswerEnrolment(k), UNCHANGED workVars
  PROVE  IInv'
<1> USE DEF IInv, TypeOK, workVars
<1>1. CallsTypeOK'
  BY DEF AnswerEnrolment, In, Ends, NoCall, Saved, CallsTypeOK
<1>2. TokensInv'
  BY DEF AnswerEnrolment, In, Ends, NoCall, Saved, TokensInv, TokenEnrolsOnce, Holds
<1>3. DevicesInv'
  BY DEF AnswerEnrolment, In, Ends, NoCall, Saved, DevicesInv
<1>4. FilesInv'
  <2>1. CASE process.request = k
    <3>1. disk.key = calls[k].identity /\ disk.record = calls[k].identity
      BY <2>1, EnrolmentConstants DEF AnswerEnrolment, In, ProcessInv, Enrols
    <3>2. calls[k].identity \in agents
      BY DEF AnswerEnrolment, In, DevicesInv
    <3> QED BY <2>1, <3>1, <3>2 DEF AnswerEnrolment, Saved, Files, FilesInv, EnrolledAsItself
  <2>2. CASE process.request # k
    BY <2>2 DEF AnswerEnrolment, FilesInv, EnrolledAsItself
  <2> QED BY <2>1, <2>2
<1>5. ProcessInv'
  <2>1. CASE process.request = k
    <3>1. /\ calls[k].identity = process.identity
          /\ process.phase = "enrolling"
          /\ process.identity \in Identity
      BY <2>1, EnrolmentConstants DEF AnswerEnrolment, In, ProcessInv, ProcessTypeOK, Enrols
    <3>2. /\ disk' = [disk EXCEPT !.space = process.identity]
          /\ process' = [process EXCEPT !.phase = "up", !.current = process.identity,
                                        !.request = None]
      BY <2>1, <3>1 DEF AnswerEnrolment, Saved
    <3> QED BY <3>1, <3>2 DEF Files, ProcessState, ProcessInv, ProcessTypeOK
  <2>2. CASE process.request # k
    BY <2>2 DEF AnswerEnrolment, Ends, NoCall, ProcessInv, ProcessTypeOK, Enrols
  <2> QED BY <2>1, <2>2
<1>6. JobsInv'
  BY DEF AnswerEnrolment, In, Ends, NoCall, Saved, JobsInv, DocumentHeldWhileQueued
<1> QED BY <1>1, <1>2, <1>3, <1>4, <1>5, <1>6

LEMMA FailKeeps ==
  ASSUME IInv, TypeOK', NEW k \in Call, Fail(k), UNCHANGED workVars
  PROVE  IInv'
<1> USE DEF IInv, TypeOK, workVars
<1>1. CallsTypeOK'
  BY DEF Fail, In, Ends, NoCall, CallsTypeOK
<1>2. TokensInv'
  BY DEF Fail, In, Ends, NoCall, TokensInv, TokenEnrolsOnce, Holds
<1>3. DevicesInv'
  BY DEF Fail, In, Ends, NoCall, DevicesInv
<1>4. FilesInv'
  BY DEF Fail, In, Ends, NoCall, FilesInv, EnrolledAsItself
<1>5. ProcessInv'
  BY DEF Fail, In, Ends, NoCall, ProcessInv, ProcessTypeOK, Enrols
<1>6. JobsInv'
  BY DEF Fail, In, Ends, NoCall, JobsInv, DocumentHeldWhileQueued
<1> QED BY <1>1, <1>2, <1>3, <1>4, <1>5, <1>6

LEMMA MintKeeps ==
  ASSUME IInv, TypeOK', NEW t \in Token, Mint(t), UNCHANGED workVars
  PROVE  IInv'
<1> USE DEF IInv, TypeOK, workVars
<1>1. CallsTypeOK'
  BY DEF Mint, CallsTypeOK
<1>2. TokensInv'
  BY DEF Mint, TokensInv, TokenEnrolsOnce, Holds
<1>3. DevicesInv'
  BY DEF Mint, DevicesInv
<1>4. FilesInv'
  BY DEF Mint, FilesInv, EnrolledAsItself
<1>5. ProcessInv'
  BY DEF Mint, ProcessInv, ProcessTypeOK, Enrols
<1>6. JobsInv'
  BY DEF Mint, JobsInv, DocumentHeldWhileQueued
<1> QED BY <1>1, <1>2, <1>3, <1>4, <1>5, <1>6

LEMMA RevokeKeeps ==
  ASSUME IInv, TypeOK', NEW d \in Identity, Revoke(d), UNCHANGED workVars
  PROVE  IInv'
<1> USE DEF IInv, TypeOK, workVars
<1>1. CallsTypeOK'
  BY DEF Revoke, CallsTypeOK
<1>2. TokensInv'
  BY DEF Revoke, TokensInv, TokenEnrolsOnce, Holds
<1>3. DevicesInv'
  BY DEF Revoke, DevicesInv
<1>4. FilesInv'
  BY DEF Revoke, FilesInv, EnrolledAsItself
<1>5. ProcessInv'
  BY DEF Revoke, ProcessInv, ProcessTypeOK, Enrols
<1>6. JobsInv'
  BY DEF Revoke, JobsInv, DocumentHeldWhileQueued
<1> QED BY <1>1, <1>2, <1>3, <1>4, <1>5, <1>6

LEMMA LoadKeeps ==
  ASSUME IInv, TypeOK', Load, UNCHANGED workVars
  PROVE  IInv'
<1> USE DEF IInv, TypeOK, workVars
<1>1. /\ UNCHANGED <<tokens, devices, agents, disk, calls, enrolments>>
      /\ disk.record \in Identity /\ disk.key = disk.record
      /\ disk.space # None => disk.space = disk.record
  BY DEF Load, Files, FilesInv, EnrolledAsItself
<1>2. /\ process'.phase = "started" /\ process'.request = None
      /\ process'.identity = disk.record /\ process'.current = disk.space
  BY DEF Load, NotRunning
<1>3. CallsTypeOK' /\ TokensInv' /\ DevicesInv' /\ FilesInv' /\ JobsInv'
  BY <1>1 DEF CallsTypeOK, TokensInv, TokenEnrolsOnce, Holds, DevicesInv, FilesInv,
              EnrolledAsItself, JobsInv, DocumentHeldWhileQueued
<1>4. ProcessInv'
  BY <1>1, <1>2 DEF ProcessInv, ProcessTypeOK
<1> QED BY <1>3, <1>4

(* Where there is no record there is no enrolment, so that no enrolment    *)
(* loses its key.                                                          *)
LEMMA CreateKeyKeeps ==
  ASSUME IInv, TypeOK', CreateKey, UNCHANGED workVars
  PROVE  IInv'
<1> USE EnrolmentConstants DEF IInv, TypeOK, workVars
<1>1. PICK d \in Identity : /\ disk' = [disk EXCEPT !.key = d]
                            /\ process' = [NotRunning EXCEPT !.phase = "creating", !.identity = d]
  BY DEF CreateKey
<1>2. /\ UNCHANGED <<tokens, devices, agents, calls, enrolments>>
      /\ disk'.key = d /\ disk'.record = None /\ disk'.space = None
  BY <1>1 DEF CreateKey, Files, FilesInv, EnrolledAsItself
<1>3. /\ process'.phase = "creating" /\ process'.request = None
      /\ process'.identity = d /\ process'.current = None
  BY <1>1 DEF NotRunning
<1>4. CallsTypeOK' /\ TokensInv' /\ DevicesInv' /\ JobsInv'
  BY <1>2 DEF CallsTypeOK, TokensInv, TokenEnrolsOnce, Holds, DevicesInv, JobsInv,
              DocumentHeldWhileQueued
<1>5. FilesInv' /\ ProcessInv'
  BY <1>2, <1>3 DEF FilesInv, EnrolledAsItself, ProcessInv, ProcessTypeOK
<1> QED BY <1>4, <1>5

LEMMA CreateRecordKeeps ==
  ASSUME IInv, TypeOK', CreateRecord, UNCHANGED workVars
  PROVE  IInv'
<1> USE EnrolmentConstants DEF IInv, TypeOK, workVars
<1>1. /\ UNCHANGED <<tokens, devices, agents, calls, enrolments>>
      /\ disk.space = None /\ disk.key = process.identity
      /\ process.identity \in Identity /\ process.request = None
  BY DEF CreateRecord, FilesInv, EnrolledAsItself, ProcessInv, ProcessTypeOK
<1>2. /\ disk'.key = process.identity /\ disk'.record = process.identity
      /\ disk'.space = None
  BY <1>1 DEF CreateRecord, Files
<1>3. /\ process'.phase = "started" /\ process'.request = None
      /\ process'.identity = process.identity /\ process'.current = None
  BY <1>1 DEF CreateRecord, ProcessState
<1>4. CallsTypeOK' /\ TokensInv' /\ DevicesInv' /\ JobsInv'
  BY <1>1 DEF CallsTypeOK, TokensInv, TokenEnrolsOnce, Holds, DevicesInv, JobsInv,
              DocumentHeldWhileQueued
<1>5. FilesInv' /\ ProcessInv'
  BY <1>1, <1>2, <1>3 DEF FilesInv, EnrolledAsItself, ProcessInv, ProcessTypeOK
<1> QED BY <1>4, <1>5

LEMMA EnrollKeeps ==
  ASSUME IInv, TypeOK', NEW k \in Call, NEW t \in Token, Enroll(k, t), UNCHANGED workVars
  PROVE  IInv'
<1> USE DEF IInv, TypeOK, workVars
<1>1. CallsTypeOK'
  BY DEF Enroll, In, NoCall, CallsTypeOK, ProcessInv, ProcessTypeOK
<1>2. TokensInv'
  BY DEF Enroll, In, NoCall, TokensInv, TokenEnrolsOnce, Holds
<1>3. DevicesInv'
  BY DEF Enroll, In, NoCall, DevicesInv
<1>4. FilesInv'
  BY DEF Enroll, In, NoCall, FilesInv, EnrolledAsItself
<1>5. ProcessInv'
  BY DEF Enroll, In, NoCall, ProcessInv, ProcessTypeOK, Enrols
<1>6. JobsInv'
  BY DEF Enroll, In, NoCall, JobsInv, DocumentHeldWhileQueued
<1> QED BY <1>1, <1>2, <1>3, <1>4, <1>5, <1>6

LEMMA EnrolInVainKeeps ==
  ASSUME IInv, TypeOK', EnrolInVain, UNCHANGED workVars
  PROVE  IInv'
<1> USE DEF IInv, TypeOK, workVars
<1>1. CallsTypeOK'
  BY DEF EnrolInVain, CallsTypeOK
<1>2. TokensInv'
  BY DEF EnrolInVain, TokensInv, TokenEnrolsOnce, Holds
<1>3. DevicesInv'
  BY DEF EnrolInVain, DevicesInv
<1>4. FilesInv'
  BY DEF EnrolInVain, FilesInv, EnrolledAsItself
<1>5. ProcessInv'
  BY DEF EnrolInVain, ProcessInv, ProcessTypeOK, Enrols
<1>6. JobsInv'
  BY DEF EnrolInVain, JobsInv, DocumentHeldWhileQueued
<1> QED BY <1>1, <1>2, <1>3, <1>4, <1>5, <1>6

LEMMA BeatKeeps ==
  ASSUME IInv, TypeOK', NEW outcome \in Outcomes, Beat(outcome), UNCHANGED workVars
  PROVE  IInv'
<1> USE DEF IInv, TypeOK, workVars
<1>1. CallsTypeOK'
  BY DEF Beat, Refused, Authentic, CallsTypeOK
<1>2. TokensInv'
  BY DEF Beat, Refused, Authentic, TokensInv, TokenEnrolsOnce, Holds
<1>3. DevicesInv'
  BY DEF Beat, Refused, Authentic, DevicesInv
<1>4. FilesInv'
  BY DEF Beat, Refused, Authentic, FilesInv, EnrolledAsItself
<1>5. ProcessInv'
  <2>1. /\ process.phase \in {"started", "up"} /\ process.current # None
        /\ disk.space = process.identity /\ disk.space \in agents
        /\ UNCHANGED <<devices, disk, calls>>
    BY DEF Beat, ProcessInv, FilesInv, EnrolledAsItself
  <2>2. devices[process.identity] # "none"
    BY <2>1 DEF DevicesInv
  <2>3. CASE Refused(outcome)
    <3>1. /\ process'.phase = "forgetting" /\ process'.request = process.request
          /\ process'.identity = process.identity /\ process'.current = process.current
          /\ process'.cause = IF outcome = "answered" THEN "refused" ELSE outcome
      BY <2>3 DEF Beat, ProcessState
    <3>2. process'.cause = "refused" => devices[process.identity] = "revoked"
      BY <2>1, <2>2, <2>3, <3>1 DEF Refused, Authentic
    <3>3. process'.cause # "none"
      BY <3>1 DEF Outcomes
    <3> QED BY <2>1, <3>1, <3>2, <3>3 DEF ProcessInv, ProcessTypeOK, Enrols
  <2>4. CASE ~Refused(outcome)
    <3>1. process' = [process EXCEPT !.phase = "up"]
      BY <2>4 DEF Beat
    <3> QED BY <2>1, <3>1 DEF ProcessInv, ProcessTypeOK, Enrols, ProcessState
  <2> QED BY <2>3, <2>4
<1>6. JobsInv'
  BY DEF Beat, Refused, Authentic, JobsInv, DocumentHeldWhileQueued
<1> QED BY <1>1, <1>2, <1>3, <1>4, <1>5, <1>6

LEMMA ResetKeeps ==
  ASSUME IInv, TypeOK', Reset, UNCHANGED workVars
  PROVE  IInv'
<1> USE DEF IInv, TypeOK, workVars
<1>1. CallsTypeOK'
  BY DEF Reset, NotRunning, CallsTypeOK
<1>2. TokensInv'
  BY DEF Reset, NotRunning, TokensInv, TokenEnrolsOnce, Holds
<1>3. DevicesInv'
  BY DEF Reset, NotRunning, DevicesInv
<1>4. FilesInv'
  BY DEF Reset, NotRunning, FilesInv, EnrolledAsItself
<1>5. ProcessInv'
  BY DEF Reset, NotRunning, ProcessInv, ProcessTypeOK, Enrols
<1>6. JobsInv'
  BY DEF Reset, NotRunning, JobsInv, DocumentHeldWhileQueued
<1> QED BY <1>1, <1>2, <1>3, <1>4, <1>5, <1>6

LEMMA ForgetKeeps ==
  ASSUME IInv, TypeOK', Forget, UNCHANGED workVars
  PROVE  IInv'
<1> USE DEF IInv, TypeOK, workVars
<1>1. CallsTypeOK'
  BY DEF Forget, NextFile, NotRunning, CallsTypeOK
<1>2. TokensInv'
  BY DEF Forget, NextFile, NotRunning, TokensInv, TokenEnrolsOnce, Holds
<1>3. DevicesInv'
  BY DEF Forget, NextFile, NotRunning, DevicesInv
<1>4. FilesInv'
  <2>1. CASE process.phase = "forgetting"
    <3>1. disk' = [disk EXCEPT !.space = None]
      BY <2>1 DEF Forget, NextFile
    <3> QED BY <3>1 DEF Files, FilesInv, EnrolledAsItself
  <2>2. CASE process.phase = "cleared"
    <3>1. disk' = [disk EXCEPT !.key = None]
      BY <2>2 DEF Forget, NextFile
    <3> QED BY <2>2, <3>1 DEF Files, FilesInv, EnrolledAsItself, ProcessInv
  <2>3. CASE process.phase = "keyless"
    <3>1. disk' = [disk EXCEPT !.record = None]
      BY <2>3 DEF Forget, NextFile
    <3> QED BY <2>3, <3>1 DEF Files, FilesInv, EnrolledAsItself, ProcessInv
  <2> QED BY <2>1, <2>2, <2>3 DEF Forget
<1>5. ProcessInv'
  <2>1. CASE process.phase = "forgetting"
    <3>1. /\ disk' = [disk EXCEPT !.space = None]
          /\ process' = [process EXCEPT !.phase = "cleared"]
          /\ UNCHANGED calls
      BY <2>1 DEF Forget, NextFile
    <3> QED BY <2>1, <3>1 DEF Files, ProcessState, ProcessInv, ProcessTypeOK, Enrols
  <2>2. CASE process.phase = "cleared"
    <3>1. /\ disk' = [disk EXCEPT !.key = None]
          /\ process' = [process EXCEPT !.phase = "keyless"]
          /\ UNCHANGED calls
      BY <2>2 DEF Forget, NextFile
    <3> QED BY <2>2, <3>1 DEF Files, ProcessState, ProcessInv, ProcessTypeOK, Enrols
  <2>3. CASE process.phase = "keyless"
    <3>1. disk' = [disk EXCEPT !.record = None]
      BY <2>3 DEF Forget, NextFile
    <3>2. process' = IF process.cause = "reset" THEN NotRunning
                     ELSE [process EXCEPT !.phase = "up", !.current = None, !.cause = "none"]
      BY <2>3 DEF Forget
    <3>3. /\ process'.phase \in {"up", "down"}
          /\ process'.current = None /\ process'.request = None
      BY <2>3, <3>2 DEF NotRunning, ProcessState, ProcessInv
    <3> QED BY <2>3, <3>1, <3>3 DEF Files, ProcessInv, ProcessTypeOK
  <2> QED BY <2>1, <2>2, <2>3 DEF Forget
<1>6. JobsInv'
  BY DEF Forget, NextFile, NotRunning, JobsInv, DocumentHeldWhileQueued
<1> QED BY <1>1, <1>2, <1>3, <1>4, <1>5, <1>6

LEMMA StopKeeps ==
  ASSUME IInv, TypeOK', Stop, UNCHANGED workVars
  PROVE  IInv'
<1> USE DEF IInv, TypeOK, workVars
<1>1. CallsTypeOK'
  BY DEF Stop, NotRunning, CallsTypeOK
<1>2. TokensInv'
  BY DEF Stop, NotRunning, TokensInv, TokenEnrolsOnce, Holds
<1>3. DevicesInv'
  BY DEF Stop, NotRunning, DevicesInv
<1>4. FilesInv'
  BY DEF Stop, NotRunning, FilesInv, EnrolledAsItself
<1>5. ProcessInv'
  BY DEF Stop, NotRunning, ProcessInv, ProcessTypeOK, Enrols
<1>6. JobsInv'
  BY DEF Stop, NotRunning, JobsInv, DocumentHeldWhileQueued
<1> QED BY <1>1, <1>2, <1>3, <1>4, <1>5, <1>6

LEMMA ReportResourcesKeeps ==
  ASSUME IInv, TypeOK', ReportResources
  PROVE  IInv'
<1> USE DEF IInv, TypeOK, workVars, enrolVars
<1>1. CallsTypeOK'
  BY DEF ReportResources, CallsTypeOK
<1>2. TokensInv'
  BY DEF ReportResources, TokensInv, TokenEnrolsOnce, Holds
<1>3. DevicesInv'
  BY DEF ReportResources, DevicesInv
<1>4. FilesInv'
  BY DEF ReportResources, FilesInv, EnrolledAsItself
<1>5. ProcessInv'
  BY DEF ReportResources, ProcessInv, ProcessTypeOK, Enrols
<1>6. JobsInv'
  BY DEF ReportResources, JobsInv, DocumentHeldWhileQueued
<1> QED BY <1>1, <1>2, <1>3, <1>4, <1>5, <1>6

LEMMA SetResourceEnabledKeeps ==
  ASSUME IInv, TypeOK', NEW d \in Identity, NEW enabled \in BOOLEAN, SetResourceEnabled(d, enabled)
  PROVE  IInv'
<1> USE DEF IInv, TypeOK, workVars, enrolVars
<1>1. CallsTypeOK'
  BY DEF SetResourceEnabled, CallsTypeOK
<1>2. TokensInv'
  BY DEF SetResourceEnabled, TokensInv, TokenEnrolsOnce, Holds
<1>3. DevicesInv'
  BY DEF SetResourceEnabled, DevicesInv
<1>4. FilesInv'
  BY DEF SetResourceEnabled, FilesInv, EnrolledAsItself
<1>5. ProcessInv'
  BY DEF SetResourceEnabled, ProcessInv, ProcessTypeOK, Enrols
<1>6. JobsInv'
  BY DEF SetResourceEnabled, JobsInv, DocumentHeldWhileQueued
<1> QED BY <1>1, <1>2, <1>3, <1>4, <1>5, <1>6

LEMMA ApproveFolderKeeps ==
  ASSUME IInv, TypeOK', NEW d \in Identity, ApproveFolder(d)
  PROVE  IInv'
<1> USE DEF IInv, TypeOK, workVars, enrolVars
<1>1. CallsTypeOK'
  BY DEF ApproveFolder, CallsTypeOK
<1>2. TokensInv'
  BY DEF ApproveFolder, TokensInv, TokenEnrolsOnce, Holds
<1>3. DevicesInv'
  BY DEF ApproveFolder, DevicesInv
<1>4. FilesInv'
  BY DEF ApproveFolder, FilesInv, EnrolledAsItself
<1>5. ProcessInv'
  BY DEF ApproveFolder, ProcessInv, ProcessTypeOK, Enrols
<1>6. JobsInv'
  BY DEF ApproveFolder, JobsInv, DocumentHeldWhileQueued
<1> QED BY <1>1, <1>2, <1>3, <1>4, <1>5, <1>6

LEMMA AskForWorkKeeps ==
  ASSUME IInv, TypeOK', NEW k \in Call, NEW d \in Identity, AskForWork(k, d)
  PROVE  IInv'
<1> USE DEF IInv, TypeOK, workVars, enrolVars
<1>1. CallsTypeOK'
  BY DEF AskForWork, In, NoCall, CallsTypeOK
<1>2. TokensInv'
  BY DEF AskForWork, In, NoCall, TokensInv, TokenEnrolsOnce, Holds
<1>3. DevicesInv'
  BY DEF AskForWork, In, NoCall, DevicesInv
<1>4. FilesInv'
  BY DEF AskForWork, In, NoCall, FilesInv, EnrolledAsItself
<1>5. ProcessInv'
  BY DEF AskForWork, In, NoCall, ProcessInv, ProcessTypeOK, Enrols
<1>6. JobsInv'
  BY DEF AskForWork, In, NoCall, JobsInv, DocumentHeldWhileQueued
<1> QED BY <1>1, <1>2, <1>3, <1>4, <1>5, <1>6

LEMMA SubmitPrintJobKeeps ==
  ASSUME IInv, TypeOK', NEW k \in Call, NEW j \in Job, SubmitPrintJob(k, j)
  PROVE  IInv'
<1> USE DEF IInv, TypeOK, workVars, enrolVars
<1>1. CallsTypeOK'
  BY DEF SubmitPrintJob, In, Ends, NoCall, CallsTypeOK
<1>2. TokensInv'
  BY DEF SubmitPrintJob, In, Ends, NoCall, TokensInv, TokenEnrolsOnce, Holds
<1>3. DevicesInv'
  BY DEF SubmitPrintJob, In, Ends, NoCall, DevicesInv
<1>4. FilesInv'
  BY DEF SubmitPrintJob, In, Ends, NoCall, FilesInv, EnrolledAsItself
<1>5. ProcessInv'
  BY DEF SubmitPrintJob, In, Ends, NoCall, ProcessInv, ProcessTypeOK, Enrols
<1>6. JobsInv'
  BY DEF SubmitPrintJob, In, Ends, NoCall, JobsInv, DocumentHeldWhileQueued
<1> QED BY <1>1, <1>2, <1>3, <1>4, <1>5, <1>6

LEMMA StartTransferKeeps ==
  ASSUME IInv, TypeOK', NEW k \in Call, NEW x \in Transfer, StartTransfer(k, x)
  PROVE  IInv'
<1> USE DEF IInv, TypeOK, workVars, enrolVars
<1>1. CallsTypeOK'
  BY DEF StartTransfer, In, Ends, NoCall, CallsTypeOK
<1>2. TokensInv'
  BY DEF StartTransfer, In, Ends, NoCall, TokensInv, TokenEnrolsOnce, Holds
<1>3. DevicesInv'
  BY DEF StartTransfer, In, Ends, NoCall, DevicesInv
<1>4. FilesInv'
  BY DEF StartTransfer, In, Ends, NoCall, FilesInv, EnrolledAsItself
<1>5. ProcessInv'
  BY DEF StartTransfer, In, Ends, NoCall, ProcessInv, ProcessTypeOK, Enrols
<1>6. JobsInv'
  BY DEF StartTransfer, In, Ends, NoCall, JobsInv, DocumentHeldWhileQueued
<1> QED BY <1>1, <1>2, <1>3, <1>4, <1>5, <1>6

LEMMA CollectKeeps ==
  ASSUME IInv, TypeOK', NEW k \in Call, NEW d \in Identity, Collect(k, d)
  PROVE  IInv'
<1> USE DEF IInv, TypeOK, workVars, enrolVars
<1>1. CallsTypeOK'
  BY DEF Collect, In, NoCall, CallsTypeOK
<1>2. TokensInv'
  BY DEF Collect, In, NoCall, TokensInv, TokenEnrolsOnce, Holds
<1>3. DevicesInv'
  BY DEF Collect, In, NoCall, DevicesInv
<1>4. FilesInv'
  BY DEF Collect, In, NoCall, FilesInv, EnrolledAsItself
<1>5. ProcessInv'
  BY DEF Collect, In, NoCall, ProcessInv, ProcessTypeOK, Enrols
<1>6. JobsInv'
  BY DEF Collect, In, NoCall, JobsInv, DocumentHeldWhileQueued
<1> QED BY <1>1, <1>2, <1>3, <1>4, <1>5, <1>6

LEMMA ActivateTransfersKeeps ==
  ASSUME IInv, TypeOK', NEW k \in Call, ActivateTransfers(k)
  PROVE  IInv'
<1> USE DEF IInv, TypeOK, workVars, enrolVars
<1>1. CallsTypeOK'
  BY DEF ActivateTransfers, In, Goes, CallsTypeOK
<1>2. TokensInv'
  BY DEF ActivateTransfers, In, Goes, TokensInv, TokenEnrolsOnce, Holds
<1>3. DevicesInv'
  BY DEF ActivateTransfers, In, Goes, DevicesInv
<1>4. FilesInv'
  BY DEF ActivateTransfers, In, Goes, FilesInv, EnrolledAsItself
<1>5. ProcessInv'
  BY DEF ActivateTransfers, In, Goes, ProcessInv, ProcessTypeOK, Enrols
<1>6. JobsInv'
  BY DEF ActivateTransfers, In, Goes, JobsInv, DocumentHeldWhileQueued
<1> QED BY <1>1, <1>2, <1>3, <1>4, <1>5, <1>6

LEMMA FindPrintJobsKeeps ==
  ASSUME IInv, TypeOK', NEW k \in Call, FindPrintJobs(k)
  PROVE  IInv'
<1> USE DEF IInv, TypeOK, workVars, enrolVars
<1> DEFINE found == QueuedOf(calls[k].identity)
<1>1. CASE found # {}
  <2>1. /\ calls' = [calls EXCEPT ![k].phase = "sending", ![k].items = found]
        /\ UNCHANGED <<tokens, devices, agents, disk, process, enrolments, workVars>>
        /\ calls[k].phase = "looking"
    BY <1>1 DEF FindPrintJobs, In
  <2>2. \A j \in found : /\ j \in Job
                         /\ jobs[j].state = "queued"
                         /\ jobs[j].computer = calls[k].identity
    BY DEF QueuedOf
  <2> HIDE DEF found
  <2>3. CallsTypeOK'
    BY <2>1 DEF CallsTypeOK
  <2>4. TokensInv'
    BY <2>1 DEF TokensInv, TokenEnrolsOnce, Holds
  <2>5. DevicesInv'
    BY <2>1 DEF DevicesInv
  <2>6. FilesInv'
    BY <2>1 DEF FilesInv, EnrolledAsItself
  <2>7. ProcessInv'
    <3>1. \A m \in Call : calls'[m].identity = calls[m].identity /\ (Enrols(m)' => Enrols(m))
      BY <2>1 DEF Enrols, CallState
    <3> QED BY <2>1, <3>1 DEF ProcessInv, ProcessTypeOK, ProcessState
  <2>8. JobsInv'
    BY <2>1, <2>2 DEF JobsInv, DocumentHeldWhileQueued
  <2> QED BY <2>3, <2>4, <2>5, <2>6, <2>7, <2>8
<1>2. CASE found = {}
  BY <1>2, EndsKeeps DEF FindPrintJobs
<1> QED BY <1>1, <1>2

LEMMA SendPrintJobsKeeps ==
  ASSUME IInv, TypeOK', NEW k \in Call, SendPrintJobs(k)
  PROVE  IInv'
<1> USE DEF IInv, TypeOK, workVars, enrolVars
<1>1. CallsTypeOK'
  BY DEF SendPrintJobs, In, Ends, NoCall, HandedOver, CallsTypeOK
<1>2. TokensInv'
  <2>1. Ends(k) /\ UNCHANGED <<tokens, enrolments>>
    BY DEF SendPrintJobs
  <2> QED BY <2>1 DEF Ends, NoCall, TokensInv, TokenEnrolsOnce, Holds
<1>3. DevicesInv'
  BY DEF SendPrintJobs, In, Ends, NoCall, HandedOver, DevicesInv
<1>4. FilesInv'
  BY DEF SendPrintJobs, In, Ends, NoCall, HandedOver, FilesInv, EnrolledAsItself
<1>5. ProcessInv'
  <2>1. Ends(k) /\ UNCHANGED <<devices, disk, process>>
    BY DEF SendPrintJobs
  <2> QED BY <2>1 DEF Ends, NoCall, ProcessInv, ProcessTypeOK, Enrols
<1>6. JobsInv'
  <2>1. ASSUME NEW j \in Job
        PROVE  /\ jobs'[j].computer = jobs[j].computer
               /\ jobs'[j].state = "none" => jobs[j].state = "none"
               /\ jobs[j].state # "none" => jobs'[j].state # "none"
               /\ jobs'[j].document => jobs'[j].state = "queued"
    <3>1. jobs[j] \in JobRow
      OBVIOUS
    <3>2. CASE j \in calls[k].items
      <4>1. jobs'[j] = [jobs[j] EXCEPT !.state = "sent", !.document = FALSE]
        BY <3>2 DEF SendPrintJobs, HandedOver
      <4>2. jobs[j].state # "none"
        BY <3>2 DEF SendPrintJobs, In, JobsInv
      <4> QED BY <3>1, <4>1, <4>2 DEF JobRow
    <3>3. CASE j \notin calls[k].items
      <4>1. jobs'[j] = jobs[j]
        BY <3>3 DEF SendPrintJobs
      <4> QED BY <4>1 DEF JobsInv, DocumentHeldWhileQueued
    <3> QED BY <3>2, <3>3
  <2>2. \A m \in Call : calls'[m].phase = "sending" => calls'[m] = calls[m]
    BY DEF SendPrintJobs, Ends, NoCall
  <2> QED BY <2>1, <2>2 DEF JobsInv, DocumentHeldWhileQueued
<1> QED BY <1>1, <1>2, <1>3, <1>4, <1>5, <1>6

LEMMA RecordPrintResultKeeps ==
  ASSUME IInv, TypeOK', NEW j \in Job, NEW state \in {"printing", "completed", "failed"}, RecordPrintResult(j, state)
  PROVE  IInv'
<1> USE DEF IInv, TypeOK, workVars, enrolVars
<1>1. CallsTypeOK'
  BY DEF RecordPrintResult, CallsTypeOK
<1>2. TokensInv'
  BY DEF RecordPrintResult, TokensInv, TokenEnrolsOnce, Holds
<1>3. DevicesInv'
  BY DEF RecordPrintResult, DevicesInv
<1>4. FilesInv'
  BY DEF RecordPrintResult, FilesInv, EnrolledAsItself
<1>5. ProcessInv'
  BY DEF RecordPrintResult, ProcessInv, ProcessTypeOK, Enrols
<1>6. JobsInv'
  BY DEF RecordPrintResult, JobsInv, DocumentHeldWhileQueued
<1> QED BY <1>1, <1>2, <1>3, <1>4, <1>5, <1>6

LEMMA RecordProgressKeeps ==
  ASSUME IInv, TypeOK', NEW x \in Transfer, NEW state \in {"active", "completed", "failed", "cancelled"}, RecordProgress(x, state)
  PROVE  IInv'
<1> USE DEF IInv, TypeOK, workVars, enrolVars
<1>1. CallsTypeOK'
  BY DEF RecordProgress, CallsTypeOK
<1>2. TokensInv'
  BY DEF RecordProgress, TokensInv, TokenEnrolsOnce, Holds
<1>3. DevicesInv'
  BY DEF RecordProgress, DevicesInv
<1>4. FilesInv'
  BY DEF RecordProgress, FilesInv, EnrolledAsItself
<1>5. ProcessInv'
  BY DEF RecordProgress, ProcessInv, ProcessTypeOK, Enrols
<1>6. JobsInv'
  BY DEF RecordProgress, JobsInv, DocumentHeldWhileQueued
<1> QED BY <1>1, <1>2, <1>3, <1>4, <1>5, <1>6

LEMMA InvInit == Init => IInv
<1> SUFFICES ASSUME Init PROVE IInv
  OBVIOUS
<1>1. TypeOK
  BY TypeInit
<1>2. CallsTypeOK /\ TokensInv /\ DevicesInv /\ FilesInv /\ ProcessInv /\ JobsInv
  BY DEF Init, EnrolInit, NoCall, NotRunning, CallsTypeOK, TokensInv, TokenEnrolsOnce, Holds,
         DevicesInv, FilesInv, EnrolledAsItself, ProcessInv, ProcessTypeOK, Enrols, JobsInv,
         DocumentHeldWhileQueued
<1> QED BY <1>1, <1>2 DEF IInv

LEMMA InvStep == IInv /\ [Next]_vars => IInv'
<1> SUFFICES ASSUME IInv, [Next]_vars PROVE IInv'
  OBVIOUS
<1>1. TypeOK'
  BY TypeStep DEF IInv, ProcessInv
<1>2. ASSUME NEW k \in Call, ServeEnrolment(k), UNCHANGED workVars PROVE IInv'
  BY <1>1, <1>2, SpendTokenKeeps, RegisterKeeps, JoinKeeps, AnswerEnrolmentKeeps
     DEF ServeEnrolment
<1>3. ASSUME NEW k \in Call, ServeWork(k) PROVE IInv'
  BY <1>1, <1>3, SubmitPrintJobKeeps, StartTransferKeeps, ActivateTransfersKeeps,
     FindPrintJobsKeeps, SendPrintJobsKeeps
     DEF ServeWork
<1>4. CASE \E k \in Call :
             \/ Fail(k) /\ UNCHANGED workVars
             \/ \E d \in Identity : AskForWork(k, d) \/ Collect(k, d)
  BY <1>1, <1>4, FailKeeps, AskForWorkKeeps, CollectKeeps
<1>5. CASE Owner
  BY <1>1, <1>5, MintKeeps, RevokeKeeps, SetResourceEnabledKeeps, ApproveFolderKeeps DEF Owner
<1>6. CASE Agent
  BY <1>1, <1>6, LoadKeeps, CreateKeyKeeps, CreateRecordKeeps, EnrollKeeps,
     EnrolInVainKeeps, BeatKeeps, ResetKeeps, ForgetKeeps, StopKeeps, ReportResourcesKeeps
     DEF Agent, Start, Outcomes
<1>7. CASE Worker
  BY <1>1, <1>7, RecordPrintResultKeeps, RecordProgressKeeps DEF Worker
<1>8. CASE UNCHANGED vars
  <2> USE <1>8 DEF vars, enrolVars, workVars
  <2>1. CallsTypeOK' /\ TokensInv' /\ DevicesInv'
    BY DEF IInv, CallsTypeOK, TokensInv, TokenEnrolsOnce, Holds, DevicesInv
  <2>2. FilesInv' /\ ProcessInv' /\ JobsInv'
    BY DEF IInv, FilesInv, EnrolledAsItself, ProcessInv, ProcessTypeOK, Enrols, JobsInv,
           DocumentHeldWhileQueued
  <2> QED BY <1>1, <2>1, <2>2 DEF IInv
<1> QED BY <1>2, <1>3, <1>4, <1>5, <1>6, <1>7, <1>8 DEF Next

(* IInv is an invariant: who has claimed a token is alone with it, a row   *)
(* is never taken back, the files on disk belong to one key pair, and what *)
(* the process believes is what the files say.                             *)
THEOREM WorkInvariant == Spec => []IInv
BY InvInit, InvStep, PTL DEF Spec
-----------------------------------------------------------------------------
(* Every variable keeps its type.                                          *)
THEOREM WorkTypesCorrect == Spec => []TypeOK
<1>1. IInv => TypeOK
  BY DEF IInv
<1> QED BY <1>1, WorkInvariant, PTL

(* No token enrols twice (enroll).                                         *)
THEOREM TokensEnrolOnce == Spec => []TokenEnrolsOnce
<1>1. IInv => TokenEnrolsOnce
  BY DEF IInv, TokensInv
<1> QED BY <1>1, WorkInvariant, PTL

(* The files of an enrolled computer are of one key pair, which has an     *)
(* agent row, at every step of every write and removal (agent.go).         *)
THEOREM ComputersAreThemselves == Spec => []EnrolledAsItself
<1>1. IInv => EnrolledAsItself
  BY DEF IInv, FilesInv
<1> QED BY <1>1, WorkInvariant, PTL

(* Only queued jobs have a document (agentWork and recordPrintResult).     *)
THEOREM DocumentsAreDropped == Spec => []DocumentHeldWhileQueued
<1>1. IInv => DocumentHeldWhileQueued
  BY DEF IInv, JobsInv
<1> QED BY <1>1, WorkInvariant, PTL
-----------------------------------------------------------------------------
LEMMA ForgottenStep ==
  ASSUME IInv, [Next]_vars, disk.space # None, disk'.space # disk.space
  PROVE  devices[disk.space] = "revoked" \/ process.cause \in {"clock", "unrecorded", "reset"}
<1>1. CASE \E k \in Call : AnswerEnrolment(k)
  <2>1. PICK k \in Call : AnswerEnrolment(k)
    BY <1>1
  <2>2. process.request = k /\ disk'.space = calls[k].identity
    BY <2>1 DEF AnswerEnrolment, Saved, IInv, TypeOK, Files
  <2>3. calls[k].identity = process.identity /\ process.phase = "enrolling"
    BY <2>1, <2>2, EnrolmentConstants DEF AnswerEnrolment, In, IInv, ProcessInv, Enrols
  <2>4. disk.space = process.identity
    BY <2>3 DEF IInv, FilesInv, EnrolledAsItself, ProcessInv
  <2> QED BY <2>2, <2>3, <2>4
<1>2. CASE Forget
  <2>1. process.phase = "forgetting"
    BY <1>2 DEF Forget, NextFile, IInv, ProcessInv, TypeOK, Files
  <2>2. process.cause \in {"none", "refused", "clock", "unrecorded", "reset"}
    BY DEF IInv, TypeOK, ProcessState
  <2> QED BY <2>1, <2>2 DEF IInv, ProcessInv
<1>3. CASE Start
  BY <1>3 DEF Start, Load, CreateKey, CreateRecord, IInv, TypeOK, Files
<1>4. ASSUME UNCHANGED disk PROVE FALSE
  BY <1>4
<1>5. \/ UNCHANGED disk
      \/ \E k \in Call : AnswerEnrolment(k)
      \/ Forget
      \/ Start
  <2> USE DEF enrolVars, vars
  <2>1. ASSUME NEW k \in Call, ServeEnrolment(k) PROVE UNCHANGED disk \/ AnswerEnrolment(k)
    BY <2>1 DEF ServeEnrolment, SpendToken, Register, Join
  <2>2. ASSUME NEW k \in Call, ServeWork(k) PROVE UNCHANGED disk
    BY <2>2 DEF ServeWork, SubmitPrintJob, StartTransfer, ActivateTransfers, FindPrintJobs,
               SendPrintJobs
  <2>3. ASSUME NEW k \in Call, NEW d \in Identity, Fail(k) \/ AskForWork(k, d) \/ Collect(k, d)
        PROVE  UNCHANGED disk
    BY <2>3 DEF Fail, AskForWork, Collect
  <2>4. ASSUME NEW k \in Call, Fail(k) PROVE UNCHANGED disk
    BY <2>4 DEF Fail
  <2>5. ASSUME Owner PROVE UNCHANGED disk
    BY <2>5 DEF Owner, Mint, Revoke, SetResourceEnabled, ApproveFolder
  <2>6. ASSUME Agent PROVE UNCHANGED disk \/ Forget \/ Start
    BY <2>6 DEF Agent, Enroll, EnrolInVain, Beat, Reset, Stop, ReportResources
  <2>7. ASSUME Worker PROVE UNCHANGED disk
    BY <2>7 DEF Worker, RecordPrintResult, RecordProgress
  <2>8. ASSUME UNCHANGED vars PROVE UNCHANGED disk
    BY <2>8
  <2> QED BY <2>1, <2>2, <2>3, <2>4, <2>5, <2>6, <2>7, <2>8 DEF Next
<1> QED BY <1>1, <1>2, <1>3, <1>4, <1>5

(* A computer leaves its Space because it was revoked or reset, or because *)
(* the guard refused a wrong clock or a nonce it could not store: neither  *)
(* a lost answer nor a crash takes it out (beat and forgetIdentity).       *)
THEOREM ForgottenForACause == Spec => ForgottenForCause
<1>1. IInv /\ [Next]_vars =>
        [disk.space # None /\ disk'.space # disk.space =>
           devices[disk.space] = "revoked" \/ process.cause \in {"clock", "unrecorded", "reset"}]_vars
  BY ForgottenStep
<1> QED BY <1>1, WorkInvariant, PTL DEF Spec, ForgottenForCause
-----------------------------------------------------------------------------
(* What a step may do to a computer that is out of service.                *)
StaysOut(d) ==
  /\ devices'[d] = "revoked"
  /\ \A k \in Call : calls'[k].identity # d

SameDocuments(d) ==
  \A j \in Job : jobs[j].computer = d => jobs'[j].document = jobs[j].document

LEMMA PhaseMoves ==
  ASSUME calls \in [Call -> CallState], NEW k \in Call,
         (\E phase \in Phases : Goes(k, phase)) \/ Ends(k)
  PROVE  \A m \in Call : calls'[m].identity \in {calls[m].identity, None}
<1>1. ASSUME NEW phase \in Phases, Goes(k, phase), NEW m \in Call
      PROVE  calls'[m].identity \in {calls[m].identity, None}
  BY <1>1 DEF Goes, CallState
<1>2. ASSUME Ends(k), NEW m \in Call PROVE calls'[m].identity \in {calls[m].identity, None}
  BY <1>2 DEF Ends, NoCall
<1> QED BY <1>1, <1>2

LEMMA RevokedStep ==
  ASSUME IInv, [Next]_vars, NEW d \in Identity, OutOfService(d)
  PROVE  StaysOut(d) /\ SameDocuments(d)
<1> d # None
  BY EnrolmentConstants
<1> /\ devices[d] = "revoked"
    /\ \A k \in Call : calls[k].identity # d
  BY DEF OutOfService
<1> USE DEF IInv, TypeOK, StaysOut, SameDocuments, workVars, enrolVars
<1>1. ASSUME NEW k \in Call, SpendToken(k) \/ Join(k) \/ AnswerEnrolment(k) \/ Fail(k)
      PROVE  StaysOut(d)
  <2>1. UNCHANGED devices /\ ((\E phase \in Phases : Goes(k, phase)) \/ Ends(k))
    BY <1>1 DEF SpendToken, Join, AnswerEnrolment, Fail, Phases
  <2>2. \A m \in Call : calls'[m].identity \in {calls[m].identity, None}
    BY <2>1, PhaseMoves
  <2> QED BY <2>1, <2>2
<1>2. ASSUME NEW k \in Call, Register(k) PROVE StaysOut(d)
  <2>1. devices'[d] = "revoked" /\ ((\E phase \in Phases : Goes(k, phase)) \/ Ends(k))
    BY <1>2 DEF Register, Phases
  <2>2. \A m \in Call : calls'[m].identity \in {calls[m].identity, None}
    BY <2>1, PhaseMoves
  <2> QED BY <2>1, <2>2
<1>3. ASSUME NEW k \in Call, NEW t \in Token, Enroll(k, t) PROVE StaysOut(d)
  BY <1>3 DEF Enroll, NoCall
<1>4. ASSUME \/ \E t \in Token : Mint(t)
             \/ \E c \in Identity : Revoke(c)
             \/ Start \/ EnrolInVain \/ Reset \/ Forget \/ Stop
             \/ \E outcome \in Outcomes : Beat(outcome)
      PROVE  StaysOut(d)
  BY <1>4 DEF Mint, Revoke, Start, Load, CreateKey, CreateRecord, EnrolInVain, Reset, Forget, Stop, Beat
<1>5. ASSUME UNCHANGED workVars PROVE SameDocuments(d)
  BY <1>5
<1>6. ASSUME NEW k \in Call, NEW c \in Identity, AskForWork(k, c) \/ Collect(k, c)
      PROVE  StaysOut(d) /\ SameDocuments(d)
  BY <1>6 DEF AskForWork, Collect, Authentic, NoCall
<1>7. ASSUME NEW k \in Call, NEW j \in Job, SubmitPrintJob(k, j)
      PROVE  StaysOut(d) /\ SameDocuments(d)
  <2>1. jobs[j].computer # d
    BY <1>7 DEF SubmitPrintJob, JobsInv
  <2>2. \A i \in Job : i # j => jobs'[i] = jobs[i]
    BY <1>7 DEF SubmitPrintJob
  <2>3. StaysOut(d)
    BY <1>7 DEF SubmitPrintJob, Ends, NoCall
  <2> QED BY <2>1, <2>2, <2>3
<1>8. ASSUME NEW k \in Call,
             \/ \E x \in Transfer : StartTransfer(k, x)
             \/ ActivateTransfers(k) \/ FindPrintJobs(k)
      PROVE  StaysOut(d) /\ SameDocuments(d)
  <2>1. UNCHANGED <<jobs, devices>>
    BY <1>8 DEF StartTransfer, ActivateTransfers, FindPrintJobs
  <2>2. \A m \in Call : calls'[m].identity \in {calls[m].identity, None}
    BY <1>8 DEF StartTransfer, ActivateTransfers, FindPrintJobs, Goes, Ends, NoCall, CallState
  <2> QED BY <2>1, <2>2
<1>9. ASSUME NEW k \in Call, SendPrintJobs(k) PROVE StaysOut(d) /\ SameDocuments(d)
  <2>1. StaysOut(d)
    BY <1>9 DEF SendPrintJobs, Ends, NoCall
  <2>2. ASSUME NEW j \in Job, jobs[j].computer = d PROVE jobs'[j] = jobs[j]
    <3>1. j \notin calls[k].items
      BY <1>9, <2>2 DEF SendPrintJobs, In, JobsInv
    <3> QED BY <1>9, <3>1 DEF SendPrintJobs
  <2> QED BY <2>1, <2>2
<1>10. ASSUME \/ \E c \in Identity, enabled \in BOOLEAN : SetResourceEnabled(c, enabled)
              \/ \E c \in Identity : ApproveFolder(c)
              \/ ReportResources
              \/ \E x \in Transfer, state \in {"active", "completed", "failed", "cancelled"} :
                   RecordProgress(x, state)
              \/ UNCHANGED vars
       PROVE  StaysOut(d) /\ SameDocuments(d)
  BY <1>10 DEF SetResourceEnabled, ApproveFolder, ReportResources, RecordProgress, vars
<1>11. ASSUME NEW j \in Job, NEW state \in {"printing", "completed", "failed"},
              RecordPrintResult(j, state)
       PROVE  StaysOut(d) /\ SameDocuments(d)
  BY <1>11 DEF RecordPrintResult, Authentic
<1> HIDE DEF IInv, TypeOK, StaysOut, SameDocuments, workVars, enrolVars
<1>12. CASE \E k \in Call : ServeEnrolment(k) /\ UNCHANGED workVars
  BY <1>12, <1>1, <1>2, <1>5 DEF ServeEnrolment
<1>13. CASE \E k \in Call : ServeWork(k)
  BY <1>13, <1>7, <1>8, <1>9 DEF ServeWork
<1>14. CASE \E k \in Call :
              \/ Fail(k) /\ UNCHANGED workVars
              \/ \E c \in Identity : AskForWork(k, c) \/ Collect(k, c)
  BY <1>14, <1>1, <1>5, <1>6
<1>15. CASE Owner \/ Agent
  BY <1>15, <1>3, <1>4, <1>5, <1>10 DEF Owner, Agent, Outcomes
<1>16. CASE Worker \/ UNCHANGED vars
  BY <1>16, <1>10, <1>11 DEF Worker
<1>17. StaysOut(d) /\ SameDocuments(d)
  BY <1>12, <1>13, <1>14, <1>15, <1>16 DEF Next
<1> QED BY <1>17

(* Nothing is served for a revoked computer once the requests before the   *)
(* revocation are over (AgentSignatureGuard, enroll and agentWork).        *)
THEOREM RevokedServedNothing == Spec => RevokedCollectsNothing
<1>1. IInv /\ [Next]_vars =>
        [\A d \in Identity :
           OutOfService(d) =>
             /\ OutOfService(d)'
             /\ \A j \in Job : jobs[j].computer = d => jobs'[j].document = jobs[j].document]_vars
  BY RevokedStep DEF StaysOut, SameDocuments, OutOfService
<1> QED BY <1>1, WorkInvariant, PTL DEF Spec, RevokedCollectsNothing
-----------------------------------------------------------------------------
(* Enrolment tokens as one-time codes.                                     *)
OneTimeStep == OneTime!Next \/ UNCHANGED OneTime!vars

LEMMA TokensStay ==
  ASSUME UNCHANGED <<tokens, enrolments>>
  PROVE  OneTimeStep
BY DEF OneTimeStep, OneTime!vars, TokenState

(* A token whose row and history stay keeps its state.                     *)
LEMMA TokenStays ==
  ASSUME NEW b \in Token, tokens'[b] = tokens[b], enrolments'[b] = enrolments[b]
  PROVE  TokenState(b)' = TokenState(b)
BY DEF TokenState

LEMMA MintIsStep ==
  ASSUME IInv, NEW t \in Token, Mint(t)
  PROVE  OneTimeStep
<1>1. /\ tokens[t] = "none" /\ enrolments[t] = 0 /\ enrolments' = enrolments
      /\ tokens' = [tokens EXCEPT ![t] = "live"]
  BY DEF Mint, IInv, TokensInv, TypeOK
<1>2. tokens'[t] = "live" /\ \A b \in Token : b # t => tokens'[b] = tokens[b]
  BY <1>1 DEF IInv, TypeOK
<1>3. TokenState(t) = "absent" /\ TokenState(t)' = "offered"
  <2>1. ~(0 > 0)
    OBVIOUS
  <2> QED
    BY <1>1, <1>2, <2>1 DEF TokenState
<1>4. \A b \in Token : TokenState(b)' = IF b = t THEN "offered" ELSE TokenState(b)
  BY <1>1, <1>2, <1>3, TokenStays
<1>5. OneTime!Offer(t)
  BY <1>1, <1>3, <1>4 DEF OneTime!Offer, OneTime!Becomes
<1> QED
  BY <1>5 DEF OneTimeStep, OneTime!Next

(* The claim: of the requests that read the token one takes it.            *)
LEMMA SpendTokenIsStep ==
  ASSUME IInv, NEW k \in Call, SpendToken(k)
  PROVE  OneTimeStep
<1>1. enrolments' = enrolments /\ \E t \in Token : t = calls[k].token
  BY DEF SpendToken, In, IInv, CallsTypeOK
<1>2. PICK t \in Token : t = calls[k].token
  BY <1>1
<1>3. CASE Spendable(t)
  <2>1. tokens[t] = "live" /\ enrolments[t] = 0 /\ tokens' = [tokens EXCEPT ![t] = "used"]
    BY <1>2, <1>3 DEF Spendable, SpendToken, IInv, TokensInv, TypeOK
  <2>2. tokens'[t] = "used" /\ \A b \in Token : b # t => tokens'[b] = tokens[b]
    BY <2>1 DEF IInv, TypeOK
  <2>3. TokenState(t) = "offered" /\ TokenState(t)' = "taken"
    <3>1. ~(0 > 0)
      OBVIOUS
    <3> QED
      BY <1>1, <2>1, <2>2, <3>1 DEF TokenState
  <2>4. \A b \in Token : TokenState(b)' = IF b = t THEN "taken" ELSE TokenState(b)
    BY <1>1, <2>2, <2>3, TokenStays
  <2>5. OneTime!Take(t)
    BY <1>1, <2>3, <2>4 DEF OneTime!Take, OneTime!Becomes
  <2> QED
    BY <2>5 DEF OneTimeStep, OneTime!Next
<1>4. CASE ~Spendable(t)
  BY <1>2, <1>4, TokensStay DEF SpendToken
<1> QED
  BY <1>3, <1>4

LEMMA JoinIsStep ==
  ASSUME IInv, NEW k \in Call, Join(k)
  PROVE  OneTimeStep
<1>1. PICK t \in Token : t = calls[k].token
  BY DEF Join, In, IInv, CallsTypeOK
<1>2. tokens[t] = "used" /\ enrolments[t] = 0 /\ enrolments \in [Token -> Nat]
  BY <1>1 DEF Join, In, IInv, TypeOK, TokensInv, Holds
<1>3. tokens' = tokens /\ enrolments' = [enrolments EXCEPT ![t] = enrolments[t] + 1]
  BY <1>1 DEF Join
<1>4. enrolments'[t] = 1 /\ \A b \in Token : b # t => enrolments'[b] = enrolments[b]
  BY <1>2, <1>3
<1>5. TokenState(t) = "taken" /\ TokenState(t)' = "used"
  <2>1. ~(0 > 0) /\ 1 > 0
    OBVIOUS
  <2> QED
    BY <1>2, <1>4, <2>1 DEF TokenState
<1>6. \A b \in Token : TokenState(b)' = IF b = t THEN "used" ELSE TokenState(b)
  BY <1>3, <1>4, <1>5, TokenStays
<1>7. OneTime!Use(t)
  BY <1>3, <1>5, <1>6 DEF OneTime!Use, OneTime!Becomes, OneTime!LetIn
<1> QED
  BY <1>7 DEF OneTimeStep, OneTime!Next

LEMMA EveryStepIsOneTime ==
  ASSUME IInv, [Next]_vars
  PROVE  OneTimeStep
<1>1. ASSUME NEW k \in Call, ServeEnrolment(k) PROVE OneTimeStep
  BY <1>1, TokensStay, SpendTokenIsStep, JoinIsStep DEF ServeEnrolment, Register, AnswerEnrolment
<1>2. ASSUME NEW k \in Call, ServeWork(k) PROVE UNCHANGED <<tokens, enrolments>>
  BY <1>2 DEF ServeWork, SubmitPrintJob, StartTransfer, ActivateTransfers, FindPrintJobs,
              SendPrintJobs, enrolVars
<1>3. ASSUME NEW k \in Call, Fail(k) \/ \E d \in Identity : AskForWork(k, d) \/ Collect(k, d)
      PROVE  UNCHANGED <<tokens, enrolments>>
  BY <1>3 DEF Fail, AskForWork, Collect, enrolVars
<1>4. CASE Owner
  BY <1>4, TokensStay, MintIsStep DEF Owner, Revoke, SetResourceEnabled, ApproveFolder, enrolVars
<1>5. CASE Agent
  BY <1>5, TokensStay DEF Agent, Start, Load, CreateKey, CreateRecord, Enroll, EnrolInVain, Beat,
                          Reset, Forget, Stop,
                          ReportResources, enrolVars
<1>6. CASE Worker
  BY <1>6, TokensStay DEF Worker, RecordPrintResult, RecordProgress, enrolVars
<1>7. CASE UNCHANGED vars
  BY <1>7, TokensStay DEF vars, enrolVars
<1> QED
  BY <1>1, <1>2, <1>3, <1>4, <1>5, <1>6, <1>7, TokensStay DEF Next

(* Every enrolment token is a one-time code: one request takes it, and it  *)
(* makes one agent row at most (createEnrollmentToken and enroll).         *)
THEOREM TokensAreOneTime == Spec => TokensWorkOnce
<1>1. Init => OneTime!Init
  BY DEF Init, EnrolInit, TokenState, OneTime!Init
<1>2. IInv /\ [Next]_vars => [OneTime!Next]_(OneTime!vars)
  BY EveryStepIsOneTime DEF OneTimeStep
<1> QED
  BY <1>1, <1>2, WorkInvariant, PTL DEF Spec, TokensWorkOnce, OneTime!Spec
=============================================================================
