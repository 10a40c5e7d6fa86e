--------------------------- MODULE AgentEnrolment --------------------------
(***************************************************************************)
(* A computer joins a Space and leaves it: the enrolment tokens, device    *)
(* and agent rows of the control plane (apps/api/src/agents) and the       *)
(* identity and enrolment files of the agent (services/agent: agent.go,    *)
(* enrollment.go, identity.go).                                            *)
(*                                                                         *)
(* One process at a time uses the computer's data directory: the service,  *)
(* or the `enroll` or `reset` command.  It may be killed at any step, and  *)
(* any answer may be lost.  Refusals that change nothing are requests that *)
(* do not take place.                                                      *)
(***************************************************************************)
EXTENDS Integers, FiniteSets

CONSTANTS
  Identity,   \* key pairs; each Device row of an agent is the row of one
  Token,      \* rows of AgentEnrollmentToken
  Call,       \* requests the control plane can be serving at once
  Job,        \* rows of PrintJob
  Transfer,   \* rows of FileTransfer
  None

ASSUME EnrolmentConstants ==
  None \notin Identity \cup Token \cup Call \cup Job \cup Transfer

VARIABLES
  tokens,     \* tokens[t]: the row of enrolment token t
  devices,    \* devices[d]: the Device row of key pair d
  agents,     \* key pairs that have an Agent row
  disk,       \* the files in the data directory
  process,    \* the process that uses them
  calls,      \* calls[k]: a request in progress
  enrolments  \* history: how often each token has made an Agent row

enrolVars == <<tokens, devices, agents, disk, process, calls, enrolments>>
-----------------------------------------------------------------------------
(* key: device.key; record: identity.json; space: enrollment.json, named   *)
(* by the key pair whose device it says this computer is.                  *)
Files == [key : Identity \cup {None}, record : Identity \cup {None},
          space : Identity \cup {None}]

(* identity and current are the agent's fields ident and current; cause is *)
(* why it is forgetting them.                                              *)
ProcessState ==
  [phase : {"down", "creating", "started", "enrolling", "up", "forgetting", "cleared", "keyless"},
   identity : Identity \cup {None}, current : Identity \cup {None},
   request : Call \cup {None},
   cause : {"none", "refused", "clock", "unrecorded", "reset"}]

NotRunning == [phase |-> "down", identity |-> None, current |-> None, request |-> None,
               cause |-> "none"]

(* items: what a poll for work has found waiting.                          *)
CallState ==
  [phase : {"idle", "spending", "registering", "joining", "answering",
            "checked", "activating", "looking", "sending"},
   identity : Identity \cup {None}, token : Token \cup {None},
   items : SUBSET (Job \cup Transfer)]

NoCall == [phase |-> "idle", identity |-> None, token |-> None, items |-> {}]

EnrolInit ==
  /\ tokens = [t \in Token |-> "none"]
  /\ devices = [d \in Identity |-> "none"]
  /\ agents = {}
  /\ disk = [key |-> None, record |-> None, space |-> None]
  /\ process = NotRunning
  /\ calls = [k \in Call |-> NoCall]
  /\ enrolments = [t \in Token |-> 0]

In(k, phase) == calls[k].phase = phase

Goes(k, phase) == calls' = [calls EXCEPT ![k].phase = phase]

Ends(k) == calls' = [calls EXCEPT ![k] = NoCall]

(* Variant: the owner's revocation is not looked at.                       *)
AuthenticOnceKnown(d) == devices[d] # "none"

(* AgentSignatureGuard, for a signature that is valid and recent.          *)
Authentic(d) == devices[d] = "trusted"
-----------------------------------------------------------------------------
(* The control plane                                                       *)

(* createEnrollmentToken                                                   *)
Mint(t) ==
  /\ tokens[t] = "none"
  /\ tokens' = [tokens EXCEPT ![t] = "live"]
  /\ UNCHANGED <<devices, agents, disk, process, calls, enrolments>>

(* Variant: a token that two requests have read is good for both.          *)
SpendableAlways(t) == tokens[t] # "none"

(* The condition of the claim.                                             *)
Spendable(t) == tokens[t] = "live"

(* enroll claims the token, before anything else can be refused.           *)
SpendToken(k) ==
  LET t == calls[k].token
  IN /\ In(k, "spending")
     /\ IF Spendable(t)
        THEN tokens' = [tokens EXCEPT ![t] = "used"] /\ Goes(k, "registering")
        ELSE UNCHANGED tokens /\ Ends(k)
     /\ UNCHANGED <<devices, agents, disk, process, enrolments>>

(* upsertAgentDevice                                                       *)
Register(k) ==
  LET d == calls[k].identity
  IN /\ In(k, "registering")
     /\ IF devices[d] = "revoked"
        THEN UNCHANGED devices /\ Ends(k)
        ELSE devices' = [devices EXCEPT ![d] = "trusted"] /\ Goes(k, "joining")
     /\ UNCHANGED <<tokens, agents, disk, process, enrolments>>

Join(k) ==
  /\ In(k, "joining")
  /\ agents' = agents \cup {calls[k].identity}
  /\ enrolments' = [enrolments EXCEPT ![calls[k].token] = enrolments[calls[k].token] + 1]
  /\ Goes(k, "answering")
  /\ UNCHANGED <<tokens, devices, disk, process>>

(* The request dies on the way; what it wrote stays written.               *)
Fail(k) ==
  /\ ~In(k, "idle")
  /\ Ends(k)
  /\ UNCHANGED <<tokens, devices, agents, disk, process, enrolments>>

(* DevicesService.revoke, by the owner.                                    *)
Revoke(d) ==
  /\ devices[d] = "trusted"
  /\ devices' = [devices EXCEPT ![d] = "revoked"]
  /\ UNCHANGED <<tokens, agents, disk, process, calls, enrolments>>
-----------------------------------------------------------------------------
(* The agent                                                               *)

Unused(d) ==
  /\ devices[d] = "none"
  /\ d \notin {disk.key, disk.record, process.identity}
  /\ \A k \in Call : calls[k].identity # d

(* New loads the identity and the enrolment.  A record without its key is  *)
(* an identity that can be neither loaded nor created.                     *)
Load ==
  /\ process.phase = "down"
  /\ disk.record # None /\ disk.key # None
  /\ process' = [NotRunning EXCEPT !.phase = "started", !.identity = disk.record,
                                   !.current = disk.space]
  /\ UNCHANGED <<tokens, devices, agents, disk, calls, enrolments>>

(* Create: without a record, the key is written (over one that was left    *)
(* without), and then its record.                                          *)
CreateKey ==
  /\ process.phase = "down"
  /\ disk.record = None
  /\ \E d \in Identity :
       /\ Unused(d)
       /\ disk' = [disk EXCEPT !.key = d]
       /\ process' = [NotRunning EXCEPT !.phase = "creating", !.identity = d]
  /\ UNCHANGED <<tokens, devices, agents, calls, enrolments>>

CreateRecord ==
  /\ process.phase = "creating"
  /\ disk' = [disk EXCEPT !.record = process.identity]
  /\ process' = [process EXCEPT !.phase = "started", !.current = disk.space]
  /\ UNCHANGED <<tokens, devices, agents, calls, enrolments>>

Start == Load \/ CreateKey \/ CreateRecord

(* Enroll, by the command or by a service that was given a token.  The     *)
(* guard lets a key pass that is not registered yet.                       *)
Enroll(k, t) ==
  /\ process.phase = "started" /\ In(k, "idle")
  /\ tokens[t] = "live"
  /\ devices[process.identity] # "revoked"
  /\ calls' = [calls EXCEPT ![k] = [NoCall EXCEPT !.phase = "spending", !.token = t,
                                                  !.identity = process.identity]]
  /\ process' = [process EXCEPT !.phase = "enrolling", !.request = k]
  /\ UNCHANGED <<tokens, devices, agents, disk, enrolments>>

Saved(k) ==
  /\ disk' = [disk EXCEPT !.space = calls[k].identity]
  /\ process' = [process EXCEPT !.phase = "up", !.current = calls[k].identity,
                                !.request = None]

(* The answer arrives and is saved; or nobody waits for it any more.       *)
AnswerEnrolment(k) ==
  /\ In(k, "answering")
  /\ IF process.request = k THEN Saved(k) ELSE UNCHANGED <<disk, process>>
  /\ Ends(k)
  /\ UNCHANGED <<tokens, devices, agents, enrolments>>

(* A refusal, or no answer in time: the error is logged, no more.          *)
EnrolInVain ==
  /\ process.phase = "enrolling"
  /\ process' = [process EXCEPT !.phase = "up", !.request = None]
  /\ UNCHANGED <<tokens, devices, agents, disk, calls, enrolments>>

(* Variants: the answer 401 is a failure like others; any failure is taken *)
(* for a refusal.                                                          *)
RefusedNever(outcome) == FALSE
RefusedOnAnyFailure(outcome) == outcome # "answered" \/ ~Authentic(process.identity)

(* ErrRejected.  A device that was revoked or is not known is refused, but *)
(* a clock that is off by five minutes, and a nonce that the database did  *)
(* not take for whatever reason, are answered by the same 401.             *)
Refused(outcome) ==
  \/ outcome \in {"clock", "unrecorded"}
  \/ outcome = "answered" /\ ~Authentic(process.identity)

(* beat, or another poll: a refusal is the end of this identity.           *)
Beat(outcome) ==
  /\ process.phase \in {"started", "up"}
  /\ process.current # None
  /\ process' = IF Refused(outcome)
       THEN [process EXCEPT !.phase = "forgetting",
                            !.cause = IF outcome = "answered" THEN "refused" ELSE outcome]
       ELSE [process EXCEPT !.phase = "up"]
  /\ UNCHANGED <<tokens, devices, agents, disk, calls, enrolments>>

(* The command `reset`.                                                    *)
Reset ==
  /\ process.phase = "down"
  /\ process' = [NotRunning EXCEPT !.phase = "forgetting", !.cause = "reset"]
  /\ UNCHANGED <<tokens, devices, agents, disk, calls, enrolments>>

(* Variant: the identity goes first, the enrolment last.                   *)
NextFileIdentityFirst ==
  CASE process.phase = "forgetting" -> "key"
    [] process.phase = "cleared" -> "record"
    [] process.phase = "keyless" -> "space"

(* ResetIdentity removes the enrolment, the key and the record in turn.    *)
NextFile ==
  CASE process.phase = "forgetting" -> "space"
    [] process.phase = "cleared" -> "key"
    [] process.phase = "keyless" -> "record"

(* forgetIdentity: when all is gone the service keeps running with nothing *)
(* to do, and the command is over.                                         *)
Forget ==
  /\ process.phase \in {"forgetting", "cleared", "keyless"}
  /\ disk' = [disk EXCEPT ![NextFile] = None]
  /\ process' =
       CASE process.phase = "forgetting" -> [process EXCEPT !.phase = "cleared"]
         [] process.phase = "cleared" -> [process EXCEPT !.phase = "keyless"]
         [] process.phase = "keyless" ->
              IF process.cause = "reset" THEN NotRunning
              ELSE [process EXCEPT !.phase = "up", !.current = None, !.cause = "none"]
  /\ UNCHANGED <<tokens, devices, agents, calls, enrolments>>

(* The process ends at any step: stopped, killed, or with the machine.     *)
Stop ==
  /\ process.phase # "down"
  /\ process' = NotRunning
  /\ UNCHANGED <<tokens, devices, agents, disk, calls, enrolments>>
=============================================================================
