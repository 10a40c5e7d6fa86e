------------------------------ MODULE DataPool -----------------------------
(***************************************************************************)
(* Data allocations of the members of one Space, and the usage a provider  *)
(* reports for them (apps/api/src/data/data.service.ts).                   *)
(*                                                                         *)
(* A unit of data is one Event.  What the provider answers is up to it:    *)
(* any events, those of earlier answers among them (external; the demo     *)
(* provider reports none it was not told of).  Times are left out: whether *)
(* an allocation has lapsed, or reached its limit of today, is an input of *)
(* each refresh.                                                           *)
(***************************************************************************)
EXTENDS SpacePasses, FiniteSetsExt

VARIABLES
  allocations,  \* allocations[m]: the row of m's allocation
  recorded      \* recorded[m]: the rows of DataUsageEvent of m

vars == <<passVars, allocations, recorded>>

AllocationRow == [status : {"none", "active", "paused", "expired", "revoked"},
                  total : 0 .. Plan, used : 0 .. Cardinality(Event)]

NoAllocation == [status |-> "none", total |-> 0, used |-> 0]

Init ==
  /\ PassInit
  /\ allocations = [m \in Member |-> NoAllocation]
  /\ recorded = [m \in Member |-> {}]

Has(m) == allocations[m].status # "none"
-----------------------------------------------------------------------------
(* openAllocation: the provider is asked for it, then the row is written;  *)
(* what was used before counts against the new total.                      *)
OpenAllocation(k) ==
  LET m == calls[k].member
  IN /\ In(k, "opening")
     /\ allocations' = [allocations EXCEPT ![m].status = "active", ![m].total = calls[k].amount]
     /\ Goes(k, "granting")
     /\ UNCHANGED <<passes, members, sockets, entered, recorded>>

(* pauseAllocation: whatever the status was.                               *)
PauseAllocation(m, paused) ==
  /\ Has(m)
  /\ allocations' = [allocations EXCEPT ![m].status = IF paused THEN "paused" ELSE "active"]
  /\ UNCHANGED <<passVars, recorded>>

(* updateAllocation: not less than is known to be used.                    *)
AskResize(k, m, amount) ==
  /\ In(k, "idle")
  /\ Has(m) /\ amount >= allocations[m].used
  /\ calls' = [calls EXCEPT ![k] = [NoCall EXCEPT !.phase = "resizing", !.member = m,
                                                  !.amount = amount]]
  /\ UNCHANGED <<passes, members, sockets, entered, allocations, recorded>>

Resize(k) ==
  /\ In(k, "resizing")
  /\ allocations' = [allocations EXCEPT ![calls[k].member].total = calls[k].amount]
  /\ Ends(k)
  /\ UNCHANGED <<passes, members, sockets, entered, recorded>>

(* revokeAccess                                                            *)
AskRevoke(k, m) ==
  /\ In(k, "idle")
  /\ members[m] # "none"
  /\ calls' = [calls EXCEPT ![k] = [NoCall EXCEPT
         !.phase = IF Has(m) THEN "ending" ELSE "suspending", !.member = m]]
  /\ UNCHANGED <<passes, members, sockets, entered, allocations, recorded>>

EndAllocation(k) ==
  /\ In(k, "ending")
  /\ allocations' = [allocations EXCEPT ![calls[k].member].status = "revoked"]
  /\ Goes(k, "suspending")
  /\ UNCHANGED <<passes, members, sockets, entered, recorded>>
-----------------------------------------------------------------------------
(* refreshUsage                                                            *)

(* The row is read, and for an active allocation the provider is asked.    *)
AskRefresh(k, m, lapsed, fetched) ==
  /\ In(k, "idle")
  /\ allocations[m].status \in {"active", "paused", "expired"}
  /\ allocations[m].status # "active" => fetched = {}
  /\ calls' = [calls EXCEPT ![k] =
       IF lapsed /\ allocations[m].status # "expired"
       THEN [NoCall EXCEPT !.phase = "expiring", !.member = m]
       ELSE [NoCall EXCEPT !.phase = "metering", !.member = m,
                           !.amount = allocations[m].total, !.used = allocations[m].used,
                           !.fetched = fetched]]
  /\ UNCHANGED <<passes, members, sockets, entered, allocations, recorded>>

Expire(k) ==
  /\ In(k, "expiring")
  /\ allocations' = [allocations EXCEPT ![calls[k].member].status = "expired"]
  /\ Ends(k)
  /\ UNCHANGED <<passes, members, sockets, entered, recorded>>

(* Variant: an event that is there already counts again.                   *)
FreshAlways(m, e) == TRUE

(* providerRef is unique: an event is recorded and counted once.           *)
Fresh(m, e) == e \notin recorded[m]

(* A row that cannot be written, because it is there already or because    *)
(* the database fails, leaves the event uncounted.                         *)
RecordUsage(k, e, stored) ==
  LET m == calls[k].member
  IN /\ In(k, "metering")
     /\ e \in calls[k].fetched
     /\ stored => Fresh(m, e)
     /\ recorded' = IF stored THEN [recorded EXCEPT ![m] = recorded[m] \cup {e}] ELSE recorded
     /\ calls' = [calls EXCEPT ![k].fetched = calls[k].fetched \ {e},
                               ![k].used = IF stored THEN calls[k].used + 1 ELSE calls[k].used]
     /\ UNCHANGED <<passes, members, sockets, entered, allocations>>

(* Variant: a limit that is just reached is not over yet.                  *)
LimitPassed(k) == calls[k].used > calls[k].amount

LimitReached(k) == calls[k].used >= calls[k].amount

(* The totals are written from what was read and counted; reaching the     *)
(* limit, or today's, pauses the allocation.                               *)
WriteUsage(k) ==
  LET m == calls[k].member
  IN /\ In(k, "metering")
     /\ calls[k].fetched = {}
     /\ \E today \in BOOLEAN :
          allocations' = [allocations EXCEPT
            ![m].used = calls[k].used,
            ![m].status = IF LimitReached(k) \/ today THEN "paused" ELSE allocations[m].status]
     /\ Ends(k)
     /\ UNCHANGED <<passes, members, sockets, entered, recorded>>
-----------------------------------------------------------------------------
poolVars == <<allocations, recorded>>

(* poolSummary and createPass: no more than what the allocations leave of  *)
(* the plan.  Passes that nobody has claimed yet do not count.             *)
Available ==
  Plan - MapThenSumSet(LAMBDA m : allocations[m].total,
                       {m \in Member : allocations[m].status \in {"active", "paused"}})

Invite(k) ==
  \/ \E amount \in 0 .. Plan : amount <= Available /\ AskPass(k, amount) /\ UNCHANGED poolVars
  \/ \E p \in Pass : CreatePass(k, p) /\ UNCHANGED poolVars

Claim(k) ==
  \/ \E m \in Member, p \in Pass : ReadPass(k, m, p) /\ UNCHANGED poolVars
  \/ ClaimPass(k) /\ UNCHANGED poolVars
  \/ Join(k) /\ UNCHANGED poolVars
  \/ OpenAllocation(k)
  \/ GrantAccess(k) /\ UNCHANGED poolVars

RevokeAccess(k) ==
  \/ \E m \in Member : AskRevoke(k, m)
  \/ EndAllocation(k)
  \/ Suspend(k) /\ UNCHANGED poolVars
  \/ Silence(k) /\ UNCHANGED poolVars

StartRefresh(k) ==
  \E m \in Member, lapsed \in BOOLEAN, fetched \in SUBSET Event : AskRefresh(k, m, lapsed, fetched)

GoOnRefresh(k) ==
  \/ Expire(k)
  \/ \E e \in Event, stored \in BOOLEAN : RecordUsage(k, e, stored)
  \/ WriteUsage(k)

Owner ==
  \/ \E p \in Pass : RevokePass(p) /\ UNCHANGED poolVars
  \/ \E m \in Member, paused \in BOOLEAN : PauseAllocation(m, paused)
  \/ \E k \in Call, m \in Member, amount \in 1 .. Plan : AskResize(k, m, amount)

Live ==
  \/ \E x \in Socket, m \in Member : ReadMemberships(x, m) /\ UNCHANGED poolVars
  \/ \E x \in Socket : Subscribe(x) /\ UNCHANGED poolVars
  \/ \E x \in Socket : Disconnect(x) /\ UNCHANGED poolVars

Next ==
  \/ \E k \in Call : Invite(k) \/ Claim(k) \/ RevokeAccess(k) \/ Resize(k)
  \/ \E k \in Call : StartRefresh(k) \/ GoOnRefresh(k)
  \/ \E k \in Call : Fail(k) /\ UNCHANGED poolVars
  \/ Owner
  \/ Live

Spec == Init /\ [][Next]_vars
-----------------------------------------------------------------------------
(* Types of all variables (schema.prisma Invitation, SpaceMember,          *)
(* DataAllocation and DataUsageEvent).                                     *)
TypeOK ==
  /\ passes \in [Pass -> PassRow]
  /\ members \in [Member -> {"none", "active", "suspended"}]
  /\ sockets \in [Socket -> Connection]
  /\ calls \in [Call -> CallState]
  /\ entered \in [Pass -> Nat]
  /\ allocations \in [Member -> AllocationRow]
  /\ recorded \in [Member -> SUBSET Event]

(* "Two simultaneous redemptions cannot both succeed", and a Pass that was *)
(* revoked before it was claimed lets nobody in (claimPass's conditional   *)
(* update), as one-time codes promise.  A Pass that is revoked after it was *)
(* claimed is the claimer's all the same.                                  *)
PassState(p) ==
  CASE entered[p] > 0 -> "used"
    [] entered[p] = 0 /\ passes[p].by # None -> "taken"
    [] entered[p] = 0 /\ passes[p].by = None /\ passes[p].status = "none" -> "absent"
    [] entered[p] = 0 /\ passes[p].by = None /\ passes[p].status = "pending" -> "offered"
    [] entered[p] = 0 /\ passes[p].by = None /\ passes[p].status = "revoked" -> "withdrawn"

OneTime == INSTANCE OneTimeCode WITH
  Code <- Pass, state <- [p \in Pass |-> PassState(p)], uses <- entered

PassesWorkOnce == OneTime!Spec

(* "An overlapping poll cannot double-count the same bytes": however many  *)
(* refreshes overlap, nobody is charged more than the provider reported    *)
(* (refreshUsage's writes of totals it computed from an earlier read).     *)
NeverOvercharged ==
  \A m \in Member : allocations[m].used <= Cardinality(recorded[m])

(* A person who is out: suspended, no Pass being claimed and no connection *)
(* that hears of the Space, or is about to.                                *)
Out(m) ==
  /\ members[m] = "suspended"
  /\ \A k \in Call :
       calls[k].member = m => calls[k].phase \notin {"joining", "opening", "granting"}
  /\ \A x \in Socket : sockets[x].member = m => ~sockets[x].hears

(* The step claims a Pass for m.                                           *)
PassClaimed(m) == \E p \in Pass : passes[p].by # m /\ passes'[p].by = m

(* "An event can only ever reach someone already entitled": who is out     *)
(* hears nothing again until a Pass of his is claimed (handleConnection    *)
(* and revokeSpaceAccess).                                                 *)
OutHearsNothing ==
  [][\A m \in Member : Out(m) => Out(m)' \/ PassClaimed(m)]_vars

Runs(m) == allocations[m].status = "active"

(* m may go on although all of the allocation is known to be used.         *)
Overrun(m) == Runs(m) /\ allocations[m].used >= allocations[m].total

(* The step starts m's allocation: a person resumes it, or a Pass opens it. *)
Started(m) ==
  \/ PauseAllocation(m, FALSE)
  \/ \E k \in Call : calls[k].member = m /\ OpenAllocation(k)

(* The step gives m another total, or writes the usage of a refresh that   *)
(* knows another total than the one in force.                              *)
TotalMoved(m) ==
  \E k \in Call :
    /\ calls[k].member = m
    /\ Resize(k) \/ (WriteUsage(k) /\ calls[k].amount # allocations[m].total)

(* "Reaching a limit pauses the allocation": however many refreshes        *)
(* overlap and write over each other, none of them starts an allocation    *)
(* that was stopped, by a limit or by a person, and none lets one run on   *)
(* whose total, unless it was changed meanwhile, is known to be used       *)
(* (refreshUsage, pauseAllocation, openAllocation, updateAllocation).      *)
LimitStops ==
  [][\A m \in Member :
       /\ Runs(m)' /\ ~Runs(m) => Started(m)
       /\ Overrun(m)' /\ ~Overrun(m) => Started(m) \/ TotalMoved(m)]_vars
=============================================================================
