---------------------------- MODULE SpacePasses ----------------------------
(***************************************************************************)
(* NetLink Passes, the membership they give in one Space, and the live     *)
(* connections of its members (apps/api/src/data/data.service.ts: Passes   *)
(* and revokeAccess; apps/api/src/live/live.gateway.ts).                   *)
(*                                                                         *)
(* The handlers' statements interleave; `calls` holds the requests in      *)
(* progress.  Refusals that change nothing (an expired Pass, one that was  *)
(* sent to a different address, a missing permission) are requests that do *)
(* not take place.                                                         *)
(***************************************************************************)
EXTENDS Integers, FiniteSets

CONSTANTS
  Member,   \* people other than the owner
  Pass,     \* identities for rows of Invitation
  Socket,   \* live connections
  Call,     \* requests the control plane can be serving at once
  Event,    \* pieces of usage the provider may report
  Plan,     \* the bytes of the owner's plan
  None

ASSUME PassConstants ==
  /\ Plan \in Nat /\ IsFiniteSet(Event)
  /\ None \notin Member \cup Pass \cup Call \cup Event

VARIABLES
  passes,   \* passes[p]: the row of Pass p
  members,  \* members[m]: what m is in the Space
  sockets,  \* sockets[x]: live connection x
  calls,    \* calls[k]: a request in progress
  entered   \* history: how often each Pass has let somebody in

passVars == <<passes, members, sockets, calls, entered>>
-----------------------------------------------------------------------------
(* amount: the bytes the Pass gives, 0 for a Pass without data.            *)
PassRow == [status : {"none", "pending", "claimed", "revoked"}, amount : 0 .. Plan,
            by : Member \cup {None}]

NoPass == [status |-> "none", amount |-> 0, by |-> None]

(* hears: whether the connection is told of the Space's events.            *)
Connection == [state : {"closed", "joining", "open"}, member : Member \cup {None},
               hears : BOOLEAN]

NoConnection == [state |-> "closed", member |-> None, hears |-> FALSE]

CallState ==
  [phase : {"idle", "inviting", "claiming", "joining", "opening", "granting",
            "ending", "suspending", "silencing", "resizing", "expiring", "metering"},
   pass : Pass \cup {None}, member : Member \cup {None}, amount : 0 .. Plan,
   used : 0 .. Cardinality(Event), fetched : SUBSET Event]

NoCall == [phase |-> "idle", pass |-> None, member |-> None, amount |-> 0, used |-> 0,
           fetched |-> {}]

PassInit ==
  /\ passes = [p \in Pass |-> NoPass]
  /\ members = [m \in Member |-> "none"]
  /\ sockets = [x \in Socket |-> NoConnection]
  /\ calls = [k \in Call |-> NoCall]
  /\ entered = [p \in Pass |-> 0]

In(k, phase) == calls[k].phase = phase

Goes(k, phase) == calls' = [calls EXCEPT ![k].phase = phase]

Ends(k) == calls' = [calls EXCEPT ![k] = NoCall]

(* The request dies on the way; what it wrote stays written.               *)
Fail(k) ==
  /\ ~In(k, "idle")
  /\ Ends(k)
  /\ UNCHANGED <<passes, members, sockets, entered>>
-----------------------------------------------------------------------------
(* createPass, once the pool has been found to hold the amount.            *)
AskPass(k, amount) ==
  /\ In(k, "idle")
  /\ calls' = [calls EXCEPT ![k] = [NoCall EXCEPT !.phase = "inviting", !.amount = amount]]
  /\ UNCHANGED <<passes, members, sockets, entered>>

CreatePass(k, p) ==
  /\ In(k, "inviting")
  /\ passes[p].status = "none"
  /\ passes' = [passes EXCEPT ![p] = [status |-> "pending", amount |-> calls[k].amount,
                                      by |-> None]]
  /\ Ends(k)
  /\ UNCHANGED <<members, sockets, entered>>

(* revokePass asks for nothing but the Pass.                               *)
RevokePass(p) ==
  /\ passes[p].status # "none"
  /\ passes' = [passes EXCEPT ![p].status = "revoked"]
  /\ UNCHANGED <<members, sockets, calls, entered>>
-----------------------------------------------------------------------------
(* claimPass                                                               *)

ReadPass(k, m, p) ==
  /\ In(k, "idle")
  /\ passes[p].status = "pending"
  /\ calls' = [calls EXCEPT ![k] = [NoCall EXCEPT !.phase = "claiming", !.member = m,
                                                  !.pass = p, !.amount = passes[p].amount]]
  /\ UNCHANGED <<passes, members, sockets, entered>>

(* Variant: the claim does not ask whether the Pass is still there.        *)
ClaimableAlways(p) == passes[p].status # "none"

(* The condition of the claim.                                             *)
Claimable(p) == passes[p].status = "pending"

ClaimPass(k) ==
  LET p == calls[k].pass
  IN /\ In(k, "claiming")
     /\ IF Claimable(p)
        THEN /\ passes' = [passes EXCEPT ![p].status = "claimed", ![p].by = calls[k].member]
             /\ Goes(k, "joining")
        ELSE UNCHANGED passes /\ Ends(k)
     /\ UNCHANGED <<members, sockets, entered>>

(* The membership is created, or comes back with the Pass's permissions.   *)
Join(k) ==
  /\ In(k, "joining")
  /\ members' = [members EXCEPT ![calls[k].member] = "active"]
  /\ entered' = [entered EXCEPT ![calls[k].pass] = entered[calls[k].pass] + 1]
  /\ Goes(k, IF calls[k].amount > 0 THEN "opening" ELSE "granting")
  /\ UNCHANGED <<passes, sockets>>

(* grantSpaceAccess                                                        *)
GrantAccess(k) ==
  /\ In(k, "granting")
  /\ sockets' = [x \in Socket |->
       IF sockets[x].state = "open" /\ sockets[x].member = calls[k].member
       THEN [sockets[x] EXCEPT !.hears = TRUE] ELSE sockets[x]]
  /\ Ends(k)
  /\ UNCHANGED <<passes, members, entered>>
-----------------------------------------------------------------------------
(* revokeAccess, after the allocation, if there is one, was ended.         *)
Suspend(k) ==
  /\ In(k, "suspending")
  /\ members' = [members EXCEPT ![calls[k].member] = "suspended"]
  /\ Goes(k, "silencing")
  /\ UNCHANGED <<passes, sockets, entered>>

(* revokeSpaceAccess                                                       *)
Silence(k) ==
  /\ In(k, "silencing")
  /\ sockets' = [x \in Socket |->
       IF sockets[x].state = "open" /\ sockets[x].member = calls[k].member
       THEN [sockets[x] EXCEPT !.hears = FALSE] ELSE sockets[x]]
  /\ Ends(k)
  /\ UNCHANGED <<passes, members, entered>>
-----------------------------------------------------------------------------
(* LiveGateway                                                             *)

(* Variant: whoever has a membership hears, suspended or not.              *)
EntitledOnceMember(m) == members[m] # "none"

(* The memberships that are joined at the handshake.                       *)
Entitled(m) == members[m] = "active"

(* handleConnection: the memberships are read, the connection added later. *)
ReadMemberships(x, m) ==
  /\ sockets[x].state = "closed"
  /\ sockets' = [sockets EXCEPT ![x] = [state |-> "joining", member |-> m, hears |-> Entitled(m)]]
  /\ UNCHANGED <<passes, members, calls, entered>>

Subscribe(x) ==
  /\ sockets[x].state = "joining"
  /\ sockets' = [sockets EXCEPT ![x].state = "open"]
  /\ UNCHANGED <<passes, members, calls, entered>>

(* handleDisconnect, or disconnectDevice for a revoked device.             *)
Disconnect(x) ==
  /\ sockets[x].state = "open"
  /\ sockets' = [sockets EXCEPT ![x] = NoConnection]
  /\ UNCHANGED <<passes, members, calls, entered>>
=============================================================================
