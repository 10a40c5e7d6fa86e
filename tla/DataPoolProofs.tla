--------------------------- MODULE DataPoolProofs --------------------------
(***************************************************************************)
(* The safety properties of DataPool, for every set of people, Passes,     *)
(* connections, requests and events, and every plan.                       *)
(*                                                                         *)
(* The argument.  A Pass has at most one request that joins with it, and   *)
(* none once it has let somebody in: only the claim makes one, and it      *)
(* takes a Pass that is pending, which nobody ever claimed (PassesInv).    *)
(* What a refresh has counted, it counted for events that were recorded    *)
(* by then, and recorded events stay recorded, so neither its count nor    *)
(* the total it writes can be more than their number (MeterInv).           *)
(* Limits need no more than the types: each statement that writes an       *)
(* allocation is looked at by itself.                                      *)
(***************************************************************************)
EXTENDS DataPool, TLAPS, FiniteSetTheorems

(* Whoever is past its first statement knows for whom it works.            *)
CallsInv ==
  \A k \in Call :
    /\ calls[k].phase \notin {"idle", "inviting"} => calls[k].member # None
    /\ calls[k].phase \in {"claiming", "joining"} => calls[k].pass # None

PassesInv ==
  /\ \A p \in Pass :
       /\ entered[p] <= 1
       /\ passes[p].by = None => entered[p] = 0
       /\ passes[p].status \in {"none", "pending"} => passes[p].by = None
       /\ passes[p].status = "claimed" => passes[p].by # None
  /\ \A k \in Call :
       In(k, "joining") => passes[calls[k].pass].by # None /\ entered[calls[k].pass] = 0
  /\ \A j, k \in Call :
       In(j, "joining") /\ In(k, "joining") /\ calls[j].pass = calls[k].pass => j = k

MeterInv ==
  /\ \A m \in Member : allocations[m].used <= Cardinality(recorded[m])
  /\ \A k \in Call :
       In(k, "metering") => calls[k].used <= Cardinality(recorded[calls[k].member])

(* The inductive invariant.                                                *)
IInv ==
  /\ TypeOK
  /\ CallsInv
  /\ PassesInv
  /\ MeterInv

(* The updates of one row.                                                 *)
LEMMA AllocationUpdates ==
  ASSUME NEW row \in AllocationRow
  PROVE  /\ \A total \in 0 .. Plan : [row EXCEPT !.total = total] \in AllocationRow
         /\ \A status \in {"none", "active", "paused", "expired", "revoked"} :
              /\ [row EXCEPT !.status = status] \in AllocationRow
              /\ \A used \in 0 .. Cardinality(Event) :
                   [row EXCEPT !.used = used, !.status = status] \in AllocationRow
BY DEF AllocationRow

(* The numbers of events.                                                  *)
LEMMA EventCounts ==
  ASSUME NEW S \in SUBSET Event
  PROVE  /\ Cardinality(S) \in Nat /\ Cardinality(Event) \in Nat
         /\ Cardinality(S) <= Cardinality(Event)
         /\ \A e \in Event : /\ e \notin S => Cardinality(S \cup {e}) = Cardinality(S) + 1
                             /\ Cardinality(S \cup {e}) \in Nat
                             /\ Cardinality(S) <= Cardinality(S \cup {e})
                             /\ Cardinality(S \cup {e}) <= Cardinality(Event)
<1>1. IsFiniteSet(Event) /\ IsFiniteSet(S)
  BY PassConstants, FS_Subset
<1>2. /\ Cardinality(S) \in Nat /\ Cardinality(Event) \in Nat
      /\ Cardinality(S) <= Cardinality(Event)
  BY <1>1, FS_Subset, FS_CardinalityType
<1>3. ASSUME NEW e \in Event
      PROVE  /\ Cardinality(S \cup {e}) = IF e \in S THEN Cardinality(S) ELSE Cardinality(S) + 1
             /\ Cardinality(S \cup {e}) <= Cardinality(Event)
  <2>1. Cardinality(S \cup {e}) = IF e \in S THEN Cardinality(S) ELSE Cardinality(S) + 1
    BY <1>1, FS_AddElement
  <2>2. S \cup {e} \in SUBSET Event
    OBVIOUS
  <2>3. Cardinality(S \cup {e}) <= Cardinality(Event)
    BY <1>1, <2>2, FS_Subset
  <2> QED
    BY <2>1, <2>3
<1> QED
  BY <1>2, <1>3

LEMMA NoCallTyped == NoCall \in CallState
<1>1. 0 \in 0 .. Plan /\ 0 \in 0 .. Cardinality(Event) /\ {} \in SUBSET Event
  <2>1. Cardinality(Event) \in Nat /\ Plan \in Nat
    BY EventCounts, PassConstants
  <2> QED
    BY <2>1
<1> QED
  BY <1>1 DEF NoCall, CallState

-----------------------------------------------------------------------------
LEMMA AskPassKeeps ==
  ASSUME IInv, NEW k \in Call, NEW amount \in 0 .. Plan, AskPass(k, amount), UNCHANGED poolVars
  PROVE  IInv'
<1> USE PassConstants DEF IInv, passVars, poolVars
<1>a. Cardinality(Event) \in Nat
  BY EventCounts
<1>1. TypeOK'
  <2>1. calls' \in [Call -> CallState]
    <3>1. [NoCall EXCEPT !.phase = "inviting", !.amount = amount] \in CallState
      BY <1>a, NoCallTyped DEF CallState
    <3> QED
      BY <3>1 DEF AskPass, TypeOK
  <2>2. UNCHANGED <<passes, members, sockets, entered, allocations, recorded>>
    BY DEF AskPass
  <2> QED
    BY <2>1, <2>2 DEF TypeOK
<1>2. CallsInv'
  BY DEF AskPass, NoCall, In, Has, TypeOK, CallsInv, CallState
<1>3. PassesInv'
  BY DEF AskPass, NoCall, In, Has, TypeOK, PassesInv, CallsInv, PassRow, CallState
<1>4. MeterInv'
  BY <1>a DEF AskPass, NoCall, In, Has, TypeOK, MeterInv, CallsInv, CallState,
         AllocationRow
<1> QED
  BY <1>1, <1>2, <1>3, <1>4

LEMMA CreatePassKeeps ==
  ASSUME IInv, NEW k \in Call, NEW p \in Pass, CreatePass(k, p), UNCHANGED poolVars
  PROVE  IInv'
<1> USE PassConstants DEF IInv, passVars, poolVars
<1>a. Cardinality(Event) \in Nat
  BY EventCounts
<1>1. TypeOK'
  <2>1. passes' \in [Pass -> PassRow]
    BY <1>a DEF CreatePass, Ends, NoCall, In, Has, TypeOK, CallsInv, PassRow, CallState
  <2>2. calls' \in [Call -> CallState]
    BY <1>a DEF CreatePass, Ends, NoCall, In, Has, TypeOK, CallsInv, CallState
  <2>3. UNCHANGED <<members, sockets, entered, allocations, recorded>>
    BY DEF CreatePass
  <2> QED
    BY <2>1, <2>2, <2>3 DEF TypeOK
<1>2. CallsInv'
  BY DEF CreatePass, Ends, NoCall, In, Has, TypeOK, CallsInv, CallState
<1>3. PassesInv'
  BY DEF CreatePass, Ends, NoCall, In, Has, TypeOK, PassesInv, CallsInv, PassRow,
         CallState
<1>4. MeterInv'
  BY <1>a DEF CreatePass, Ends, NoCall, In, Has, TypeOK, MeterInv, CallsInv, CallState,
         AllocationRow
<1> QED
  BY <1>1, <1>2, <1>3, <1>4

LEMMA RevokePassKeeps ==
  ASSUME IInv, NEW p \in Pass, RevokePass(p), UNCHANGED poolVars
  PROVE  IInv'
<1> USE PassConstants DEF IInv, passVars, poolVars
<1>a. Cardinality(Event) \in Nat
  BY EventCounts
<1>1. TypeOK'
  <2>1. passes' \in [Pass -> PassRow]
    BY <1>a DEF RevokePass, In, Has, TypeOK, CallsInv, PassRow, CallState
  <2>2. UNCHANGED <<members, sockets, calls, entered, allocations, recorded>>
    BY DEF RevokePass
  <2> QED
    BY <2>1, <2>2 DEF TypeOK
<1>2. CallsInv'
  BY DEF RevokePass, In, Has, TypeOK, CallsInv, CallState
<1>3. PassesInv'
  BY DEF RevokePass, In, Has, TypeOK, PassesInv, CallsInv, PassRow, CallState
<1>4. MeterInv'
  BY <1>a DEF RevokePass, In, Has, TypeOK, MeterInv, CallsInv, CallState, AllocationRow
<1> QED
  BY <1>1, <1>2, <1>3, <1>4

LEMMA ReadPassKeeps ==
  ASSUME IInv, NEW k \in Call, NEW m \in Member, NEW p \in Pass, ReadPass(k, m, p), UNCHANGED poolVars
  PROVE  IInv'
<1> USE PassConstants DEF IInv, passVars, poolVars
<1>a. Cardinality(Event) \in Nat
  BY EventCounts
<1>1. TypeOK'
  <2>1. calls' \in [Call -> CallState]
    <3>1. [NoCall EXCEPT !.phase = "claiming", !.member = m, !.pass = p, !.amount = passes[p].amount] \in CallState
      BY <1>a, NoCallTyped DEF CallState, TypeOK, PassRow
    <3> QED
      BY <3>1 DEF ReadPass, TypeOK
  <2>2. UNCHANGED <<passes, members, sockets, entered, allocations, recorded>>
    BY DEF ReadPass
  <2> QED
    BY <2>1, <2>2 DEF TypeOK
<1>2. CallsInv'
  BY DEF ReadPass, NoCall, In, Has, TypeOK, CallsInv, CallState
<1>3. PassesInv'
  BY DEF ReadPass, NoCall, In, Has, TypeOK, PassesInv, CallsInv, PassRow, CallState
<1>4. MeterInv'
  BY <1>a DEF ReadPass, NoCall, In, Has, TypeOK, MeterInv, CallsInv, CallState,
         AllocationRow
<1> QED
  BY <1>1, <1>2, <1>3, <1>4

LEMMA ClaimPassKeeps ==
  ASSUME IInv, NEW k \in Call, ClaimPass(k), UNCHANGED poolVars
  PROVE  IInv'
<1> USE PassConstants DEF IInv, passVars, poolVars
<1>a. Cardinality(Event) \in Nat
  BY EventCounts
<1>1. TypeOK'
  <2>1. passes' \in [Pass -> PassRow]
    <3>1. calls[k].pass \in Pass /\ calls[k].member \in Member
      BY DEF ClaimPass, In, CallsInv, TypeOK, CallState
    <3>2. [passes[calls[k].pass] EXCEPT !.status = "claimed", !.by = calls[k].member] \in PassRow
      <4>1. \A row \in PassRow, m \in Member :
              [row EXCEPT !.status = "claimed", !.by = m] \in PassRow
        BY DEF PassRow
      <4> QED BY <3>1, <4>1 DEF TypeOK
    <3>3. \/ passes' = passes
          \/ passes' = [passes EXCEPT ![calls[k].pass] =
               [passes[calls[k].pass] EXCEPT !.status = "claimed", !.by = calls[k].member]]
      BY <3>1 DEF ClaimPass, TypeOK
    <3> QED
      BY <3>1, <3>2, <3>3 DEF TypeOK
  <2>2. calls' \in [Call -> CallState]
    BY <1>a DEF ClaimPass, Claimable, Goes, Ends, NoCall, In, Has, TypeOK, CallsInv,
           CallState
  <2>3. UNCHANGED <<members, sockets, entered, allocations, recorded>>
    BY DEF ClaimPass
  <2> QED
    BY <2>1, <2>2, <2>3 DEF TypeOK
<1>2. CallsInv'
  BY DEF ClaimPass, Claimable, Goes, Ends, NoCall, In, Has, TypeOK, CallsInv, CallState
<1>3. PassesInv'
  <2>1. CASE Claimable(calls[k].pass)
    <3> DEFINE q == calls[k].pass
    <3>1. /\ In(k, "claiming") /\ q \in Pass /\ calls[k].member \in Member
          /\ passes[q].status = "pending" /\ entered' = entered
          /\ passes' = [passes EXCEPT ![q].status = "claimed", ![q].by = calls[k].member]
          /\ calls' = [calls EXCEPT ![k].phase = "joining"]
      BY <2>1 DEF ClaimPass, Claimable, Goes, In, TypeOK, CallsInv, CallState
    <3>2. \A p \in Pass : /\ p # q => passes'[p] = passes[p]
                          /\ p = q => passes'[p].by # None /\ passes'[p].status = "claimed"
      BY <3>1 DEF TypeOK, PassRow
    <3>3. entered[q] = 0 /\ \A j \in Call : In(j, "joining") => calls[j].pass # q
      BY <3>1 DEF PassesInv, TypeOK
    <3>4. /\ calls'[k].pass = q
          /\ \A j \in Call : j # k => calls'[j] = calls[j]
      BY <3>1 DEF TypeOK, CallState
    <3>5. \A j \in Call : In(j, "joining") => calls[j].pass \in Pass
      BY DEF In, CallsInv, TypeOK, CallState
    <3> QED
      <4>1. \A p \in Pass : /\ entered'[p] <= 1
                            /\ passes'[p].by = None => entered'[p] = 0
                            /\ passes'[p].status \in {"none", "pending"} => passes'[p].by = None
                            /\ passes'[p].status = "claimed" => passes'[p].by # None
        <5> SUFFICES ASSUME NEW p \in Pass
                     PROVE  /\ entered'[p] <= 1
                            /\ passes'[p].by = None => entered'[p] = 0
                            /\ passes'[p].status \in {"none", "pending"} => passes'[p].by = None
                            /\ passes'[p].status = "claimed" => passes'[p].by # None
          OBVIOUS
        <5>1. CASE p = q
          <6>1. passes'[p].by # None /\ passes'[p].status = "claimed"
            BY <3>2, <5>1
          <6>2. entered'[p] = 0
            BY <3>1, <3>3, <5>1
          <6> QED BY <6>1, <6>2
        <5>2. CASE p # q
          <6>1. passes'[p] = passes[p] /\ entered'[p] = entered[p]
            BY <3>1, <3>2, <5>2
          <6> QED BY <6>1 DEF PassesInv
        <5> QED BY <5>1, <5>2
      <4>2. \A j \in Call : calls'[j].phase = "joining"
               => passes'[calls'[j].pass].by # None /\ entered'[calls'[j].pass] = 0
        <5> SUFFICES ASSUME NEW j \in Call, calls'[j].phase = "joining"
                     PROVE  passes'[calls'[j].pass].by # None /\ entered'[calls'[j].pass] = 0
          OBVIOUS
        <5>1. CASE j = k
          BY <3>1, <3>2, <3>3, <3>4, <5>1
        <5>2. CASE j # k
          <6>1. calls[j].phase = "joining" /\ calls'[j] = calls[j]
            BY <3>4, <5>2
          <6>2. calls[j].pass \in Pass /\ calls[j].pass # q
            BY <3>3, <3>5, <6>1 DEF In
          <6>3. passes[calls[j].pass].by # None /\ entered[calls[j].pass] = 0
            BY <6>1 DEF PassesInv, In
          <6> QED
            BY <3>1, <3>2, <6>1, <6>2, <6>3
        <5> QED
          BY <5>1, <5>2
      <4>3. \A i, j \in Call :
              calls'[i].phase = "joining" /\ calls'[j].phase = "joining" /\ calls'[i].pass = calls'[j].pass
                => i = j
        BY <3>3, <3>4 DEF PassesInv, In
      <4> QED
        BY <4>1, <4>2, <4>3 DEF PassesInv, In
  <2>2. CASE ~Claimable(calls[k].pass)
    <3>1. /\ passes' = passes /\ entered' = entered
          /\ calls' = [calls EXCEPT ![k] = NoCall]
      BY <2>2 DEF ClaimPass, Ends
    <3> QED
      BY <3>1 DEF PassesInv, In, NoCall, TypeOK
  <2> QED
    BY <2>1, <2>2
<1>4. MeterInv'
  <2>1. UNCHANGED <<allocations, recorded>>
    OBVIOUS
  <2>2. \A j \in Call : In(j, "metering")' => calls'[j] = calls[j]
    BY DEF ClaimPass, Goes, Ends, NoCall, In, TypeOK, CallState
  <2> QED BY <2>1, <2>2 DEF MeterInv, In
<1> QED
  BY <1>1, <1>2, <1>3, <1>4

LEMMA JoinKeeps ==
  ASSUME IInv, NEW k \in Call, Join(k), UNCHANGED poolVars
  PROVE  IInv'
<1> USE PassConstants DEF IInv, passVars, poolVars
<1>a. Cardinality(Event) \in Nat
  BY EventCounts
<1>1. TypeOK'
  <2>1. members' \in [Member -> {"none", "active", "suspended"}]
    BY <1>a DEF Join, Goes, In, Has, TypeOK, CallsInv
  <2>2. entered' \in [Pass -> Nat]
    BY <1>a DEF Join, Goes, In, Has, TypeOK, CallsInv, CallState
  <2>3. calls' \in [Call -> CallState]
    BY <1>a DEF Join, Goes, In, Has, TypeOK, CallsInv, CallState
  <2>4. UNCHANGED <<passes, sockets, allocations, recorded>>
    BY DEF Join
  <2> QED
    BY <2>1, <2>2, <2>3, <2>4 DEF TypeOK
<1>2. CallsInv'
  BY DEF Join, Goes, In, Has, TypeOK, CallsInv, CallState
<1>3. PassesInv'
  BY DEF Join, Goes, In, Has, TypeOK, PassesInv, CallsInv, PassRow, CallState
<1>4. MeterInv'
  BY <1>a DEF Join, Goes, In, Has, TypeOK, MeterInv, CallsInv, CallState, AllocationRow
<1> QED
  BY <1>1, <1>2, <1>3, <1>4

LEMMA GrantAccessKeeps ==
  ASSUME IInv, NEW k \in Call, GrantAccess(k), UNCHANGED poolVars
  PROVE  IInv'
<1> USE PassConstants DEF IInv, passVars, poolVars
<1>a. Cardinality(Event) \in Nat
  BY EventCounts
<1>1. TypeOK'
  <2>1. sockets' \in [Socket -> Connection]
    <3>1. \A x \in Socket : [sockets[x] EXCEPT !.hears = TRUE] \in Connection
      BY DEF TypeOK, Connection
    <3> QED
      BY <3>1 DEF GrantAccess, TypeOK
  <2>2. calls' \in [Call -> CallState]
    BY <1>a DEF GrantAccess, Ends, NoCall, In, Has, TypeOK, CallsInv, CallState
  <2>3. UNCHANGED <<passes, members, entered, allocations, recorded>>
    BY DEF GrantAccess
  <2> QED
    BY <2>1, <2>2, <2>3 DEF TypeOK
<1>2. CallsInv'
  BY DEF GrantAccess, Ends, NoCall, In, Has, TypeOK, CallsInv, CallState
<1>3. PassesInv'
  BY DEF GrantAccess, Ends, NoCall, In, Has, TypeOK, PassesInv, CallsInv, PassRow,
         CallState
<1>4. MeterInv'
  BY <1>a DEF GrantAccess, Ends, NoCall, In, Has, TypeOK, MeterInv, CallsInv, CallState,
         AllocationRow
<1> QED
  BY <1>1, <1>2, <1>3, <1>4

LEMMA SuspendKeeps ==
  ASSUME IInv, NEW k \in Call, Suspend(k), UNCHANGED poolVars
  PROVE  IInv'
<1> USE PassConstants DEF IInv, passVars, poolVars
<1>a. Cardinality(Event) \in Nat
  BY EventCounts
<1>1. TypeOK'
  <2>1. members' \in [Member -> {"none", "active", "suspended"}]
    BY <1>a DEF Suspend, Goes, In, Has, TypeOK, CallsInv
  <2>2. calls' \in [Call -> CallState]
    BY <1>a DEF Suspend, Goes, In, Has, TypeOK, CallsInv, CallState
  <2>3. UNCHANGED <<passes, sockets, entered, allocations, recorded>>
    BY DEF Suspend
  <2> QED
    BY <2>1, <2>2, <2>3 DEF TypeOK
<1>2. CallsInv'
  BY DEF Suspend, Goes, In, Has, TypeOK, CallsInv, CallState
<1>3. PassesInv'
  BY DEF Suspend, Goes, In, Has, TypeOK, PassesInv, CallsInv, PassRow, CallState
<1>4. MeterInv'
  BY <1>a DEF Suspend, Goes, In, Has, TypeOK, MeterInv, CallsInv, CallState, AllocationRow
<1> QED
  BY <1>1, <1>2, <1>3, <1>4

LEMMA SilenceKeeps ==
  ASSUME IInv, NEW k \in Call, Silence(k), UNCHANGED poolVars
  PROVE  IInv'
<1> USE PassConstants DEF IInv, passVars, poolVars
<1>a. Cardinality(Event) \in Nat
  BY EventCounts
<1>1. TypeOK'
  <2>1. sockets' \in [Socket -> Connection]
    <3>1. \A x \in Socket : [sockets[x] EXCEPT !.hears = FALSE] \in Connection
      BY DEF TypeOK, Connection
    <3> QED
      BY <3>1 DEF Silence, TypeOK
  <2>2. calls' \in [Call -> CallState]
    BY <1>a DEF Silence, Ends, NoCall, In, Has, TypeOK, CallsInv, CallState
  <2>3. UNCHANGED <<passes, members, entered, allocations, recorded>>
    BY DEF Silence
  <2> QED
    BY <2>1, <2>2, <2>3 DEF TypeOK
<1>2. CallsInv'
  BY DEF Silence, Ends, NoCall, In, Has, TypeOK, CallsInv, CallState
<1>3. PassesInv'
  BY DEF Silence, Ends, NoCall, In, Has, TypeOK, PassesInv, CallsInv, PassRow, CallState
<1>4. MeterInv'
  BY <1>a DEF Silence, Ends, NoCall, In, Has, TypeOK, MeterInv, CallsInv, CallState,
         AllocationRow
<1> QED
  BY <1>1, <1>2, <1>3, <1>4

LEMMA ReadMembershipsKeeps ==
  ASSUME IInv, NEW x \in Socket, NEW m \in Member, ReadMemberships(x, m), UNCHANGED poolVars
  PROVE  IInv'
<1> USE PassConstants DEF IInv, passVars, poolVars
<1>a. Cardinality(Event) \in Nat
  BY EventCounts
<1>1. TypeOK'
  <2>1. sockets' \in [Socket -> Connection]
    BY <1>a DEF ReadMemberships, Entitled, In, Has, TypeOK, CallsInv, Connection
  <2>2. UNCHANGED <<passes, members, calls, entered, allocations, recorded>>
    BY DEF ReadMemberships
  <2> QED
    BY <2>1, <2>2 DEF TypeOK
<1>2. CallsInv'
  BY DEF ReadMemberships, Entitled, In, Has, TypeOK, CallsInv, CallState
<1>3. PassesInv'
  BY DEF ReadMemberships, Entitled, In, Has, TypeOK, PassesInv, CallsInv, PassRow,
         CallState
<1>4. MeterInv'
  BY <1>a DEF ReadMemberships, Entitled, In, Has, TypeOK, MeterInv, CallsInv, CallState,
         AllocationRow
<1> QED
  BY <1>1, <1>2, <1>3, <1>4

LEMMA SubscribeKeeps ==
  ASSUME IInv, NEW x \in Socket, Subscribe(x), UNCHANGED poolVars
  PROVE  IInv'
<1> USE PassConstants DEF IInv, passVars, poolVars
<1>a. Cardinality(Event) \in Nat
  BY EventCounts
<1>1. TypeOK'
  <2>1. sockets' \in [Socket -> Connection]
    BY <1>a DEF Subscribe, In, Has, TypeOK, CallsInv, Connection
  <2>2. UNCHANGED <<passes, members, calls, entered, allocations, recorded>>
    BY DEF Subscribe
  <2> QED
    BY <2>1, <2>2 DEF TypeOK
<1>2. CallsInv'
  BY DEF Subscribe, In, Has, TypeOK, CallsInv, CallState
<1>3. PassesInv'
  BY DEF Subscribe, In, Has, TypeOK, PassesInv, CallsInv, PassRow, CallState
<1>4. MeterInv'
  BY <1>a DEF Subscribe, In, Has, TypeOK, MeterInv, CallsInv, CallState, AllocationRow
<1> QED
  BY <1>1, <1>2, <1>3, <1>4

LEMMA DisconnectKeeps ==
  ASSUME IInv, NEW x \in Socket, Disconnect(x), UNCHANGED poolVars
  PROVE  IInv'
<1> USE PassConstants DEF IInv, passVars, poolVars
<1>a. Cardinality(Event) \in Nat
  BY EventCounts
<1>1. TypeOK'
  <2>1. sockets' \in [Socket -> Connection]
    BY <1>a DEF Disconnect, NoConnection, In, Has, TypeOK, CallsInv, Connection
  <2>2. UNCHANGED <<passes, members, calls, entered, allocations, recorded>>
    BY DEF Disconnect
  <2> QED
    BY <2>1, <2>2 DEF TypeOK
<1>2. CallsInv'
  BY DEF Disconnect, NoConnection, In, Has, TypeOK, CallsInv, CallState
<1>3. PassesInv'
  BY DEF Disconnect, NoConnection, In, Has, TypeOK, PassesInv, CallsInv, PassRow,
         CallState
<1>4. MeterInv'
  BY <1>a DEF Disconnect, NoConnection, In, Has, TypeOK, MeterInv, CallsInv, CallState,
         AllocationRow
<1> QED
  BY <1>1, <1>2, <1>3, <1>4

LEMMA FailKeeps ==
  ASSUME IInv, NEW k \in Call, Fail(k), UNCHANGED poolVars
  PROVE  IInv'
<1> USE PassConstants DEF IInv, passVars, poolVars
<1>a. Cardinality(Event) \in Nat
  BY EventCounts
<1>1. TypeOK'
  <2>1. calls' \in [Call -> CallState]
    BY <1>a DEF Fail, Ends, NoCall, In, Has, TypeOK, CallsInv, CallState
  <2>2. UNCHANGED <<passes, members, sockets, entered, allocations, recorded>>
    BY DEF Fail
  <2> QED
    BY <2>1, <2>2 DEF TypeOK
<1>2. CallsInv'
  BY DEF Fail, Ends, NoCall, In, Has, TypeOK, CallsInv, CallState
<1>3. PassesInv'
  BY DEF Fail, Ends, NoCall, In, Has, TypeOK, PassesInv, CallsInv, PassRow, CallState
<1>4. MeterInv'
  BY <1>a DEF Fail, Ends, NoCall, In, Has, TypeOK, MeterInv, CallsInv, CallState,
         AllocationRow
<1> QED
  BY <1>1, <1>2, <1>3, <1>4

LEMMA OpenAllocationKeeps ==
  ASSUME IInv, NEW k \in Call, OpenAllocation(k)
  PROVE  IInv'
<1> USE PassConstants DEF IInv, passVars, poolVars
<1>a. Cardinality(Event) \in Nat
  BY EventCounts
<1>1. TypeOK'
  <2>1. allocations' \in [Member -> AllocationRow]
    BY <1>a DEF OpenAllocation, Goes, In, Has, TypeOK, CallsInv, AllocationRow, CallState
  <2>2. calls' \in [Call -> CallState]
    BY <1>a DEF OpenAllocation, Goes, In, Has, TypeOK, CallsInv, CallState
  <2>3. UNCHANGED <<passes, members, sockets, entered, recorded>>
    BY DEF OpenAllocation
  <2> QED
    BY <2>1, <2>2, <2>3 DEF TypeOK
<1>2. CallsInv'
  BY DEF OpenAllocation, Goes, In, Has, TypeOK, CallsInv, CallState
<1>3. PassesInv'
  BY DEF OpenAllocation, Goes, In, Has, TypeOK, PassesInv, CallsInv, PassRow, CallState
<1>4. MeterInv'
  BY <1>a DEF OpenAllocation, Goes, In, Has, TypeOK, MeterInv, CallsInv, CallState,
         AllocationRow
<1> QED
  BY <1>1, <1>2, <1>3, <1>4

LEMMA PauseAllocationKeeps ==
  ASSUME IInv, NEW m \in Member, NEW paused \in BOOLEAN, PauseAllocation(m, paused)
  PROVE  IInv'
<1> USE PassConstants DEF IInv, passVars, poolVars
<1>a. Cardinality(Event) \in Nat
  BY EventCounts
<1>1. TypeOK'
  <2>1. allocations' \in [Member -> AllocationRow]
    BY <1>a DEF PauseAllocation, In, Has, TypeOK, CallsInv, AllocationRow, CallState
  <2>2. UNCHANGED <<passes, members, sockets, calls, entered, recorded>>
    BY DEF PauseAllocation
  <2> QED
    BY <2>1, <2>2 DEF TypeOK
<1>2. CallsInv'
  BY DEF PauseAllocation, In, Has, TypeOK, CallsInv, CallState
<1>3. PassesInv'
  BY DEF PauseAllocation, In, Has, TypeOK, PassesInv, CallsInv, PassRow, CallState
<1>4. MeterInv'
  BY <1>a DEF PauseAllocation, In, Has, TypeOK, MeterInv, CallsInv, CallState,
         AllocationRow
<1> QED
  BY <1>1, <1>2, <1>3, <1>4

LEMMA AskResizeKeeps ==
  ASSUME IInv, NEW k \in Call, NEW m \in Member, NEW amount \in 1 .. Plan, AskResize(k, m, amount)
  PROVE  IInv'
<1> USE PassConstants DEF IInv, passVars, poolVars
<1>a. Cardinality(Event) \in Nat
  BY EventCounts
<1>1. TypeOK'
  <2>1. calls' \in [Call -> CallState]
    <3>1. amount \in 0 .. Plan
      OBVIOUS
    <3>2. [NoCall EXCEPT !.phase = "resizing", !.member = m, !.amount = amount] \in CallState
      BY <1>a, <3>1, NoCallTyped DEF CallState
    <3> QED
      BY <3>2 DEF AskResize, TypeOK
  <2>2. UNCHANGED <<passes, members, sockets, entered, allocations, recorded>>
    BY DEF AskResize
  <2> QED
    BY <2>1, <2>2 DEF TypeOK
<1>2. CallsInv'
  BY DEF AskResize, NoCall, In, Has, TypeOK, CallsInv, CallState
<1>3. PassesInv'
  BY DEF AskResize, NoCall, In, Has, TypeOK, PassesInv, CallsInv, PassRow, CallState
<1>4. MeterInv'
  BY <1>a DEF AskResize, NoCall, In, Has, TypeOK, MeterInv, CallsInv, CallState,
         AllocationRow
<1> QED
  BY <1>1, <1>2, <1>3, <1>4

LEMMA ResizeKeeps ==
  ASSUME IInv, NEW k \in Call, Resize(k)
  PROVE  IInv'
<1> USE PassConstants DEF IInv, passVars, poolVars
<1>a. Cardinality(Event) \in Nat
  BY EventCounts
<1>1. TypeOK'
  <2>1. allocations' \in [Member -> AllocationRow]
    <3>1. calls[k].member \in Member /\ calls[k].amount \in 0 .. Plan
      BY DEF Resize, In, CallsInv, TypeOK, CallState
    <3>2. allocations' = [allocations EXCEPT
            ![calls[k].member] = [allocations[calls[k].member] EXCEPT !.total = calls[k].amount]]
      BY DEF Resize
    <3>3. [allocations[calls[k].member] EXCEPT !.total = calls[k].amount] \in AllocationRow
      BY <3>1, AllocationUpdates DEF TypeOK
    <3> QED
      BY <3>1, <3>2, <3>3 DEF TypeOK
  <2>2. calls' \in [Call -> CallState]
    BY <1>a DEF Resize, Ends, NoCall, In, Has, TypeOK, CallsInv, CallState
  <2>3. UNCHANGED <<passes, members, sockets, entered, recorded>>
    BY DEF Resize
  <2> QED
    BY <2>1, <2>2, <2>3 DEF TypeOK
<1>2. CallsInv'
  BY DEF Resize, Ends, NoCall, In, Has, TypeOK, CallsInv, CallState
<1>3. PassesInv'
  BY DEF Resize, Ends, NoCall, In, Has, TypeOK, PassesInv, CallsInv, PassRow, CallState
<1>4. MeterInv'
  BY <1>a DEF Resize, Ends, NoCall, In, Has, TypeOK, MeterInv, CallsInv, CallState,
         AllocationRow
<1> QED
  BY <1>1, <1>2, <1>3, <1>4

LEMMA AskRevokeKeeps ==
  ASSUME IInv, NEW k \in Call, NEW m \in Member, AskRevoke(k, m)
  PROVE  IInv'
<1> USE PassConstants DEF IInv, passVars, poolVars
<1>a. Cardinality(Event) \in Nat
  BY EventCounts
<1>1. TypeOK'
  <2>1. calls' \in [Call -> CallState]
    <3>1. [NoCall EXCEPT !.phase = "ending", !.member = m] \in CallState
      BY <1>a, NoCallTyped DEF CallState
    <3>2. [NoCall EXCEPT !.phase = "suspending", !.member = m] \in CallState
      BY <1>a, NoCallTyped DEF CallState
    <3> QED
      BY <3>1, <3>2 DEF AskRevoke, TypeOK
  <2>2. UNCHANGED <<passes, members, sockets, entered, allocations, recorded>>
    BY DEF AskRevoke
  <2> QED
    BY <2>1, <2>2 DEF TypeOK
<1>2. CallsInv'
  BY DEF AskRevoke, NoCall, In, Has, TypeOK, CallsInv, CallState
<1>3. PassesInv'
  BY DEF AskRevoke, NoCall, In, Has, TypeOK, PassesInv, CallsInv, PassRow, CallState
<1>4. MeterInv'
  BY <1>a DEF AskRevoke, NoCall, In, Has, TypeOK, MeterInv, CallsInv, CallState,
         AllocationRow
<1> QED
  BY <1>1, <1>2, <1>3, <1>4

LEMMA EndAllocationKeeps ==
  ASSUME IInv, NEW k \in Call, EndAllocation(k)
  PROVE  IInv'
<1> USE PassConstants DEF IInv, passVars, poolVars
<1>a. Cardinality(Event) \in Nat
  BY EventCounts
<1>1. TypeOK'
  <2>1. allocations' \in [Member -> AllocationRow]
    <3> DEFINE m == calls[k].member
    <3>1. m \in Member
      BY DEF EndAllocation, In, CallsInv, TypeOK, CallState
    <3>2. allocations' = [allocations EXCEPT ![m] = [allocations[m] EXCEPT !.status = "revoked"]]
      BY DEF EndAllocation
    <3> QED
      BY <3>1, <3>2, AllocationUpdates DEF TypeOK
  <2>2. calls' \in [Call -> CallState]
    BY <1>a DEF EndAllocation, Goes, In, Has, TypeOK, CallsInv, CallState
  <2>3. UNCHANGED <<passes, members, sockets, entered, recorded>>
    BY DEF EndAllocation
  <2> QED
    BY <2>1, <2>2, <2>3 DEF TypeOK
<1>2. CallsInv'
  BY DEF EndAllocation, Goes, In, Has, TypeOK, CallsInv, CallState
<1>3. PassesInv'
  BY DEF EndAllocation, Goes, In, Has, TypeOK, PassesInv, CallsInv, PassRow, CallState
<1>4. MeterInv'
  BY <1>a DEF EndAllocation, Goes, In, Has, TypeOK, MeterInv, CallsInv, CallState,
         AllocationRow
<1> QED
  BY <1>1, <1>2, <1>3, <1>4

LEMMA AskRefreshKeeps ==
  ASSUME IInv, NEW k \in Call, NEW m \in Member, NEW lapsed \in BOOLEAN,
         NEW fetched \in SUBSET Event, AskRefresh(k, m, lapsed, fetched)
  PROVE  IInv'
<1> USE PassConstants DEF IInv, passVars, poolVars
<1>a. Cardinality(Event) \in Nat
  BY EventCounts
<1>1. TypeOK'
  <2>1. calls' \in [Call -> CallState]
    <3>1. [NoCall EXCEPT !.phase = "expiring", !.member = m] \in CallState
      BY <1>a, NoCallTyped DEF CallState
    <3>2. [NoCall EXCEPT !.phase = "metering", !.member = m,
                     !.amount = allocations[m].total, !.used = allocations[m].used,
                     !.fetched = fetched] \in CallState
      BY <1>a, NoCallTyped DEF CallState, TypeOK, AllocationRow
    <3> QED
      BY <3>1, <3>2 DEF AskRefresh, TypeOK
  <2>2. UNCHANGED <<passes, members, sockets, entered, allocations, recorded>>
    BY DEF AskRefresh
  <2> QED
    BY <2>1, <2>2 DEF TypeOK
<1>2. CallsInv'
  BY DEF AskRefresh, NoCall, In, Has, TypeOK, CallsInv, CallState
<1>3. PassesInv'
  BY DEF AskRefresh, NoCall, In, Has, TypeOK, PassesInv, CallsInv, PassRow, CallState
<1>4. MeterInv'
  BY <1>a DEF AskRefresh, NoCall, In, Has, TypeOK, MeterInv, CallsInv, CallState,
         AllocationRow
<1> QED
  BY <1>1, <1>2, <1>3, <1>4

LEMMA ExpireKeeps ==
  ASSUME IInv, NEW k \in Call, Expire(k)
  PROVE  IInv'
<1> USE PassConstants DEF IInv, passVars, poolVars
<1>a. Cardinality(Event) \in Nat
  BY EventCounts
<1>1. TypeOK'
  <2>1. allocations' \in [Member -> AllocationRow]
    <3> DEFINE m == calls[k].member
    <3>1. m \in Member
      BY DEF Expire, In, CallsInv, TypeOK, CallState
    <3>2. allocations' = [allocations EXCEPT ![m] = [allocations[m] EXCEPT !.status = "expired"]]
      BY DEF Expire
    <3> QED
      BY <3>1, <3>2, AllocationUpdates DEF TypeOK
  <2>2. calls' \in [Call -> CallState]
    BY <1>a DEF Expire, Ends, NoCall, In, Has, TypeOK, CallsInv, CallState
  <2>3. UNCHANGED <<passes, members, sockets, entered, recorded>>
    BY DEF Expire
  <2> QED
    BY <2>1, <2>2, <2>3 DEF TypeOK
<1>2. CallsInv'
  BY DEF Expire, Ends, NoCall, In, Has, TypeOK, CallsInv, CallState
<1>3. PassesInv'
  BY DEF Expire, Ends, NoCall, In, Has, TypeOK, PassesInv, CallsInv, PassRow, CallState
<1>4. MeterInv'
  BY <1>a DEF Expire, Ends, NoCall, In, Has, TypeOK, MeterInv, CallsInv, CallState,
         AllocationRow
<1> QED
  BY <1>1, <1>2, <1>3, <1>4

LEMMA RecordUsageKeeps ==
  ASSUME IInv, NEW k \in Call, NEW e \in Event, NEW stored \in BOOLEAN, RecordUsage(k, e, stored)
  PROVE  IInv'
<1> USE PassConstants DEF IInv, passVars, poolVars
<1>a. Cardinality(Event) \in Nat
  BY EventCounts
<1>1. TypeOK'
  <2>1. recorded' \in [Member -> SUBSET Event]
    BY <1>a DEF RecordUsage, Fresh, In, Has, TypeOK, CallsInv
  <2>2. calls' \in [Call -> CallState]
    <3>1. calls[k].member \in Member /\ calls[k] \in CallState /\ calls[k].used \in Nat
          /\ recorded[calls[k].member] \in SUBSET Event
      BY <1>a DEF RecordUsage, In, CallsInv, TypeOK, CallState
    <3>2. stored => calls[k].used + 1 <= Cardinality(Event)
      <4>1. calls[k].used <= Cardinality(recorded[calls[k].member])
        BY DEF RecordUsage, MeterInv
      <4>2. stored => Cardinality(recorded[calls[k].member]) + 1 <= Cardinality(Event)
        BY <3>1, EventCounts DEF RecordUsage, Fresh
      <4>3. Cardinality(recorded[calls[k].member]) \in Nat
        BY <3>1, EventCounts
      <4> QED
        BY <1>a, <3>1, <4>1, <4>2, <4>3
    <3> DEFINE u == IF stored THEN calls[k].used + 1 ELSE calls[k].used
    <3>3. u \in 0 .. Cardinality(Event)
      BY <1>a, <3>1, <3>2 DEF CallState
    <3>4. calls' = [calls EXCEPT ![k] = [calls[k] EXCEPT !.fetched = calls[k].fetched \ {e},
                                                        !.used = u]]
      BY DEF RecordUsage, Fresh, TypeOK, CallState
    <3> HIDE DEF u
    <3>5. [calls[k] EXCEPT !.fetched = calls[k].fetched \ {e}, !.used = u] \in CallState
      BY <3>1, <3>3 DEF CallState
    <3> QED
      BY <3>4, <3>5 DEF TypeOK
  <2>3. UNCHANGED <<passes, members, sockets, entered, allocations>>
    BY DEF RecordUsage
  <2> QED
    BY <2>1, <2>2, <2>3 DEF TypeOK
<1>2. CallsInv'
  BY DEF RecordUsage, Fresh, In, Has, TypeOK, CallsInv, CallState
<1>3. PassesInv'
  BY DEF RecordUsage, Fresh, In, Has, TypeOK, PassesInv, CallsInv, PassRow, CallState
<1>4. MeterInv'
  <2> DEFINE m == calls[k].member
  <2>1. /\ In(k, "metering") /\ m \in Member
        /\ stored => e \notin recorded[m]
        /\ recorded' = IF stored THEN [recorded EXCEPT ![m] = recorded[m] \cup {e}] ELSE recorded
        /\ calls' = [calls EXCEPT ![k].fetched = calls[k].fetched \ {e},
                                  ![k].used = IF stored THEN calls[k].used + 1
                                                        ELSE calls[k].used]
        /\ allocations' = allocations
    BY DEF RecordUsage, Fresh, In, TypeOK, CallsInv, CallState
  <2>2. \A n \in Member : /\ Cardinality(recorded[n]) \in Nat /\ Cardinality(recorded'[n]) \in Nat
                          /\ Cardinality(recorded[n]) <= Cardinality(recorded'[n])
    <3> SUFFICES ASSUME NEW n \in Member
                 PROVE  /\ Cardinality(recorded[n]) \in Nat /\ Cardinality(recorded'[n]) \in Nat
                        /\ Cardinality(recorded[n]) <= Cardinality(recorded'[n])
      OBVIOUS
    <3>1. recorded[n] \in SUBSET Event /\ (recorded'[n] = recorded[n] \/ recorded'[n] = recorded[n] \cup {e})
      BY <2>1 DEF TypeOK
    <3> QED
      BY <3>1, EventCounts
  <2>3. stored => Cardinality(recorded'[m]) = Cardinality(recorded[m]) + 1
    <3> SUFFICES ASSUME stored PROVE Cardinality(recorded'[m]) = Cardinality(recorded[m]) + 1
      OBVIOUS
    <3>1. /\ recorded[m] \in SUBSET Event /\ e \notin recorded[m]
          /\ recorded'[m] = recorded[m] \cup {e}
      BY <2>1 DEF TypeOK
    <3> QED
      BY <3>1, EventCounts
  <2>4. /\ \A n \in Member : allocations[n].used \in Nat
        /\ \A j \in Call : calls[j].used \in Nat /\ (In(j, "metering") => calls[j].member \in Member)
    <3>1. \A n \in Member : allocations[n].used \in Nat
      BY <1>a DEF TypeOK, AllocationRow
    <3>2. \A j \in Call : calls[j].used \in Nat /\ (In(j, "metering") => calls[j].member \in Member)
      BY <1>a DEF TypeOK, CallState, CallsInv, In
    <3> QED
      BY <3>1, <3>2
  <2>5. \A n \in Member : allocations'[n].used <= Cardinality(recorded'[n])
    <3> SUFFICES ASSUME NEW n \in Member PROVE allocations[n].used <= Cardinality(recorded'[n])
      BY <2>1
    <3>1. allocations[n].used <= Cardinality(recorded[n])
      BY DEF MeterInv
    <3> QED
      BY <2>2, <2>4, <3>1
  <2>6. ASSUME NEW j \in Call, calls'[j].phase = "metering"
        PROVE  calls'[j].used <= Cardinality(recorded'[calls'[j].member])
    <3>1. /\ calls'[j].member = calls[j].member /\ calls[j].member \in Member
          /\ In(j, "metering") /\ calls[j].used <= Cardinality(recorded[calls[j].member])
      BY <2>1, <2>4, <2>6 DEF MeterInv, In, TypeOK, CallState
    <3>2. CASE j = k /\ stored
      <4>1. calls'[j].used = calls[j].used + 1
        BY <2>1, <3>2 DEF TypeOK, CallState
      <4> QED
        BY <2>2, <2>3, <2>4, <3>1, <3>2, <4>1
    <3>3. CASE ~(j = k /\ stored)
      <4>1. calls'[j].used = calls[j].used
        BY <2>1, <3>3 DEF TypeOK, CallState
      <4> QED
        BY <2>2, <2>4, <3>1, <4>1
    <3> QED
      BY <3>2, <3>3
  <2> QED
    BY <2>5, <2>6 DEF MeterInv, In
<1> QED
  BY <1>1, <1>2, <1>3, <1>4

LEMMA WriteUsageKeeps ==
  ASSUME IInv, NEW k \in Call, WriteUsage(k)
  PROVE  IInv'
<1> USE PassConstants DEF IInv, passVars, poolVars
<1>a. Cardinality(Event) \in Nat
  BY EventCounts
<1>1. TypeOK'
  <2>1. allocations' \in [Member -> AllocationRow]
    <3>1. calls[k].member \in Member /\ calls[k].used \in 0 .. Cardinality(Event)
      BY DEF WriteUsage, In, CallsInv, TypeOK, CallState
    <3>2. PICK today \in BOOLEAN : allocations' = [allocations EXCEPT
            ![calls[k].member].used = calls[k].used,
            ![calls[k].member].status = IF LimitReached(k) \/ today THEN "paused"
                                        ELSE allocations[calls[k].member].status]
      BY DEF WriteUsage
    <3>3. \E st \in {"none", "active", "paused", "expired", "revoked"} :
            allocations' = [allocations EXCEPT
              ![calls[k].member] = [allocations[calls[k].member] EXCEPT !.used = calls[k].used, !.status = st]]
      BY <3>1, <3>2 DEF TypeOK, AllocationRow
    <3>4. \A st \in {"none", "active", "paused", "expired", "revoked"} :
            [allocations[calls[k].member] EXCEPT !.used = calls[k].used, !.status = st] \in AllocationRow
      BY <3>1, AllocationUpdates DEF TypeOK
    <3>5. PICK st \in {"none", "active", "paused", "expired", "revoked"} :
            allocations' = [allocations EXCEPT
              ![calls[k].member] = [allocations[calls[k].member] EXCEPT !.used = calls[k].used, !.status = st]]
      BY <3>3
    <3>6. [allocations[calls[k].member] EXCEPT !.used = calls[k].used, !.status = st] \in AllocationRow
      BY <3>4
    <3> QED
      BY <3>1, <3>5, <3>6 DEF TypeOK
  <2>2. calls' \in [Call -> CallState]
    BY <1>a DEF WriteUsage, Ends, NoCall, In, Has, TypeOK, CallsInv, CallState
  <2>3. UNCHANGED <<passes, members, sockets, entered, recorded>>
    BY DEF WriteUsage
  <2> QED
    BY <2>1, <2>2, <2>3 DEF TypeOK
<1>2. CallsInv'
  BY DEF WriteUsage, Ends, NoCall, In, Has, TypeOK, CallsInv, CallState
<1>3. PassesInv'
  BY DEF WriteUsage, Ends, NoCall, In, Has, TypeOK, PassesInv, CallsInv, PassRow,
         CallState
<1>4. MeterInv'
  BY <1>a DEF WriteUsage, Ends, NoCall, In, Has, TypeOK, MeterInv, CallsInv, CallState,
         AllocationRow
<1> QED
  BY <1>1, <1>2, <1>3, <1>4

-----------------------------------------------------------------------------
LEMMA InvInit == Init => IInv
<1> SUFFICES ASSUME Init PROVE IInv
  OBVIOUS
<1>1. Cardinality(Event) \in Nat /\ Cardinality({}) = 0 /\ Plan \in Nat
  BY PassConstants, EventCounts, FS_EmptySet
<1>2. TypeOK
  <2>1. calls \in [Call -> CallState]
    BY NoCallTyped DEF Init, PassInit
  <2>2. allocations \in [Member -> AllocationRow]
    BY <1>1 DEF Init, NoAllocation, AllocationRow
  <2>3. passes \in [Pass -> PassRow]
    BY <1>1 DEF Init, PassInit, NoPass, PassRow
  <2> QED
    BY <2>1, <2>2, <2>3 DEF Init, PassInit, TypeOK, NoConnection, Connection
<1>3. CallsInv /\ PassesInv
  BY DEF Init, PassInit, CallsInv, PassesInv, In, NoCall, NoPass
<1>4. MeterInv
  BY <1>1 DEF Init, PassInit, MeterInv, In, NoCall, NoAllocation
<1> QED
  BY <1>2, <1>3, <1>4 DEF IInv

(* A step that changes nothing.                                            *)
LEMMA StutterKeeps == IInv /\ UNCHANGED vars => IInv'
<1> SUFFICES ASSUME IInv, UNCHANGED vars PROVE IInv'
  OBVIOUS
<1>1. TypeOK' /\ CallsInv'
  BY DEF vars, passVars, IInv, TypeOK, CallsInv
<1>2. PassesInv' /\ MeterInv'
  BY DEF vars, passVars, IInv, PassesInv, MeterInv, In
<1> QED
  BY <1>1, <1>2 DEF IInv

LEMMA InvStep == IInv /\ [Next]_vars => IInv'
<1> SUFFICES ASSUME IInv, [Next]_vars PROVE IInv'
  OBVIOUS
<1>1. ASSUME NEW k \in Call, Invite(k) PROVE IInv'
  BY <1>1, AskPassKeeps, CreatePassKeeps DEF Invite
<1>2. ASSUME NEW k \in Call, Claim(k) PROVE IInv'
  BY <1>2, ReadPassKeeps, ClaimPassKeeps, JoinKeeps, OpenAllocationKeeps, GrantAccessKeeps
     DEF Claim
<1>3. ASSUME NEW k \in Call, RevokeAccess(k) PROVE IInv'
  BY <1>3, AskRevokeKeeps, EndAllocationKeeps, SuspendKeeps, SilenceKeeps DEF RevokeAccess
<1>4. ASSUME NEW k \in Call, GoOnRefresh(k) \/ Resize(k) PROVE IInv'
  BY <1>4, ExpireKeeps, RecordUsageKeeps, WriteUsageKeeps, ResizeKeeps DEF GoOnRefresh
<1>5. ASSUME NEW k \in Call, Fail(k), UNCHANGED poolVars PROVE IInv'
  BY <1>5, FailKeeps
<1>6. ASSUME NEW k \in Call, StartRefresh(k) PROVE IInv'
  BY <1>6, AskRefreshKeeps DEF StartRefresh
<1>7. CASE Owner
  BY <1>7, RevokePassKeeps, PauseAllocationKeeps, AskResizeKeeps DEF Owner
<1>8. CASE Live
  BY <1>8, ReadMembershipsKeeps, SubscribeKeeps, DisconnectKeeps DEF Live
<1>9. CASE UNCHANGED vars
  BY <1>9, StutterKeeps
<1> QED
  BY <1>1, <1>2, <1>3, <1>4, <1>5, <1>6, <1>7, <1>8, <1>9 DEF Next

(* IInv is an invariant: one request at most joins with a Pass, and no     *)
(* refresh has counted more than was recorded.                             *)
THEOREM PoolInvariant == Spec => []IInv
BY InvInit, InvStep, PTL DEF Spec
-----------------------------------------------------------------------------
(* Every variable keeps its type.                                          *)
THEOREM PoolTypesCorrect == Spec => []TypeOK
<1>1. IInv => TypeOK
  BY DEF IInv
<1> QED
  BY <1>1, PoolInvariant, PTL

(* Of any number of simultaneous redemptions of a Pass one succeeds, and   *)
(* none of a Pass that was revoked first (claimPass).                      *)
PassLetsInOnce ==
  \A p \in Pass : entered[p] <= 1 /\ (passes[p].by = None => entered[p] = 0)

THEOREM PassesLetInOnce == Spec => []PassLetsInOnce
<1>1. IInv => PassLetsInOnce
  BY DEF IInv, PassesInv, PassLetsInOnce
<1> QED
  BY <1>1, PoolInvariant, PTL

(* However many refreshes overlap, nobody is charged more than what was    *)
(* recorded for him (refreshUsage).                                        *)
THEOREM NobodyIsOvercharged == Spec => []NeverOvercharged
<1>1. IInv => NeverOvercharged
  BY DEF IInv, MeterInv, NeverOvercharged
<1> QED
  BY <1>1, PoolInvariant, PTL
-----------------------------------------------------------------------------
(* Who is out hears nothing: the steps that could let him in.              *)

LEMMA OutStaysOut ==
  ASSUME IInv, [Next]_vars, NEW m \in Member, Out(m)
  PROVE  Out(m)' \/ PassClaimed(m)
<1> USE PassConstants DEF IInv, TypeOK, passVars, poolVars
<1> DEFINE Kept == /\ members'[m] = "suspended"
                   /\ \A j \in Call : calls'[j].member = m =>
                        calls'[j].phase \notin {"joining", "opening", "granting"}
                   /\ \A x \in Socket : sockets'[x].member = m => ~sockets'[x].hears
<1>a. /\ members[m] = "suspended" /\ m # None
      /\ \A j \in Call : calls[j].member = m =>
           calls[j].phase \notin {"joining", "opening", "granting"}
      /\ \A x \in Socket : sockets[x].member = m => ~sockets[x].hears
  BY DEF Out
<1>b. SUFFICES Kept \/ PassClaimed(m)
  BY DEF Out
<1>1. ASSUME NEW k \in Call, NEW amount \in 0 .. Plan, AskPass(k, amount) PROVE Kept
  BY <1>a, <1>1 DEF AskPass, NoCall, In, CallState, Connection
<1>2. ASSUME NEW k \in Call, NEW p \in Pass, CreatePass(k, p) PROVE Kept
  BY <1>a, <1>2 DEF CreatePass, Ends, NoCall, In, CallState, Connection
<1>3. ASSUME NEW p \in Pass, RevokePass(p) PROVE Kept
  BY <1>a, <1>3 DEF RevokePass, In, CallState, Connection
<1>4. ASSUME NEW k \in Call, NEW n \in Member, NEW p \in Pass, ReadPass(k, n, p) PROVE Kept
  BY <1>a, <1>4 DEF ReadPass, NoCall, In, CallState, Connection
<1>5. ASSUME NEW k \in Call, ClaimPass(k) PROVE Kept \/ PassClaimed(m)
  <2> DEFINE q == calls[k].pass
  <2>1. /\ In(k, "claiming") /\ q \in Pass /\ UNCHANGED <<members, sockets>>
    BY <1>5 DEF ClaimPass, In, CallsInv, CallState
  <2>2. CASE Claimable(q) /\ calls[k].member = m
    <3>1. passes[q].by = None
      BY <2>1, <2>2 DEF PassesInv, Claimable
    <3>2. passes'[q].by = m
      BY <1>5, <2>1, <2>2 DEF ClaimPass, PassRow
    <3> QED
      BY <1>a, <2>1, <3>1, <3>2 DEF PassClaimed
  <2>3. CASE Claimable(q) /\ calls[k].member # m
    <3>1. calls' = [calls EXCEPT ![k].phase = "joining"]
      BY <1>5, <2>3 DEF ClaimPass, Goes
    <3> QED
      BY <1>a, <2>1, <2>3, <3>1 DEF CallState
  <2>4. CASE ~Claimable(q)
    <3>1. calls' = [calls EXCEPT ![k] = NoCall]
      BY <1>5, <2>4 DEF ClaimPass, Ends
    <3> QED
      BY <1>a, <2>1, <3>1 DEF NoCall
  <2> QED
    BY <2>2, <2>3, <2>4
<1>6. ASSUME NEW k \in Call, Join(k) PROVE Kept
  BY <1>a, <1>6 DEF Join, Goes, In, CallState, Connection
<1>7. ASSUME NEW k \in Call, GrantAccess(k) PROVE Kept
  BY <1>a, <1>7 DEF GrantAccess, Ends, NoCall, In, CallState, Connection
<1>8. ASSUME NEW k \in Call, Suspend(k) PROVE Kept
  BY <1>a, <1>8 DEF Suspend, Goes, In, CallState, Connection
<1>9. ASSUME NEW k \in Call, Silence(k) PROVE Kept
  BY <1>a, <1>9 DEF Silence, Ends, NoCall, In, CallState, Connection
<1>10. ASSUME NEW x \in Socket, NEW n \in Member, ReadMemberships(x, n) PROVE Kept
  BY <1>a, <1>10 DEF ReadMemberships, Entitled, In, CallState, Connection
<1>11. ASSUME NEW x \in Socket, Subscribe(x) PROVE Kept
  BY <1>a, <1>11 DEF Subscribe, In, CallState, Connection
<1>12. ASSUME NEW x \in Socket, Disconnect(x) PROVE Kept
  BY <1>a, <1>12 DEF Disconnect, NoConnection, In, CallState, Connection
<1>13. ASSUME NEW k \in Call, Fail(k) PROVE Kept
  BY <1>a, <1>13 DEF Fail, Ends, NoCall, In, CallState, Connection
<1>14. ASSUME NEW k \in Call, OpenAllocation(k) PROVE Kept
  BY <1>a, <1>14 DEF OpenAllocation, Goes, In, CallState, Connection
<1>15. ASSUME NEW n \in Member, NEW paused \in BOOLEAN, PauseAllocation(n, paused) PROVE Kept
  BY <1>a, <1>15 DEF PauseAllocation, In, CallState, Connection
<1>16. ASSUME NEW k \in Call, NEW n \in Member, NEW amount \in 1 .. Plan, AskResize(k, n, amount) PROVE Kept
  BY <1>a, <1>16 DEF AskResize, NoCall, In, CallState, Connection
<1>17. ASSUME NEW k \in Call, Resize(k) PROVE Kept
  BY <1>a, <1>17 DEF Resize, Ends, NoCall, In, CallState, Connection
<1>18. ASSUME NEW k \in Call, NEW n \in Member, AskRevoke(k, n) PROVE Kept
  BY <1>a, <1>18 DEF AskRevoke, NoCall, In, CallState, Connection
<1>19. ASSUME NEW k \in Call, EndAllocation(k) PROVE Kept
  BY <1>a, <1>19 DEF EndAllocation, Goes, In, CallState, Connection
<1>20. ASSUME NEW k \in Call, NEW n \in Member, NEW lapsed \in BOOLEAN,
              NEW fetched \in SUBSET Event, AskRefresh(k, n, lapsed, fetched) PROVE Kept
  BY <1>a, <1>20 DEF AskRefresh, NoCall, In, CallState, Connection
<1>21. ASSUME NEW k \in Call, Expire(k) PROVE Kept
  BY <1>a, <1>21 DEF Expire, Ends, NoCall, In, CallState, Connection
<1>22. ASSUME NEW k \in Call, NEW e \in Event, NEW stored \in BOOLEAN, RecordUsage(k, e, stored)
       PROVE  Kept
  BY <1>a, <1>22 DEF RecordUsage, Fresh, In, CallState, Connection
<1>23. ASSUME NEW k \in Call, WriteUsage(k) PROVE Kept
  BY <1>a, <1>23 DEF WriteUsage, Ends, NoCall, In, CallState, Connection
<1>24. CASE UNCHANGED vars
  BY <1>a, <1>24 DEF vars
<1> HIDE DEF Kept
<1> QED
  BY <1>1, <1>2, <1>3, <1>4, <1>5, <1>6, <1>7, <1>8, <1>9, <1>10, <1>11, <1>12, <1>13,
     <1>14, <1>15, <1>16, <1>17, <1>18, <1>19, <1>20, <1>21, <1>22, <1>23, <1>24 DEF
     Next, Invite, Claim, RevokeAccess, GoOnRefresh, StartRefresh, Owner, Live

(* Whoever has been put out hears of nothing in the Space before a Pass of *)
(* his is claimed (handleConnection, revokeAccess).                        *)
THEOREM PeopleOutHearNothing == Spec => OutHearsNothing
<1>1. IInv /\ [Next]_vars => [\A m \in Member : Out(m) => Out(m)' \/ PassClaimed(m)]_vars
  BY OutStaysOut
<1> QED
  BY <1>1, PoolInvariant, PTL DEF Spec, OutHearsNothing
-----------------------------------------------------------------------------
(* A limit stops: what each step that writes allocations leaves of those   *)
(* that were stopped, and of those that were not used up.                  *)

LimitKept(m) ==
  /\ Runs(m)' /\ ~Runs(m) => Started(m)
  /\ Overrun(m)' /\ ~Overrun(m) => Started(m) \/ TotalMoved(m)

LEMMA SameAllocationKeepsLimit ==
  ASSUME NEW m \in Member, allocations'[m] = allocations[m]
  PROVE  LimitKept(m)
BY DEF LimitKept, Runs, Overrun

(* A row that does not run keeps the limit, whatever it was before.        *)
LEMMA StoppedKeepsLimit ==
  ASSUME NEW m \in Member, ~Runs(m)'
  PROVE  LimitKept(m)
BY DEF LimitKept, Overrun

LEMMA WriteUsageKeepsLimit ==
  ASSUME IInv, NEW k \in Call, WriteUsage(k), NEW m \in Member
  PROVE  LimitKept(m)
<1>1. allocations \in [Member -> AllocationRow] /\ calls[k].member \in Member
  BY DEF IInv, TypeOK, CallsInv, WriteUsage, In, CallState
<1>2. CASE m # calls[k].member
  <2>1. allocations'[m] = allocations[m]
    BY <1>1, <1>2 DEF WriteUsage
  <2> QED
    BY <2>1, SameAllocationKeepsLimit
<1>3. CASE m = calls[k].member
  <2>1. PICK today \in BOOLEAN : allocations' = [allocations EXCEPT
          ![m].used = calls[k].used,
          ![m].status = IF LimitReached(k) \/ today THEN "paused" ELSE allocations[m].status]
    BY <1>3 DEF WriteUsage
  <2>2. CASE LimitReached(k) \/ today
    <3>1. allocations'[m].status = "paused"
      BY <1>1, <2>1, <2>2 DEF AllocationRow
    <3> QED
      BY <3>1, StoppedKeepsLimit DEF Runs
  <2>3. CASE ~(LimitReached(k) \/ today)
    <3>1. /\ allocations'[m].status = allocations[m].status
          /\ allocations'[m].total = allocations[m].total
          /\ allocations'[m].used = calls[k].used
      BY <1>1, <2>1, <2>3 DEF AllocationRow
    <3>2. Runs(m)' => Runs(m)
      BY <3>1 DEF Runs
    <3>3. CASE calls[k].amount = allocations[m].total
      <4>1. ~(allocations'[m].used >= allocations'[m].total)
        BY <2>3, <3>1, <3>3 DEF LimitReached
      <4> QED
        BY <3>2, <4>1 DEF LimitKept, Overrun
    <3>4. CASE calls[k].amount # allocations[m].total
      <4>1. TotalMoved(m)
        BY <1>3, <3>4 DEF TotalMoved
      <4> QED
        BY <3>2, <4>1 DEF LimitKept
    <3> QED
      BY <3>3, <3>4
  <2> QED
    BY <2>2, <2>3
<1> QED
  BY <1>2, <1>3

LEMMA ResizeKeepsLimit ==
  ASSUME IInv, NEW k \in Call, Resize(k), NEW m \in Member
  PROVE  LimitKept(m)
<1>1. allocations \in [Member -> AllocationRow]
  BY DEF IInv, TypeOK
<1>2. CASE m # calls[k].member
  <2>1. allocations'[m] = allocations[m]
    BY <1>1, <1>2 DEF Resize
  <2> QED
    BY <2>1, SameAllocationKeepsLimit
<1>3. CASE m = calls[k].member
  <2>1. allocations'[m].status = allocations[m].status
    BY <1>1, <1>3 DEF Resize, AllocationRow
  <2>2. TotalMoved(m)
    BY <1>3 DEF TotalMoved
  <2> QED
    BY <2>1, <2>2 DEF LimitKept, Runs
<1> QED
  BY <1>2, <1>3

LEMMA StopKeepsLimit ==
  ASSUME IInv, NEW k \in Call, Expire(k) \/ EndAllocation(k), NEW m \in Member
  PROVE  LimitKept(m)
<1>1. allocations \in [Member -> AllocationRow]
  BY DEF IInv, TypeOK
<1>2. CASE m # calls[k].member
  <2>1. allocations'[m] = allocations[m]
    BY <1>1, <1>2 DEF Expire, EndAllocation
  <2> QED
    BY <2>1, SameAllocationKeepsLimit
<1>3. CASE m = calls[k].member
  <2>1. allocations'[m].status \in {"expired", "revoked"}
    BY <1>1, <1>3 DEF Expire, EndAllocation, AllocationRow
  <2> QED
    BY <2>1, StoppedKeepsLimit DEF Runs
<1> QED
  BY <1>2, <1>3

LEMMA OpenKeepsLimit ==
  ASSUME IInv, NEW k \in Call, OpenAllocation(k), NEW m \in Member
  PROVE  LimitKept(m)
<1>1. allocations \in [Member -> AllocationRow]
  BY DEF IInv, TypeOK
<1>2. CASE m # calls[k].member
  <2>1. allocations'[m] = allocations[m]
    BY <1>1, <1>2 DEF OpenAllocation
  <2> QED
    BY <2>1, SameAllocationKeepsLimit
<1>3. CASE m = calls[k].member
  BY <1>3 DEF LimitKept, Started
<1> QED
  BY <1>2, <1>3

LEMMA PauseKeepsLimit ==
  ASSUME IInv, NEW n \in Member, NEW paused \in BOOLEAN, PauseAllocation(n, paused),
         NEW m \in Member
  PROVE  LimitKept(m)
<1>1. allocations \in [Member -> AllocationRow]
  BY DEF IInv, TypeOK
<1>2. CASE m # n
  <2>1. allocations'[m] = allocations[m]
    BY <1>1, <1>2 DEF PauseAllocation
  <2> QED
    BY <2>1, SameAllocationKeepsLimit
<1>3. CASE m = n /\ ~paused
  <2>1. PauseAllocation(m, FALSE)
    BY <1>3
  <2> QED
    BY <2>1 DEF LimitKept, Started
<1>4. CASE m = n /\ paused
  <2>1. allocations'[m].status = "paused"
    BY <1>1, <1>4 DEF PauseAllocation, AllocationRow
  <2> QED
    BY <2>1, StoppedKeepsLimit DEF Runs
<1> QED
  BY <1>2, <1>3, <1>4

LEMMA EveryStepKeepsLimit ==
  ASSUME IInv, [Next]_vars, NEW m \in Member
  PROVE  LimitKept(m)
<1>1. ASSUME NEW k \in Call, Claim(k) PROVE LimitKept(m)
  BY <1>1, SameAllocationKeepsLimit, OpenKeepsLimit DEF Claim, poolVars
<1>2. ASSUME NEW k \in Call, RevokeAccess(k) PROVE LimitKept(m)
  BY <1>2, SameAllocationKeepsLimit, StopKeepsLimit DEF RevokeAccess, AskRevoke, poolVars
<1>3. ASSUME NEW k \in Call, GoOnRefresh(k) \/ Resize(k) PROVE LimitKept(m)
  BY <1>3, SameAllocationKeepsLimit, StopKeepsLimit, WriteUsageKeepsLimit, ResizeKeepsLimit
     DEF GoOnRefresh, RecordUsage
<1>4. ASSUME NEW k \in Call, Invite(k) \/ StartRefresh(k) \/ (Fail(k) /\ UNCHANGED poolVars)
      PROVE  LimitKept(m)
  BY <1>4, SameAllocationKeepsLimit DEF Invite, StartRefresh, AskRefresh, poolVars
<1>5. CASE Owner
  BY <1>5, SameAllocationKeepsLimit, PauseKeepsLimit DEF Owner, AskResize, poolVars
<1>6. CASE Live
  BY <1>6, SameAllocationKeepsLimit DEF Live, poolVars
<1>7. CASE UNCHANGED vars
  BY <1>7, SameAllocationKeepsLimit DEF vars
<1> QED
  BY <1>1, <1>2, <1>3, <1>4, <1>5, <1>6, <1>7 DEF Next

(* Overlapping refreshes neither start an allocation that was stopped nor  *)
(* let one run on whose total is known to be used (refreshUsage,           *)
(* pauseAllocation, openAllocation, updateAllocation).                     *)
THEOREM LimitsHold == Spec => LimitStops
<1>1. IInv /\ [Next]_vars
        => [\A m \in Member :
              /\ Runs(m)' /\ ~Runs(m) => Started(m)
              /\ Overrun(m)' /\ ~Overrun(m) => Started(m) \/ TotalMoved(m)]_vars
  BY EveryStepKeepsLimit DEF LimitKept
<1> QED
  BY <1>1, PoolInvariant, PTL DEF Spec, LimitStops
-----------------------------------------------------------------------------
(* Passes as one-time codes: each step of the abstract specification, in   *)
(* terms of the rows.                                                      *)
OneTimeStep == OneTime!Next \/ UNCHANGED OneTime!vars

LEMMA PassesStay ==
  ASSUME UNCHANGED <<passes, entered>>
  PROVE  OneTimeStep
BY DEF OneTimeStep, OneTime!vars, PassState

(* What every step but Join leaves of the other Passes, and of the Pass.   *)
LEMMA OtherPassesStay ==
  ASSUME TypeOK, NEW p \in Pass, entered' = entered,
         \A b \in Pass : b # p => passes'[b] = passes[b]
  PROVE  \A b \in Pass : b # p => PassState(b)' = PassState(b)
<1> TAKE b \in Pass
<1> SUFFICES ASSUME b # p PROVE PassState(b)' = PassState(b)
  OBVIOUS
<1>1. entered'[b] = entered[b] /\ passes'[b] = passes[b]
  OBVIOUS
<1> QED
  BY <1>1 DEF PassState

LEMMA CreatePassIsStep ==
  ASSUME IInv, NEW k \in Call, NEW p \in Pass, CreatePass(k, p)
  PROVE  OneTimeStep
<1>1. /\ passes[p].status = "none" /\ passes[p].by = None /\ entered[p] = 0
      /\ entered' = entered
  BY DEF CreatePass, IInv, PassesInv
<1>2. passes \in [Pass -> PassRow]
  BY DEF IInv, TypeOK
<1>3. /\ passes'[p].status = "pending" /\ passes'[p].by = None
      /\ \A b \in Pass : b # p => passes'[b] = passes[b]
  BY <1>2 DEF CreatePass
<1>4. PassState(p) = "absent" /\ PassState(p)' = "offered"
  BY <1>1, <1>3 DEF PassState
<1>5. \A b \in Pass : PassState(b)' = IF b = p THEN "offered" ELSE PassState(b)
  BY <1>1, <1>3, <1>4, OtherPassesStay DEF IInv
<1>6. OneTime!Offer(p)
  BY <1>1, <1>4, <1>5 DEF OneTime!Offer, OneTime!Becomes
<1> QED
  BY <1>6 DEF OneTimeStep, OneTime!Next

(* A Pass that is revoked before it was claimed is withdrawn; afterwards   *)
(* it stays the claimer's.                                                 *)
LEMMA RevokePassIsStep ==
  ASSUME IInv, NEW p \in Pass, RevokePass(p)
  PROVE  OneTimeStep
<1>1. passes \in [Pass -> PassRow] /\ entered' = entered /\ entered \in [Pass -> Nat]
  BY DEF IInv, TypeOK, RevokePass
<1>2. /\ passes'[p].status = "revoked" /\ passes'[p].by = passes[p].by
      /\ \A b \in Pass : b # p => passes'[b] = passes[b]
  BY <1>1 DEF RevokePass, PassRow
<1>3. \A b \in Pass : b # p => PassState(b)' = PassState(b)
  BY <1>1, <1>2, OtherPassesStay DEF IInv
<1>4. CASE passes[p].status = "pending"
  <2>1. PassState(p) = "offered" /\ PassState(p)' = "withdrawn"
    BY <1>1, <1>2, <1>4 DEF PassState, IInv, PassesInv
  <2>2. OneTime!Withdraw({p})
    BY <1>1, <1>3, <2>1 DEF OneTime!Withdraw
  <2> QED
    BY <2>2 DEF OneTimeStep, OneTime!Next
<1>5. CASE passes[p].status # "pending"
  <2>1. passes[p].status \in {"claimed", "revoked"}
    BY <1>1, <1>5 DEF RevokePass, PassRow
  <2>2. passes[p].status = "claimed" => passes[p].by # None
    BY DEF IInv, PassesInv
  <2>3. entered[p] \in Nat
    BY <1>1
  <2>4. PassState(p)' = PassState(p)
    BY <1>1, <1>2, <2>1, <2>2, <2>3 DEF PassState
  <2> QED
    BY <1>1, <1>3, <2>4 DEF OneTimeStep, OneTime!vars
<1> QED
  BY <1>4, <1>5

LEMMA ClaimPassIsStep ==
  ASSUME IInv, NEW k \in Call, ClaimPass(k)
  PROVE  OneTimeStep
<1>0. PICK p \in Pass : p = calls[k].pass
  BY DEF IInv, CallsInv, ClaimPass, In, CallState, TypeOK
<1>1. /\ passes \in [Pass -> PassRow] /\ entered' = entered
      /\ calls[k].member \in Member /\ calls[k].member # None
  BY PassConstants DEF IInv, TypeOK, CallsInv, CallState, ClaimPass, In
<1>2. CASE Claimable(p)
  <2>1. passes[p].status = "pending" /\ passes[p].by = None /\ entered[p] = 0
    BY <1>1, <1>2 DEF Claimable, IInv, PassesInv
  <2>2. passes' = [passes EXCEPT ![p].status = "claimed", ![p].by = calls[k].member]
    BY <1>0, <1>2 DEF ClaimPass
  <2>3. /\ passes'[p].by # None
        /\ \A b \in Pass : b # p => passes'[b] = passes[b]
    BY <1>1, <2>2 DEF PassRow
  <2>4. PassState(p) = "offered" /\ PassState(p)' = "taken"
    <3>1. entered'[p] = 0 /\ ~(0 > 0)
      BY <1>1, <2>1
    <3> QED
      BY <2>1, <2>3, <3>1 DEF PassState
  <2>5. \A b \in Pass : PassState(b)' = IF b = p THEN "taken" ELSE PassState(b)
    <3>1. \A b \in Pass : b # p => PassState(b)' = PassState(b)
      BY <1>1, <2>3, OtherPassesStay DEF IInv
    <3> QED
      BY <2>4, <3>1
  <2>6. OneTime!Take(p)
    BY <1>1, <2>4, <2>5 DEF OneTime!Take, OneTime!Becomes
  <2> QED
    BY <1>1, <2>6 DEF OneTimeStep, OneTime!Next
<1>3. CASE ~Claimable(p)
  BY <1>0, <1>3, PassesStay DEF ClaimPass
<1> QED
  BY <1>2, <1>3

LEMMA JoinIsStep ==
  ASSUME IInv, NEW k \in Call, Join(k)
  PROVE  OneTimeStep
<1>0. PICK p \in Pass : p = calls[k].pass
  BY DEF IInv, CallsInv, Join, In, CallState, TypeOK
<1>1. passes[p].by # None /\ entered[p] = 0 /\ entered \in [Pass -> Nat]
  BY <1>0 DEF IInv, TypeOK, PassesInv, Join, In
<1>2. passes' = passes /\ entered' = [entered EXCEPT ![p] = entered[p] + 1]
  BY <1>0 DEF Join
<1>3. entered'[p] = 1 /\ \A b \in Pass : b # p => entered'[b] = entered[b]
  BY <1>1, <1>2
<1>4. PassState(p) = "taken" /\ PassState(p)' = "used"
  <2>1. ~(entered[p] > 0) /\ entered'[p] > 0
    BY <1>1, <1>3
  <2> QED
    BY <1>1, <2>1 DEF PassState
<1>5. \A b \in Pass : PassState(b)' = IF b = p THEN "used" ELSE PassState(b)
  <2> TAKE b \in Pass
  <2>1. CASE b = p
    BY <1>4, <2>1
  <2>2. CASE b # p
    <3>1. entered'[b] = entered[b] /\ passes'[b] = passes[b]
      BY <1>2, <1>3, <2>2
    <3>2. PassState(b)' = PassState(b)
      BY <3>1 DEF PassState
    <3> QED
      BY <2>2, <3>2
  <2> QED
    BY <2>1, <2>2
<1>6. OneTime!Use(p)
  BY <1>1, <1>2, <1>4, <1>5 DEF OneTime!Use, OneTime!Becomes, OneTime!LetIn
<1> QED
  BY <1>1, <1>6 DEF OneTimeStep, OneTime!Next

LEMMA EveryStepIsOneTime ==
  ASSUME IInv, [Next]_vars
  PROVE  OneTimeStep
<1>1. ASSUME NEW k \in Call, Invite(k) PROVE OneTimeStep
  BY <1>1, PassesStay, CreatePassIsStep DEF Invite, AskPass
<1>2. ASSUME NEW k \in Call, Claim(k) PROVE OneTimeStep
  BY <1>2, PassesStay, ClaimPassIsStep, JoinIsStep DEF Claim, ReadPass, OpenAllocation, GrantAccess
<1>3. ASSUME NEW k \in Call, RevokeAccess(k) \/ GoOnRefresh(k) \/ Resize(k) \/ Fail(k)
      PROVE  OneTimeStep
  BY <1>3, PassesStay DEF RevokeAccess, AskRevoke, EndAllocation, Suspend, Silence, GoOnRefresh,
     Expire, RecordUsage, WriteUsage, Resize, Fail
<1>4. ASSUME NEW k \in Call, StartRefresh(k) PROVE OneTimeStep
  BY <1>4, PassesStay DEF StartRefresh, AskRefresh, passVars
<1>5. CASE Owner
  BY <1>5, PassesStay, RevokePassIsStep DEF Owner, PauseAllocation, AskResize, passVars
<1>6. CASE Live
  BY <1>6, PassesStay DEF Live, ReadMemberships, Subscribe, Disconnect
<1>7. CASE UNCHANGED vars
  BY <1>7, PassesStay DEF vars, passVars
<1> QED
  BY <1>1, <1>2, <1>3, <1>4, <1>5, <1>6, <1>7 DEF Next

(* Every Pass is a one-time code: one claim takes it, it lets in once at   *)
(* most, and not at all once it was revoked unclaimed (createPass,         *)
(* revokePass and claimPass).                                              *)
THEOREM PassesAreOneTime == Spec => PassesWorkOnce
<1>1. Init => OneTime!Init
  BY DEF Init, PassInit, NoPass, PassState, OneTime!Init
<1>2. IInv /\ [Next]_vars => [OneTime!Next]_(OneTime!vars)
  BY EveryStepIsOneTime DEF OneTimeStep
<1> QED
  BY <1>1, <1>2, PoolInvariant, PTL DEF Spec, PassesWorkOnce, OneTime!Spec
=============================================================================
