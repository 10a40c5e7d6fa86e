---------------------------- MODULE OneTimeCode ----------------------------
(***************************************************************************)
(* What the control plane promises alike of a six-digit code, of a NetLink *)
(* Pass and of an enrolment token: it is offered once, somebody alone may  *)
(* take it up, it lets in once at most, and not at all after it was        *)
(* withdrawn.  Who took it up may come to nothing before it lets in: the   *)
(* code is gone then.  AccountChallenges, DataPool and SharedWork are      *)
(* shown to implement this.                                                *)
(***************************************************************************)
EXTENDS Naturals

CONSTANT Code

VARIABLES
  state,  \* state[c]: how far code c has come
  uses    \* uses[c]: how often it has let in

vars == <<state, uses>>

Init ==
  /\ state = [c \in Code |-> "absent"]
  /\ uses = [c \in Code |-> 0]

Becomes(c, from, to) == state[c] = from /\ state' = [state EXCEPT ![c] = to]

Offer(c) == Becomes(c, "absent", "offered") /\ UNCHANGED uses

(* Any number at once: what a new code replaces, or who it is for is out.  *)
Withdraw(cs) ==
  /\ \A c \in cs : state[c] = "offered"
  /\ state' = [c \in Code |-> IF c \in cs THEN "withdrawn" ELSE state[c]]
  /\ UNCHANGED uses

Take(c) == Becomes(c, "offered", "taken") /\ UNCHANGED uses

LetIn(c) == uses' = [uses EXCEPT ![c] = uses[c] + 1]

(* By who took it, or in one step with the taking.                         *)
Use(c) == (Becomes(c, "taken", "used") \/ Becomes(c, "offered", "used")) /\ LetIn(c)

Next ==
  \/ \E c \in Code : Offer(c) \/ Take(c) \/ Use(c)
  \/ \E cs \in SUBSET Code : Withdraw(cs)

Spec == Init /\ [][Next]_vars
=============================================================================
