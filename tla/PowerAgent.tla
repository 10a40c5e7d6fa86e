----------------------------- MODULE PowerAgent -----------------------------
(***************************************************************************)
(* The agent's half of power commands (services/agent/internal/agent and   *)
(* services/agent/pkg/command): one loop that beats, polls, verifies,      *)
(* executes and reports, with a replay guard that lives in memory.         *)
(*                                                                         *)
(* The loop is single-threaded, so an agent has one poll outstanding at    *)
(* most and handles what a poll brought before it does anything else.  It  *)
(* may be killed between any two steps and started again.                  *)
(***************************************************************************)
EXTENDS PowerService

CONSTANTS
  Drift,   \* Drift[a]: how far the clock of a is ahead of the control plane's
  Skew,    \* tolerated on issuedAt (command.Verifier.Skew)
  Steady,  \* the agents that are assumed to keep running
  Legacy   \* the agents enrolled before the control plane returned agent ids

ASSUME AgentConstants ==
  /\ Drift \in [Agent -> Int]
  /\ Skew \in Nat
  /\ Legacy \subseteq Agent
  /\ Steady \subseteq Agent
  /\ None \notin Poll

VARIABLES
  knowsId,   \* the agents whose enrollment names their agent id
  nonces,    \* nonces[a]: accepted envelopes the replay guard of a remembers
  awaiting,  \* awaiting[a]: the poll a waits for
  inbox,     \* inbox[a]: envelopes collected and not yet handled
  acting,    \* acting[a]: the result a is about to report
  ran        \* ran[c]: how often, by whom and when c was carried out

agentVars == <<knowsId, nonces, awaiting, inbox, acting, ran>>
-----------------------------------------------------------------------------
Run == [times : Nat, by : Agent \cup {None}, at : Int]
NeverRan == [times |-> 0, by |-> None, at |-> 0]

AgentInit ==
  /\ knowsId = Agent \ Legacy
  /\ nonces = [a \in Agent |-> {}]
  /\ awaiting = [a \in Agent |-> None]
  /\ inbox = [a \in Agent |-> {}]
  /\ acting = [a \in Agent |-> None]
  /\ ran = [c \in Command |-> NeverRan]

LocalTime(a) == now + Drift[a]

(* The loop of a is between two turns.                                     *)
Idle(a) ==
  /\ awaiting[a] = None
  /\ inbox[a] = {}
  /\ acting[a] = None
-----------------------------------------------------------------------------
(* loadSigningKey builds a new verifier, and with it an empty replay guard. *)
NewGuard(a) == nonces' = [nonces EXCEPT ![a] = {}]

(* beat, and the heartbeat handler's effect on the last heartbeat.  An     *)
(* agent that learns its id rebuilds the verifiers, if the key can be      *)
(* fetched.  (An agent whose device is revoked is refused by the guard,    *)
(* here and on every poll, and clears its identity: it takes no more part.) *)
Heartbeat(a) ==
  /\ Idle(a)
  /\ a \notin revoked
  /\ online' = online \cup {a}
  /\ knowsId' = knowsId \cup {a}
  /\ \/ a \notin knowsId /\ NewGuard(a)
     \/ UNCHANGED nonces
  /\ UNCHANGED <<awaiting, inbox, acting, ran>>
  /\ UNCHANGED <<now, rows, spent, revoked, calls, polls, reports>>

-----------------------------------------------------------------------------
(* pollPower                                                               *)

StartPoll(a, p) ==
  /\ Idle(a)
  /\ BeginCollect(p, a)
  /\ awaiting' = [awaiting EXCEPT ![a] = p]
  /\ UNCHANGED <<knowsId, nonces, inbox, acting, ran>>

(* The control plane works on; its answer will find nobody waiting.        *)
GiveUp(a) ==
  /\ awaiting[a] # None
  /\ awaiting' = [awaiting EXCEPT ![a] = None]
  /\ UNCHANGED <<knowsId, nonces, inbox, acting, ran>>
  /\ UNCHANGED serviceVars

ServiceSend(p) ==
  /\ Answered(p)
  /\ polls' = [polls EXCEPT ![p] = NoPoll]
  /\ UNCHANGED <<now, rows, spent, revoked, online, calls, reports>>

Receive(p) ==
  LET a == polls[p].agent
  IN /\ ServiceSend(p)
     /\ awaiting[a] = p
     /\ awaiting' = [awaiting EXCEPT ![a] = None]
     /\ inbox' = [inbox EXCEPT ![a] = polls[p].signed]
     /\ UNCHANGED <<knowsId, nonces, acting, ran>>

(* The answer is lost on the way, or nobody waits for it any more.         *)
LoseAnswer(p) ==
  LET a == polls[p].agent
  IN /\ ServiceSend(p)
     /\ awaiting' = [awaiting EXCEPT ![a] = IF awaiting[a] = p THEN None ELSE awaiting[a]]
     /\ UNCHANGED <<knowsId, nonces, inbox, acting, ran>>
-----------------------------------------------------------------------------
(* handlePowerCommand                                                      *)

(* Verify, but for the replay guard.                                       *)
Valid(a, e) ==
  /\ e.device = a
  /\ LocalTime(a) < e.expiresAt
  /\ e.issuedAt <= LocalTime(a) + Skew

(* MemoryNonceStore.Remember purges what has expired before it looks.      *)
Remembered(a) == {e \in nonces[a] : e.expiresAt >= LocalTime(a)}

Fresh(a, e) == \A d \in Remembered(a) : d.id # e.id

Accept(a, e) ==
  /\ Valid(a, e)
  /\ Fresh(a, e)
  /\ nonces' = [nonces EXCEPT ![a] = Remembered(a) \cup {e}]

Refuse(a, e) ==
  /\ ~(Valid(a, e) /\ Fresh(a, e))
  /\ nonces' = [nonces EXCEPT ![a] = IF Valid(a, e) THEN Remembered(a) ELSE nonces[a]]

Take(a, e) ==
  /\ acting[a] = None
  /\ e \in inbox[a]
  /\ inbox' = [inbox EXCEPT ![a] = inbox[a] \ {e}]

ToReport(a, e, succeeded) ==
  acting' = [acting EXCEPT ![a] = [id |-> e.id, device |-> a, succeeded |-> succeeded]]

DoneOnceMore(a, c) ==
  ran' = [ran EXCEPT ![c] = [times |-> ran[c].times + 1, by |-> a, at |-> now]]

(* The action takes effect.  Execute may still return an error: its        *)
(* deadline can pass while the operating system obeys.                     *)
Execute(a, e) ==
  /\ Take(a, e)
  /\ Accept(a, e)
  /\ DoneOnceMore(a, e.id)
  /\ \E succeeded \in BOOLEAN : ToReport(a, e, succeeded)
  /\ UNCHANGED <<knowsId, awaiting>>
  /\ UNCHANGED serviceVars

(* The action is refused by the operating system and nothing happens.      *)
ExecuteInVain(a, e) ==
  /\ Take(a, e)
  /\ Accept(a, e)
  /\ ToReport(a, e, FALSE)
  /\ UNCHANGED <<knowsId, awaiting, ran>>
  /\ UNCHANGED serviceVars

RefuseCommand(a, e) ==
  /\ Take(a, e)
  /\ Refuse(a, e)
  /\ ToReport(a, e, FALSE)
  /\ UNCHANGED <<knowsId, awaiting, ran>>
  /\ UNCHANGED serviceVars

(* reportPower sends once and does not retry.                              *)
SendReport(a) ==
  /\ acting[a] # None
  /\ reports' = reports \cup {acting[a]}
  /\ acting' = [acting EXCEPT ![a] = None]
  /\ UNCHANGED <<knowsId, nonces, awaiting, inbox, ran>>
  /\ UNCHANGED <<now, rows, spent, revoked, online, calls, polls>>

LoseReport(m) ==
  /\ m \in reports
  /\ reports' = reports \ {m}
  /\ UNCHANGED agentVars
  /\ UNCHANGED <<now, rows, spent, revoked, online, calls, polls>>
-----------------------------------------------------------------------------
(* The process ends between any two steps (it is killed, it crashes, the   *)
(* machine goes down) and is started again, with a new verifier.  An agent *)
(* that stays down, or has not been able to fetch the key and so does not  *)
(* poll, is one that takes no further step.                                *)
Restart(a) ==
  /\ NewGuard(a)
  /\ awaiting' = [awaiting EXCEPT ![a] = None]
  /\ inbox' = [inbox EXCEPT ![a] = {}]
  /\ acting' = [acting EXCEPT ![a] = None]
  /\ UNCHANGED <<knowsId, ran>>
  /\ UNCHANGED serviceVars
=============================================================================
