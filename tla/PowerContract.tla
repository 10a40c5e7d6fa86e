--------------------------- MODULE PowerContract ---------------------------
(***************************************************************************)
(* What NetLink promises about a power command, with no mention of rows,   *)
(* polls, signatures or an agent's memory.  A command is opened; it is     *)
(* either withdrawn while still open or handed over once, never before its *)
(* earliest time; whoever it was handed to acts on it at most once; and    *)
(* the Space is told "succeeded" only of a command that was acted on.      *)
(***************************************************************************)
EXTENDS Integers

CONSTANT Command

VARIABLES
  clock,    \* time
  phase,    \* phase[c]: how far command c has come
  earliest, \* earliest[c]: the time before which c must not be handed over
  told      \* told[c]: what the Space is told has become of c

contractVars == <<clock, phase, earliest, told>>

Init ==
  /\ clock = 0
  /\ phase = [c \in Command |-> "absent"]
  /\ earliest = [c \in Command |-> 0]
  /\ told = [c \in Command |-> "nothing"]

Pass ==
  /\ clock' > clock
  /\ UNCHANGED <<phase, earliest, told>>

Open(c) ==
  /\ phase[c] = "absent"
  /\ phase' = [phase EXCEPT ![c] = "open"]
  /\ earliest'[c] >= clock
  /\ earliest' = [earliest EXCEPT ![c] = earliest'[c]]
  /\ told' = [told EXCEPT ![c] = "waiting"]
  /\ UNCHANGED clock

(* The commands of Off are announced to be off.  Those among them that are *)
(* still open are thereby withdrawn; for the others the news comes too     *)
(* late to change anything.                                                *)
CallOff(Off) ==
  /\ \A c \in Off : phase[c] # "absent"
  /\ phase' = [c \in Command |->
                 IF c \in Off /\ phase[c] = "open" THEN "withdrawn" ELSE phase[c]]
  /\ told' = [c \in Command |-> IF c \in Off THEN "off" ELSE told[c]]
  /\ UNCHANGED <<clock, earliest>>

(* A command is handed over once, to somebody or, if nobody listens any    *)
(* more, in vain.  What is told does not change: the Space goes on waiting. *)
HandOver(c) ==
  /\ phase[c] = "open"
  /\ earliest[c] <= clock
  /\ \E to \in {"handed", "lapsed"} : phase' = [phase EXCEPT ![c] = to]
  /\ UNCHANGED <<clock, earliest, told>>

Act(c) ==
  /\ phase[c] = "handed"
  /\ phase' = [phase EXCEPT ![c] = "acted"]
  /\ UNCHANGED <<clock, earliest, told>>

(* Commands that were handed over and will never be acted on: the answer   *)
(* that carried them was lost, the machine went down, or it refused.       *)
Lapse(Gone) ==
  /\ \A c \in Gone : phase[c] = "handed"
  /\ phase' = [c \in Command |-> IF c \in Gone THEN "lapsed" ELSE phase[c]]
  /\ UNCHANGED <<clock, earliest, told>>

Tell(c, outcome) ==
  /\ \/ phase[c] = "acted" /\ outcome \in {"succeeded", "failed"}
     \/ phase[c] = "lapsed" /\ outcome = "failed"
  /\ told' = [told EXCEPT ![c] = outcome]
  /\ UNCHANGED <<clock, phase, earliest>>

Next ==
  \/ Pass
  \/ \E c \in Command : Open(c)
  \/ \E Off \in SUBSET Command : CallOff(Off)
  \/ \E c \in Command : HandOver(c) \/ Act(c)
  \/ \E Gone \in SUBSET Command : Lapse(Gone)
  \/ \E c \in Command, outcome \in {"succeeded", "failed"} : Tell(c, outcome)

Spec == Init /\ [][Next]_contractVars
=============================================================================
