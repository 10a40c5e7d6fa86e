--------------------------- MODULE SessionStream ---------------------------
(***************************************************************************)
(* What a remote session promises to whoever sits at the computer that is  *)
(* looked at: its screen is streamed for one stretch of time at most.  A   *)
(* session that was ended, refused or cut off, before it streamed or       *)
(* after, is over; looking again takes a new session, with its own         *)
(* confirmation.  RemoteSessions is shown to implement this.               *)
(***************************************************************************)
CONSTANT Session

VARIABLE stream  \* stream[s]: whether the stream of s is ahead, running or over

Init == stream = [s \in Session |-> "ahead"]

Begin(s) ==
  /\ stream[s] = "ahead"
  /\ stream' = [stream EXCEPT ![s] = "running"]

(* Any number at once: those of a computer whose process ends.             *)
End(sessions) ==
  stream' = [s \in Session |-> IF s \in sessions THEN "over" ELSE stream[s]]

Next ==
  \/ \E s \in Session : Begin(s)
  \/ \E sessions \in SUBSET Session : End(sessions)

Spec == Init /\ [][Next]_stream
=============================================================================
