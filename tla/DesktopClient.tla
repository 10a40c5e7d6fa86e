---------------------------- MODULE DesktopClient --------------------------
(***************************************************************************)
(* The desktop window (apps/desktop/frontend/src): signing in, the session *)
(* the API client holds, the section on screen and the requests under way. *)
(*                                                                         *)
(* A task is one activation of an asynchronous handler, waiting for the    *)
(* answer to a request; handlers run to their next await without being     *)
(* interrupted.  A component that is gone does not stop its handlers: what *)
(* they still show is seen by nobody, but they go on asking, and those     *)
(* that sign in or out still do.  The control plane is external: it may    *)
(* grant or refuse any request, or find its access token expired.          *)
(***************************************************************************)
EXTENDS ClientScreens, Bags, BagsExt

CONSTANTS
  Logins,   \* the sign-ins that may be completed
  FirstOf,  \* FirstOf[l]: the first Space listed to who signed in as l
  Most      \* the requests under way while somebody still presses buttons

ASSUME LoginsAssumption == None \notin Logins \cup Spaces /\ FirstOf \in [Logins -> Spaces]

(* A Space is none of the names that stand for something else.             *)
ASSUME NamesAssumption ==
  (Spaces \cup {None}) \cap (Awaits \cup {"loading", "none", "spaces", "bridge"}) = {}

VARIABLES
  ready,     \* whether the control plane's address is known
  session,   \* api.session: the sign-in it stems from, or None
  refresh,   \* api.refreshInFlight: the session being refreshed, or None
  logins,    \* logins[l]: whether l is "new", "open" or over for good
  step,      \* the step AuthFlow is at
  section,   \* the section the Shell shows
  space,     \* SpaceProvider: "loading", "none" or the Space looked at
  page,      \* the state of the section's component
  live,      \* the socket of My Spaces
  tasks      \* the handlers that wait for an answer

vars == <<ready, session, refresh, logins, step, section, space, page, live, tasks>>

(* A handler: what it does and asks for; whether its component is "here",  *)
(* gone within a frame that is still there, or gone; whether the request   *)
(* is the first, waits for a refresh or is the replay; and the session it  *)
(* was sent with.                                                          *)
Task(does, at, login) ==
  [does |-> does, at |-> at, here |-> "here", attempt |-> "first", by |-> login]

FreshPage(s) ==
  [ready |-> s \in Static, view |-> IF s \in Static THEN "list" ELSE "blank",
   open |-> {}, code |-> FALSE, chosen |-> None, detail |-> None]

In(t) == BagIn(t, tasks)
Without(t) == BagRemove(tasks, t)
With(ts, new) == ts (+) SetToBag(new)

Init ==
  /\ ready = FALSE
  /\ session = None /\ refresh = None
  /\ logins = [l \in Logins |-> "new"]
  /\ step = "welcome"
  /\ section = "spaces" /\ space = "loading" /\ page = FreshPage("spaces")
  /\ live = "off"
  /\ tasks = EmptyBag

(* Bound: buttons are pressed while fewer than Most requests are under way *)
(* (what the code sends by itself it always sends).                        *)
Room == BagCardinality(tasks) < Most

InFlight(names) == \E t \in DOMAIN tasks : t.does \in names /\ t.here = "here"

(* The Go side says which control plane this installation talks to.        *)
LearnEnvironment ==
  /\ ~ready
  /\ ready' = TRUE
  /\ UNCHANGED <<session, refresh, logins, step, section, space, page, live, tasks>>
-----------------------------------------------------------------------------
(* Frames: AuthFlow while nobody is signed in, else the Shell.             *)

(* The handlers that act on the session whether anybody sees them or not.  *)
Detached == {"sign-in", "verify-device", "sign-out", "forget"}

Orphan(t) ==
  IF t.does \in Detached \/ t.does = "orphan" THEN [t EXCEPT !.here = "gone"]
  ELSE [t EXCEPT !.does = "orphan", !.at = None, !.here = "gone"]

(* Handlers of the step's component when the step is left: AuthFlow itself *)
(* still acts on what they report to it.                                   *)
OffStage(t) ==
  IF t.here = "here" THEN [t EXCEPT !.here = "frame"] ELSE t

AllGone(ts) == BagOfAll(Orphan, ts)

(* What a section asks for when it appears, or when its Space is known.    *)
LoadsOf(s, sp, login) ==
  IF s \in Static \/ (s \in InSpace /\ sp \notin Spaces) THEN {}
  ELSE {Task("load", FirstAwait(s), login)}

(* History: a session that ends here is over, unless a refresh of it is    *)
(* under way.                                                              *)
Outcome(next) ==
  [l \in Logins |-> CASE logins[l] = "over" -> "over"
                    [] l \in {next, refresh'} -> "open"
                    [] OTHER -> IF logins[l] = "open" THEN "over" ELSE "new"]

(* setSession, with ts the handlers that go on.                            *)
SetSession(next, ts) ==
  /\ session' = next
  /\ logins' = Outcome(next)
  /\ \/ /\ session = None /\ next # None
        /\ section' = "spaces" /\ space' = "loading" /\ page' = FreshPage("spaces")
        /\ live' = "connecting"
        /\ tasks' = With(AllGone(ts), {Task("provider", "spaces", next)}
                                        \cup LoadsOf("spaces", "loading", next))
        /\ UNCHANGED step
     \/ /\ session # None /\ next = None
        /\ step' = "welcome" /\ live' = "off" /\ tasks' = AllGone(ts)
        /\ section' = "spaces" /\ space' = "loading" /\ page' = FreshPage("spaces")
     \/ /\ (session = None) <=> (next = None)
        /\ tasks' = ts
        /\ UNCHANGED <<step, section, space, page, live>>
  /\ UNCHANGED ready
-----------------------------------------------------------------------------
(* AuthFlow.                                                               *)

GoTo(to, ts) ==
  /\ step' = to
  /\ tasks' = IF to = step THEN ts ELSE BagOfAll(OffStage, ts)
  /\ UNCHANGED <<ready, session, refresh, logins, section, space, page, live>>

Follow(to) ==
  /\ ready /\ session = None
  /\ <<step, to>> \in Links
  /\ GoTo(to, tasks)

(* A code is not asked for again while it is being checked; the other      *)
(* controls wait for their own answer.                                     *)
Submit(name) ==
  /\ ready /\ session = None /\ Room
  /\ name \in Submits(step)
  /\ ~InFlight({name} \cup IF name = "resend" THEN Submits(step) ELSE {})
  /\ tasks' = With(tasks, {Task(name, None, None)})
  /\ UNCHANGED <<ready, session, refresh, logins, step, section, space, page, live>>

(* Where an answer leads, if AuthFlow is still there to be led.            *)
Leads(t) ==
  CASE t.does = "register" -> {"verify-email"}
    [] t.does = "verify-email" -> {"sign-in"}
    [] t.does = "sign-in" -> {"verify-email", "verify-device"}
    [] OTHER -> {}

StepAnswered(t) ==
  /\ In(t) /\ t.does \in {"register", "verify-email", "sign-in", "verify-device", "resend"}
  /\ \/ /\ tasks' = Without(t)  \* refused, or nothing to lead anywhere
        /\ UNCHANGED <<ready, session, refresh, logins, step, section, space, page, live>>
     \/ /\ t.here # "gone"
        /\ \E to \in Leads(t) : GoTo(to, Without(t))

(* SignInStep and VerifyDeviceStep install the session they are granted,   *)
(* wherever the window is by then.                                         *)
SignedInAs(t, l) ==
  /\ In(t) /\ t.does \in {"sign-in", "verify-device"}
  /\ logins[l] = "new"
  /\ UNCHANGED refresh
  /\ SetSession(l, Without(t))
-----------------------------------------------------------------------------
(* The Shell and what its sections have in common.                         *)

SignedIn == ready /\ session # None
Shows(names) == SignedIn /\ section \in names

Owner(sp) == sp \in Owned
PageSpace == IF section = "spaces" THEN page.chosen ELSE space

(* The dialogs with a control that are on screen: what is open in a view   *)
(* that has it, unless a remote session fills the page.                    *)
OnScreen(p) ==
  IF "stage" \in p.open THEN {} ELSE p.open \cap Openable(section, p.view)

(* Handlers that belong to a dialog and are nothing without it.            *)
Inside(t, dialogs) ==
  t.here = "here" /\ \/ t.does = "step-up" /\ Coded \cap dialogs = {}
                     \/ t.does = "create-pass" /\ "create" \notin dialogs

Close(dialogs, t) ==
  IF Inside(t, dialogs) THEN Orphan(t)
  ELSE IF Untracked(t.does, dialogs) THEN OffStage(t)
  ELSE t

(* The page becomes p.  A dialog that needs a code has it mailed when it   *)
(* appears, and forgets it when it goes.                                   *)
ShowPage(p, ts) ==
  LET was == OnScreen(page)
      is == OnScreen(p)
      kept == LET Keep(t) == Close(is, t) IN BagOfAll(Keep, ts)
  IN /\ page' = [p EXCEPT !.code = p.code /\ Coded \cap is # {}]
     /\ tasks' = IF Coded \cap (is \ was) = {} THEN kept
                 ELSE With(kept, {Task("step-up", None, session)})

UnchangedFrame == UNCHANGED <<ready, session, refresh, logins, step, section, space, live>>

(* Another section: the component of the old one is gone.                  *)
PageTask(t) == t.here # "gone" /\ t.does \notin {"provider", "sign-out"}
LeavePage(t) == IF PageTask(t) THEN Orphan(t) ELSE t

Navigate(s) ==
  /\ SignedIn /\ Room /\ s # section
  /\ section' = s
  /\ page' = FreshPage(s)
  /\ live' = IF s = "spaces" THEN "connecting" ELSE "off"
  /\ tasks' = With(BagOfAll(LeavePage, tasks), LoadsOf(s, space, session))
  /\ UNCHANGED <<ready, session, refresh, logins, step, space>>

Answerable(t) == In(t) /\ t.attempt # "refreshing"
May(t, ok) == ok => t.by # None  \* without a token the control plane refuses

(* SpaceProvider asks once.  Nothing else ever changes the Space that the  *)
(* sections are given.                                                     *)
ProviderAnswered(t, ok) ==
  /\ Answerable(t) /\ t.does = "provider" /\ t.here = "here" /\ May(t, ok)
  /\ space' = IF ok THEN FirstOf[t.by] ELSE "none"
  /\ tasks' = With(Without(t), IF section \in InSpace THEN LoadsOf(section, space', session)
                                                      ELSE {})
  /\ UNCHANGED <<ready, session, refresh, logins, step, section, page, live>>

OpenDialog(d) ==
  /\ SignedIn /\ Room /\ d \notin page.open /\ "stage" \notin page.open
  /\ d \in Openable(section, page.view) /\ (d \in FromRows => page.view = "list")
  /\ \E c \in Controls(section) : c.from = d /\ (c.owner => Owner(PageSpace))
  /\ ShowPage([page EXCEPT !.open = @ \cup {d}], tasks)
  /\ UnchangedFrame

(* Cancel, Escape, a click beside it.  The card for a folder cannot be     *)
(* cancelled while it is sent.                                             *)
Dismiss(d) ==
  /\ SignedIn /\ d \in OnScreen(page) \cup (page.open \cap {"pass-ready", "token"})
  /\ d = "approve" => ~InFlight({"approve-folder"})
  /\ ShowPage([page EXCEPT !.open = @ \ {d}], tasks)
  /\ UnchangedFrame

(* Done with what is shown: a created Pass, a remote session, the token    *)
(* for an agent (which stays).                                             *)
Done(d) ==
  /\ SignedIn /\ Room
  /\ d \in page.open \cap {"pass-ready", "stage", "token"}
  /\ ShowPage(IF d = "token" THEN page ELSE [page EXCEPT !.open = @ \ {d}],
              With(tasks, {Task("load", IF d = "token" THEN page.chosen ELSE FirstAwait(section),
                                session)}))
  /\ UnchangedFrame

(* A control is pressed.  On My Spaces it works on the Space chosen then.  *)
Press(c) ==
  /\ SignedIn /\ Room /\ c \in Controls(section)
  /\ "stage" \notin page.open
  /\ page.view \in c.in
  /\ c.owner => Owner(PageSpace)
  /\ c.from # None => c.from \in OnScreen(page)
  /\ c.coded => page.code
  /\ c.does = "share" => page.detail # None
  /\ ~InFlight(c.busy)
  /\ tasks' = With(tasks, {Task(c.does, IF section = "spaces" THEN page.chosen ELSE None, session)})
  /\ UNCHANGED page
  /\ UnchangedFrame
-----------------------------------------------------------------------------
(* Answers to the page's own requests.                                     *)

(* Where a handler goes on to ask: what it asks next is sent with the      *)
(* session of that moment.                                                 *)
Onward(t, at) == [t EXCEPT !.at = at, !.attempt = "first", !.by = session]

LoadAnswered(t, ok) ==
  LET next == NextAwait(section, t.at, ok, Owner(space))
  IN /\ Answerable(t) /\ t.here = "here" /\ t.at \in Awaits /\ May(t, ok)
     /\ section # "spaces"
     /\ \E v \in ViewsAfter(section, t.at, ok, page.view) :
          ShowPage([page EXCEPT !.view = v, !.ready = @ \/ Settles(section, t.at, ok)],
                   IF next = None THEN Without(t) ELSE With(Without(t), {Onward(t, next)}))
     /\ UnchangedFrame

(* loadSpaces: the first Space is chosen, and its detail loaded.           *)
SpacesLoaded(t, ok) ==
  /\ Answerable(t) /\ t.here = "here" /\ t.at = "all" /\ May(t, ok)
  /\ section = "spaces"
  /\ IF ok
     THEN /\ page' = [page EXCEPT !.ready = TRUE, !.view = "list", !.chosen = FirstOf[t.by]]
          /\ tasks' = With(Without(t), {Onward(t, FirstOf[t.by])})
     ELSE /\ page' = [page EXCEPT !.ready = TRUE, !.view = "empty"]
          /\ tasks' = Without(t)
  /\ UnchangedFrame

(* loadSpaceDetail shows what it was asked for, whatever is chosen by now. *)
DetailLoaded(t, ok) ==
  /\ Answerable(t) /\ t.here = "here" /\ t.does = "load" /\ t.at \in Spaces /\ May(t, ok)
  /\ page' = IF ok THEN [page EXCEPT !.detail = t.at] ELSE page
  /\ tasks' = Without(t)
  /\ UnchangedFrame

(* A control's request: refused, it changes nothing but the message shown. *)
Reload(t, c) ==
  IF c.reloads = "no" THEN {}
  ELSE LET at == IF section = "spaces" THEN t.at ELSE FirstAwait(section)
       IN {[Onward(t, at) EXCEPT !.here = "here",
                                 !.does = IF c.reloads = "held" /\ c.busy # {} THEN @ ELSE "load"]}

ControlAnswered(t, ok) ==
  /\ Answerable(t) /\ t.here # "gone" /\ t.at \notin Awaits /\ May(t, ok)
  /\ \E c \in Controls(section) :
       /\ c.does = t.does
       /\ IF ok
          THEN ShowPage([page EXCEPT !.open = (@ \ c.closes) \cup ({c.opens} \ {None})],
                        With(Without(t), Reload(t, c)))
          ELSE tasks' = Without(t) /\ UNCHANGED page
  /\ UnchangedFrame

CodeMailed(t, ok) ==
  /\ Answerable(t) /\ t.here = "here" /\ t.does = "step-up" /\ May(t, ok)
  /\ page' = [page EXCEPT !.code = @ \/ ok]
  /\ tasks' = Without(t)
  /\ UnchangedFrame

(* Once nobody sees its answers, a handler ends or asks again: how often   *)
(* is left open.                                                           *)
OrphanAnswered(t) ==
  /\ Answerable(t) /\ t.does = "orphan"
  /\ \/ tasks' = Without(t)
     \/ tasks' = With(Without(t), {Onward(t, None)})
  /\ UNCHANGED page
  /\ UnchangedFrame
-----------------------------------------------------------------------------
(* What My Spaces and Power do by themselves.                              *)

(* The switcher of My Spaces: its own choice, not the SpaceProvider's.  A  *)
(* card for the owner goes when the Space is not theirs.                   *)
Lost(t) == IF t.does = "mint" /\ t.here = "here" THEN Orphan(t) ELSE t

Switch(s) ==
  /\ Shows({"spaces"}) /\ Room /\ page.view = "list" /\ s # page.chosen
  /\ page' = [page EXCEPT !.chosen = s, !.open = IF Owner(s) THEN @ ELSE {}]
  /\ tasks' = With(IF Owner(s) THEN tasks ELSE BagOfAll(Lost, tasks), {Task("load", s, session)})
  /\ UnchangedFrame

(* useLiveEvents: an event of the Space chosen loads it again.             *)
LiveEvent ==
  /\ Shows({"spaces"}) /\ live = "connected" /\ page.chosen # None /\ Room
  /\ tasks' = With(tasks, {Task("load", page.chosen, session)})
  /\ UNCHANGED page
  /\ UnchangedFrame

(* The socket: 4401 ends it, any other end is followed by a new attempt,   *)
(* which catches up on nothing.                                            *)
LiveChanges ==
  /\ Shows({"spaces"})
  /\ \/ live = "connecting" /\ live' \in {"connected", "waiting", "ended"}
     \/ live = "connected" /\ live' \in {"waiting", "ended"}
     \/ live = "waiting" /\ live' = "connecting"
  /\ UNCHANGED <<ready, session, refresh, logins, step, section, space, page, tasks>>

(* Every two seconds while a command is pending.                           *)
PowerTimer ==
  /\ Shows({"power"}) /\ page.view = "pending" /\ Room
  /\ tasks' = With(tasks, {Task("load", "all", session)})
  /\ UNCHANGED page
  /\ UnchangedFrame
-----------------------------------------------------------------------------
(* The session: refreshing it and signing out.                             *)

(* Variant: the session the refused request was sent with is refreshed.    *)
RefreshedAsSent(t) == t.by

(* refresh() takes the session held when the answer arrives, not the one   *)
(* the refused request was sent with.                                      *)
Refreshed(t) == session

(* A first request is refused for its token: the handler waits for the     *)
(* refresh under way, or starts one.                                       *)
Unauthorized(t) ==
  /\ In(t) /\ t.attempt = "first" /\ t.does \notin Anonymous /\ session # None
  /\ refresh' = IF refresh = None THEN Refreshed(t) ELSE refresh
  /\ tasks' = With(Without(t), {[t EXCEPT !.attempt = "refreshing"]})
  /\ UNCHANGED <<ready, session, logins, step, section, space, page, live>>

Waits(t) == t.attempt = "refreshing"

Replay(t) == IF Waits(t) THEN [t EXCEPT !.attempt = "replay", !.by = refresh] ELSE t

(* Granted, the session it was for is installed, whatever was held since,  *)
(* and who waited asks again.  Refused or unanswered, nobody is signed in. *)
RefreshAnswered(ok) ==
  /\ refresh # None /\ refresh' = None
  /\ IF ok THEN SetSession(refresh, BagOfAll(Replay, tasks))
           ELSE SetSession(None, [t \in {u \in DOMAIN tasks : ~Waits(u)} |-> tasks[t]])

(* logout, from the sidebar or the settings: answered or not, the session  *)
(* is dropped.  The settings have the Go side forget this device before.   *)
SignOut(name) ==
  /\ SignedIn /\ Room
  /\ name = "forget" => section = "settings" /\ ~InFlight({"forget"})
  /\ tasks' = With(tasks, {Task(name, IF name = "forget" THEN "bridge" ELSE None, None)})
  /\ UNCHANGED page
  /\ UnchangedFrame

SignOutAnswered(t) ==
  /\ In(t) /\ t.does \in {"sign-out", "forget"} /\ t.at # "bridge"
  /\ UNCHANGED refresh
  /\ SetSession(None, Without(t))

DeviceForgotten(t, ok) ==
  /\ In(t) /\ t.at = "bridge"
  /\ tasks' = IF ok /\ session # None THEN With(Without(t), {[t EXCEPT !.at = None]})
                                      ELSE Without(t)
  /\ UNCHANGED page
  /\ UnchangedFrame
-----------------------------------------------------------------------------
Answer(t) ==
  \/ \E l \in Logins : SignedInAs(t, l)
  \/ StepAnswered(t) \/ OrphanAnswered(t) \/ Unauthorized(t) \/ SignOutAnswered(t)
  \/ \E ok \in BOOLEAN :
       \/ ProviderAnswered(t, ok) \/ LoadAnswered(t, ok) \/ SpacesLoaded(t, ok)
       \/ DetailLoaded(t, ok) \/ ControlAnswered(t, ok) \/ CodeMailed(t, ok)
       \/ DeviceForgotten(t, ok)

Person ==
  \/ \E to \in Steps : Follow(to)
  \/ \E name \in Anonymous : Submit(name)
  \/ \E s \in Sections : Navigate(s)
  \/ \E s \in Spaces : Switch(s)
  \/ \E c \in Controls(section) : Press(c) \/ OpenDialog(c.from) \/ Dismiss(c.from)
  \/ \E d \in {"pass-ready", "stage", "token"} : Done(d) \/ Dismiss(d)
  \/ \E name \in {"sign-out", "forget"} : SignOut(name)

Next ==
  \/ LearnEnvironment \/ Person \/ LiveEvent \/ LiveChanges \/ PowerTimer
  \/ \E t \in DOMAIN tasks : Answer(t)
  \/ \E ok \in BOOLEAN : RefreshAnswered(ok)

Spec == Init /\ [][Next]_vars
-----------------------------------------------------------------------------
(* Properties.                                                             *)

(* A session that has ended here, by a sign-out, a failed refresh or a     *)
(* sign-in over it, while no refresh of it was under way, is never held    *)
(* or refreshed again, whichever of its requests are still answered, in    *)
(* whatever order, under whatever session that follows (setSession,        *)
(* logout, request and refresh of NetLinkApi).                             *)
EndedSessionStaysEnded ==
  \A l \in Logins : logins[l] = "over" => l # session /\ l # refresh

(* Nobody waits in vain.  A page that says "Loading" has a load of its own *)
(* under way, or the SpaceProvider has, so that any answer, a failure too, *)
(* takes it out of that; and who waits for a refresh of the session waits  *)
(* for one that is under way (the load of every screen, SpaceProvider,     *)
(* request and refresh).  The trusted devices are the exception: a failed  *)
(* first load leaves them loading.                                         *)
Loading == SignedIn /\ ~page.ready /\ (section \in InSpace => space # "none")

NobodyWaitsInVain ==
  /\ Loading /\ section # "devices" =>
       \E t \in DOMAIN tasks :
         /\ t.here = "here"
         /\ t.does = IF section \in InSpace /\ space = "loading" THEN "provider" ELSE "load"
  /\ (refresh # None) <=> \E t \in DOMAIN tasks : Waits(t)
=============================================================================
