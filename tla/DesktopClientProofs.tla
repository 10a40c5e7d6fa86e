------------------------ MODULE DesktopClientProofs ------------------------
(***************************************************************************)
(* The safety properties of DesktopClient, for any sign-ins, Spaces and    *)
(* handlers under way.                                                     *)
(*                                                                         *)
(* The argument.  Every change of session goes through SetSession, and the *)
(* session held and the one being refreshed are sign-ins that are open     *)
(* (SessionInv).  Nobody waits in vain since whatever empties a page       *)
(* starts its load in the same step, and every request of a load is        *)
(* followed by the next or by a page that is ready: so a page that must    *)
(* load has a handler that loads it, the Spaces have one as long as they   *)
(* are loading, and a refresh has one as long as it is under way           *)
(* (TasksInv).  The handlers are a bag, of which only the domain matters.  *)
(***************************************************************************)
EXTENDS DesktopClient, TLAPS

(* What keeps an ended session ended: the session held and the session     *)
(* being refreshed are both sign-ins that are open.                        *)
Held(l) == l # None => l \in Logins /\ logins[l] = "open"

SessionInv ==
  /\ logins \in [Logins -> {"new", "open", "over"}]
  /\ Held(session)
  /\ Held(refresh)

(* Installing a session, for every caller of setSession: a sign-in that    *)
(* is installed was not over, and the one being refreshed stays open.      *)
LEMMA SetSessionKeepsHeld ==
  ASSUME SessionInv, NEW next, NEW ts, SetSession(next, ts),
         next # None => next \in Logins /\ logins[next] # "over",
         refresh' \in {refresh, None}
  PROVE  SessionInv'
<1>1. /\ session' = next
      /\ logins' = Outcome(next)
  BY DEF SetSession
<1>2. logins' \in [Logins -> {"new", "open", "over"}]
  BY <1>1 DEF Outcome, SessionInv
<1>3. ASSUME next # None PROVE logins'[next] = "open"
  BY <1>1, <1>3 DEF Outcome, SessionInv
<1>4. ASSUME refresh' # None PROVE refresh' \in Logins /\ logins'[refresh'] = "open"
  BY <1>1, <1>4 DEF Outcome, SessionInv, Held
<1> QED
  BY <1>1, <1>2, <1>3, <1>4 DEF SessionInv, Held

(* The steps that leave the session, its refresh and the history alone.    *)
LEMMA OtherStepsKeepHeld ==
  ASSUME SessionInv, UNCHANGED <<session, refresh, logins>>
  PROVE  SessionInv'
BY DEF SessionInv, Held

LEMMA SessionInvInit == Init => SessionInv
BY DEF Init, SessionInv, Held

LEMMA PersonKeepsHeld ==
  ASSUME SessionInv, Person
  PROVE  SessionInv'
<1>1. ASSUME NEW to, Follow(to) PROVE UNCHANGED <<session, refresh, logins>>
  BY <1>1 DEF Follow, GoTo
<1>2. ASSUME NEW name, Submit(name) PROVE UNCHANGED <<session, refresh, logins>>
  BY <1>2 DEF Submit
<1>3. ASSUME NEW s, Navigate(s) PROVE UNCHANGED <<session, refresh, logins>>
  BY <1>3 DEF Navigate
<1>4. ASSUME NEW s, Switch(s) PROVE UNCHANGED <<session, refresh, logins>>
  BY <1>4 DEF Switch, UnchangedFrame
<1>5. ASSUME NEW c, Press(c) PROVE UNCHANGED <<session, refresh, logins>>
  BY <1>5 DEF Press, UnchangedFrame
<1>6. ASSUME NEW d, OpenDialog(d) PROVE UNCHANGED <<session, refresh, logins>>
  BY <1>6 DEF OpenDialog, UnchangedFrame
<1>7. ASSUME NEW d, Dismiss(d) PROVE UNCHANGED <<session, refresh, logins>>
  BY <1>7 DEF Dismiss, UnchangedFrame
<1>8. ASSUME NEW d, Done(d) PROVE UNCHANGED <<session, refresh, logins>>
  BY <1>8 DEF Done, UnchangedFrame
<1>9. ASSUME NEW name, SignOut(name) PROVE UNCHANGED <<session, refresh, logins>>
  BY <1>9 DEF SignOut, UnchangedFrame
<1> QED
  BY <1>1, <1>2, <1>3, <1>4, <1>5, <1>6, <1>7, <1>8, <1>9, OtherStepsKeepHeld DEF Person

LEMMA AnswerKeepsHeld ==
  ASSUME SessionInv, NEW t, Answer(t)
  PROVE  SessionInv'
<1>1. CASE \E l \in Logins : SignedInAs(t, l)
  <2>1. PICK l \in Logins : SignedInAs(t, l)
    BY <1>1
  <2> QED
    BY <2>1, SetSessionKeepsHeld DEF SignedInAs
<1>2. CASE SignOutAnswered(t)
  BY <1>2, SetSessionKeepsHeld DEF SignOutAnswered
<1>3. CASE Unauthorized(t)
  <2>1. session # None /\ refresh' \in {refresh, session} /\ UNCHANGED <<session, logins>>
    BY <1>3 DEF Unauthorized, Refreshed
  <2> QED
    BY <2>1 DEF SessionInv, Held
<1>4. CASE StepAnswered(t) \/ OrphanAnswered(t)
  <2>1. UNCHANGED <<session, refresh, logins>>
    BY <1>4 DEF StepAnswered, OrphanAnswered, GoTo, UnchangedFrame
  <2> QED
    BY <2>1, OtherStepsKeepHeld
<1>5. ASSUME NEW ok \in BOOLEAN,
             \/ ProviderAnswered(t, ok) \/ LoadAnswered(t, ok) \/ SpacesLoaded(t, ok)
             \/ DetailLoaded(t, ok) \/ ControlAnswered(t, ok) \/ CodeMailed(t, ok)
             \/ DeviceForgotten(t, ok)
      PROVE  SessionInv'
  <2>1. ProviderAnswered(t, ok) => UNCHANGED <<session, refresh, logins>>
    BY DEF ProviderAnswered
  <2>2. LoadAnswered(t, ok) => UNCHANGED <<session, refresh, logins>>
    BY DEF LoadAnswered, UnchangedFrame
  <2>3. SpacesLoaded(t, ok) => UNCHANGED <<session, refresh, logins>>
    BY DEF SpacesLoaded, UnchangedFrame
  <2>4. DetailLoaded(t, ok) => UNCHANGED <<session, refresh, logins>>
    BY DEF DetailLoaded, UnchangedFrame
  <2>5. ControlAnswered(t, ok) => UNCHANGED <<session, refresh, logins>>
    BY DEF ControlAnswered, UnchangedFrame
  <2>6. CodeMailed(t, ok) => UNCHANGED <<session, refresh, logins>>
    BY DEF CodeMailed, UnchangedFrame
  <2>7. DeviceForgotten(t, ok) => UNCHANGED <<session, refresh, logins>>
    BY DEF DeviceForgotten, UnchangedFrame
  <2> QED
    BY <1>5, <2>1, <2>2, <2>3, <2>4, <2>5, <2>6, <2>7, OtherStepsKeepHeld
<1> QED
  BY <1>1, <1>2, <1>3, <1>4, <1>5 DEF Answer

LEMMA RefreshKeepsHeld ==
  ASSUME SessionInv, NEW ok \in BOOLEAN, RefreshAnswered(ok)
  PROVE  SessionInv'
<1>1. refresh \in Logins /\ logins[refresh] = "open" /\ refresh' = None
  BY DEF RefreshAnswered, SessionInv, Held
<1>2. \E next \in {refresh, None}, ts \in {BagOfAll(Replay, tasks),
             [t \in {u \in DOMAIN tasks : ~Waits(u)} |-> tasks[t]]} : SetSession(next, ts)
  BY DEF RefreshAnswered
<1> QED
  BY <1>1, <1>2, SetSessionKeepsHeld

(* What every step keeps.                                                  *)
LEMMA SessionInvNext == SessionInv /\ [Next]_vars => SessionInv'
<1> SUFFICES ASSUME SessionInv, [Next]_vars PROVE SessionInv'
  OBVIOUS
<1>1. CASE LearnEnvironment \/ LiveChanges
  BY <1>1, OtherStepsKeepHeld DEF LearnEnvironment, LiveChanges
<1>2. CASE LiveEvent \/ PowerTimer
  BY <1>2, OtherStepsKeepHeld DEF LiveEvent, PowerTimer, UnchangedFrame
<1>3. CASE Person
  BY <1>3, PersonKeepsHeld
<1>4. CASE \E t \in DOMAIN tasks : Answer(t)
  BY <1>4, AnswerKeepsHeld
<1>5. CASE \E ok \in BOOLEAN : RefreshAnswered(ok)
  BY <1>5, RefreshKeepsHeld
<1>6. CASE UNCHANGED vars
  BY <1>6, OtherStepsKeepHeld DEF vars
<1> QED
  BY <1>1, <1>2, <1>3, <1>4, <1>5, <1>6 DEF Next

(* The session held and the one being refreshed are open, always: the      *)
(* session of the API client and its refresh in flight.                    *)
THEOREM HeldSessionsAreOpen == Spec => []SessionInv
BY SessionInvInit, SessionInvNext, PTL DEF Spec

(* A session that was given up, while no refresh of it was under way, is   *)
(* never held or refreshed again, for any number of sign-ins and requests  *)
(* (setSession, logout, request and refresh of NetLinkApi).                *)
THEOREM EndedSessionsStayEnded == Spec => []EndedSessionStaysEnded
<1>1. SessionInv => EndedSessionStaysEnded
  BY LoginsAssumption DEF SessionInv, Held, EndedSessionStaysEnded
<1> QED
  BY <1>1, HeldSessionsAreOpen, PTL
-----------------------------------------------------------------------------
(* Nobody waits in vain.  What it rests on: every handler is one of the    *)
(* kinds below, whatever frame or component it has been left by;           *)
AuthKinds == {"register", "verify-email", "sign-in", "verify-device", "resend"}

PressKinds == UNION {{c.does : c \in Controls(s)} : s \in Sections}

Kinds == Anonymous \cup {"provider", "load", "step-up", "orphan"} \cup PressKinds

TaskType ==
  [does : Kinds, at : Awaits \cup {"spaces", "bridge"} \cup Spaces \cup {None},
   here : {"here", "frame", "gone"}, attempt : {"first", "refreshing", "replay"},
   by : Logins \cup {None}]

GoodTask(t) ==
  /\ t \in TaskType
  /\ t.at = "bridge" => t.does = "forget"
  /\ Waits(t) => t.does \notin Anonymous

(* the frame and the page are as the screens make them;                    *)
PageShape(p) ==
  /\ DOMAIN p = {"ready", "view", "open", "code", "chosen", "detail"}
  /\ p.ready \in BOOLEAN
  /\ p.chosen \in Spaces \cup {None}

FrameOK ==
  /\ session \in Logins \cup {None} /\ refresh \in Logins \cup {None}
  /\ section \in Sections
  /\ space \in Spaces \cup {"loading", "none"}
  /\ PageShape(page)

(* of the handlers ts that wait for an answer, those that still sign in    *)
(* while somebody is signed in have been left by the frame, so that no     *)
(* step of AuthFlow clears the Shell away;                                 *)
SignInsLeft(ts) == session # None => \A t \in ts : t.does \in AuthKinds => t.here = "gone"

(* a refresh under way and its waiters come and go together;               *)
RefreshAwaited(ts) == (refresh # None) <=> \E t \in ts : Waits(t)

(* the SpaceProvider loads until it has an answer;                         *)
Provider(t) == t.here = "here" /\ t.does = "provider" /\ t.at = "spaces"

ProviderLoads(ts) == session # None /\ space = "loading" => \E t \in ts : Provider(t)

Going(ts) ==
  /\ \A t \in ts : GoodTask(t)
  /\ SignInsLeft(ts)
  /\ RefreshAwaited(ts)
  /\ ProviderLoads(ts)

(* and a page that has its Space loads until it is ready, at one of the    *)
(* requests of its own load.                                               *)
Loader(t, s) ==
  /\ t.here = "here" /\ t.does = "load"
  /\ t.at \in IF s = "data" THEN {"pool", "passes", "mine"} ELSE {"all"}

MustLoad(p) ==
  session # None /\ ~p.ready /\ section # "devices" /\ (section \in InSpace => space \in Spaces)

PageLoads(p, ts) == MustLoad(p) => \E t \in ts : Loader(t, section)

TasksInv == FrameOK /\ Going(DOMAIN tasks) /\ PageLoads(page, DOMAIN tasks)
-----------------------------------------------------------------------------
(* The handlers of a bag of them, after each of the operations on it.      *)
LEMMA WithDomain ==
  ASSUME NEW ts, NEW new
  PROVE  DOMAIN With(ts, new) = DOMAIN ts \cup new
BY DEF With, (+), SetToBag

LEMMA WithoutDomain ==
  ASSUME NEW t
  PROVE  /\ DOMAIN Without(t) \subseteq DOMAIN tasks
         /\ \A u \in DOMAIN tasks : u # t => u \in DOMAIN Without(t)
BY DEF Without, BagRemove

LEMMA MovedDomains ==
  ASSUME NEW ts
  PROVE  /\ DOMAIN AllGone(ts) = {Orphan(t) : t \in DOMAIN ts}
         /\ DOMAIN BagOfAll(OffStage, ts) = {OffStage(t) : t \in DOMAIN ts}
         /\ DOMAIN BagOfAll(LeavePage, ts) = {LeavePage(t) : t \in DOMAIN ts}
         /\ DOMAIN BagOfAll(Lost, ts) = {Lost(t) : t \in DOMAIN ts}
         /\ DOMAIN BagOfAll(Replay, ts) = {Replay(t) : t \in DOMAIN ts}
<1>1. DOMAIN AllGone(ts) = {Orphan(t) : t \in DOMAIN ts}
  BY DEF AllGone, BagOfAll, BagToSet
<1>2. DOMAIN BagOfAll(OffStage, ts) = {OffStage(t) : t \in DOMAIN ts}
  BY DEF BagOfAll, BagToSet
<1>3. DOMAIN BagOfAll(LeavePage, ts) = {LeavePage(t) : t \in DOMAIN ts}
  BY DEF BagOfAll, BagToSet
<1>4. DOMAIN BagOfAll(Lost, ts) = {Lost(t) : t \in DOMAIN ts}
  BY DEF BagOfAll, BagToSet
<1>5. DOMAIN BagOfAll(Replay, ts) = {Replay(t) : t \in DOMAIN ts}
  BY DEF BagOfAll, BagToSet
<1> QED
  BY <1>1, <1>2, <1>3, <1>4, <1>5

(* A handler that is left, by its frame, its page or its dialog, or that   *)
(* asks again, stays of its kind and goes on waiting if it did.            *)
LEMMA LeftIsGood ==
  ASSUME NEW t, GoodTask(t)
  PROVE  /\ \A u \in {t, Orphan(t), OffStage(t), LeavePage(t), Lost(t)} :
              /\ GoodTask(u)
              /\ Waits(u) <=> Waits(t)
         /\ \A dialogs : GoodTask(Close(dialogs, t)) /\ (Waits(Close(dialogs, t)) <=> Waits(t))
         /\ Orphan(t).here = "gone"
<1>1. GoodTask(Orphan(t)) /\ (Waits(Orphan(t)) <=> Waits(t)) /\ Orphan(t).here = "gone"
  <2>1. CASE t.does \in Detached \/ t.does = "orphan"
    <3>1. Orphan(t) = [t EXCEPT !.here = "gone"]
      BY <2>1 DEF Orphan
    <3> QED
      BY <3>1 DEF GoodTask, TaskType, Waits
  <2>2. CASE ~(t.does \in Detached \/ t.does = "orphan")
    <3>1. Orphan(t) = [t EXCEPT !.does = "orphan", !.at = None, !.here = "gone"]
      BY <2>2 DEF Orphan
    <3>2. Orphan(t) = [does |-> "orphan", at |-> None, here |-> "gone",
                       attempt |-> t.attempt, by |-> t.by]
      BY <3>1 DEF GoodTask, TaskType
    <3>3. None # "bridge" /\ "orphan" \notin Anonymous
      BY NamesAssumption DEF Anonymous
    <3>6. /\ t.attempt \in {"first", "refreshing", "replay"}
          /\ t.by \in Logins \cup {None}
      BY DEF GoodTask, TaskType
    <3>4. Orphan(t) \in TaskType
      BY <3>2, <3>6 DEF TaskType, Kinds
    <3>5. /\ Orphan(t).does = "orphan" /\ Orphan(t).at = None
          /\ Orphan(t).here = "gone" /\ Orphan(t).attempt = t.attempt
      BY <3>2
    <3> QED
      BY <3>3, <3>4, <3>5 DEF GoodTask, Waits
  <2> QED
    BY <2>1, <2>2
<1>2. GoodTask(OffStage(t)) /\ (Waits(OffStage(t)) <=> Waits(t))
  BY DEF GoodTask, TaskType, Waits, OffStage
<1> QED
  BY <1>1, <1>2 DEF LeavePage, Lost, Close

LEMMA ReplayIsGood ==
  ASSUME NEW t, GoodTask(t), refresh \in Logins \cup {None}
  PROVE  GoodTask(Replay(t)) /\ ~Waits(Replay(t))
BY DEF GoodTask, TaskType, Waits, Replay

(* The controls of the pages are none of the requests without a token, nor *)
(* what a page or the SpaceProvider asks for by itself.                    *)
LEMMA PressKindsApart ==
  ASSUME NEW s, NEW c \in Controls(s)
  PROVE  c.does \notin Anonymous \cup {"provider", "load"}
<1> DEFINE Apart(S) == \A d \in S : d.does \notin Anonymous \cup {"provider", "load"}
<1>1. Apart(SpacesScreen) /\ Apart(EnrollAgentCard)
  BY DEF SpacesScreen, EnrollAgentCard, Control, Anonymous
<1>2. Apart(DataPoolScreen) /\ Apart(ConnectPoolCard) /\ Apart(CreatePassDialog)
  BY DEF DataPoolScreen, ConnectPoolCard, CreatePassDialog, From, Control, Anonymous
<1>3. Apart(MemberAccessScreen) /\ Apart(EditLimit)
  BY DEF MemberAccessScreen, EditLimit, From, Control, Anonymous
<1>4. Apart(PowerScreen) /\ Apart(PendingCommand) /\ Apart(StepUpConfirm) /\ Apart(WakeReadinessPanel)
  BY DEF PowerScreen, PendingCommand, StepUpConfirm, WakeReadinessPanel, From, Control, Anonymous
<1>5. Apart(FolderActions) /\ Apart(FilesScreen) /\ Apart(ApproveFolderCard) /\ Apart(PrintDialog)
  BY DEF FolderActions, FilesScreen, ApproveFolderCard, PrintDialog, From, Control, Anonymous
<1>6. Apart(RemoteScreen) /\ Apart(ConfirmControlDialog) /\ Apart(DevicesScreen) /\ Apart(ActivityScreen)
  BY DEF RemoteScreen, ConfirmControlDialog, DevicesScreen, ActivityScreen, From, Control, Anonymous
<1>7. Apart(Controls(s))
  <2> HIDE DEF Apart
  <2>1. \A S, T : Apart(S) /\ Apart(T) => Apart(S \cup T)
    BY DEF Apart
  <2>2. Apart({})
    BY DEF Apart
  <2> QED
    BY <1>1, <1>2, <1>3, <1>4, <1>5, <1>6, <2>1, <2>2 DEF Controls
<1> QED
  BY <1>7

(* Handlers that are added are new requests.                               *)
LEMMA GoingWith ==
  ASSUME NEW D, NEW new, Going(D),
         \A u \in new : GoodTask(u) /\ ~Waits(u) /\ (session # None => u.does \notin AuthKinds)
  PROVE  Going(D \cup new)
BY DEF Going, SignInsLeft, RefreshAwaited, ProviderLoads

(* One that is answered did not wait for the refresh, and was not the      *)
(* SpaceProvider's while that loads.                                       *)
LEMMA GoingWithout ==
  ASSUME NEW t, Going(DOMAIN tasks), ~Waits(t),
         session # None /\ space = "loading" => ~Provider(t)
  PROVE  Going(DOMAIN Without(t))
<1>1. /\ DOMAIN Without(t) \subseteq DOMAIN tasks
      /\ \A u \in DOMAIN tasks : u # t => u \in DOMAIN Without(t)
  BY WithoutDomain
<1> HIDE DEF Going
<1> DEFINE D == DOMAIN tasks
           E == DOMAIN Without(t)
<1>2. E \subseteq D /\ \A u \in D : u # t => u \in E
  BY <1>1
<1>3. Going(D)
  OBVIOUS
<1> HIDE DEF D, E
<1>4. Going(E)
  BY <1>2, <1>3 DEF Going, SignInsLeft, RefreshAwaited, ProviderLoads
<1> QED
  BY <1>4 DEF E

(* Handlers that are left, other than the SpaceProvider's.                 *)
LEMMA GoingLeft ==
  ASSUME NEW D, NEW E, Going(D),
         \A u \in E : \E v \in D : u \in {v, Orphan(v), OffStage(v)},
         \A v \in D : v \in E \/ Orphan(v) \in E \/ OffStage(v) \in E,
         \A v \in D : Provider(v) => v \in E
  PROVE  Going(E)
<1>1. \A v \in D : /\ GoodTask(Orphan(v)) /\ (Waits(Orphan(v)) <=> Waits(v))
                   /\ GoodTask(OffStage(v)) /\ (Waits(OffStage(v)) <=> Waits(v))
                   /\ Orphan(v).here = "gone"
  BY LeftIsGood DEF Going
<1>2. \A u \in E : GoodTask(u)
  BY <1>1 DEF Going
<1>3. \A v \in D : OffStage(v).does \in AuthKinds =>
                   v.does \in AuthKinds /\ (v.here = "gone" => OffStage(v).here = "gone")
  BY DEF OffStage, Going, GoodTask, TaskType
<1>4. SignInsLeft(E)
  BY <1>1, <1>3 DEF Going, SignInsLeft
<1>5. (\E t \in D : Waits(t)) <=> (\E t \in E : Waits(t))
  BY <1>1
<1>6. RefreshAwaited(E)
  BY <1>5 DEF Going, RefreshAwaited
<1>7. ProviderLoads(E)
  BY DEF Going, ProviderLoads
<1> QED
  BY <1>2, <1>4, <1>6, <1>7 DEF Going
-----------------------------------------------------------------------------
(* Steps within a section: a page that is asked for more, or that is shown *)
(* with another view or dialog.                                            *)
LEMMA PageStep ==
  ASSUME TasksInv, UNCHANGED <<session, refresh, section, space>>,
         PageShape(page'), Going(DOMAIN tasks'), PageLoads(page', DOMAIN tasks')
  PROVE  TasksInv'
BY DEF TasksInv, FrameOK, Going, SignInsLeft, RefreshAwaited, ProviderLoads, PageLoads, MustLoad,
       PageShape, GoodTask, Waits, TaskType, Provider, Loader

(* Closing dialogs leaves the handlers that load.                          *)
LEMMA CloseIsLeft ==
  ASSUME NEW dialogs, NEW t
  PROVE  /\ Close(dialogs, t) \in {t, Orphan(t), OffStage(t)}
         /\ Provider(t) \/ t.does = "load" => Close(dialogs, t) = t
BY DEF Close, Inside, Untracked, Provider

(* What ShowPage does to the handlers that go on, and to the page.         *)
LEMMA ShowPageTasks ==
  ASSUME NEW p, NEW ts, ShowPage(p, ts), Going(DOMAIN ts), FrameOK, PageLoads(p, DOMAIN ts),
         PageShape(p)
  PROVE  Going(DOMAIN tasks') /\ PageShape(page') /\ PageLoads(page', DOMAIN tasks')
<1> DEFINE is == OnScreen(p)
           Keep(t) == Close(is, t)
           kept == BagOfAll(Keep, ts)
           E == {Close(is, t) : t \in DOMAIN ts}
           mail == Task("step-up", None, session)
<1>1. DOMAIN kept = E
  BY DEF BagOfAll, BagToSet
<1>2. /\ page' = [p EXCEPT !.code = p.code /\ Coded \cap is # {}]
      /\ tasks' = kept \/ tasks' = With(kept, {mail})
  BY DEF ShowPage
<1>3. DOMAIN tasks' = E \/ DOMAIN tasks' = E \cup {mail}
  <2> HIDE DEF kept, E, mail
  <2>1. CASE tasks' = kept
    BY <2>1, <1>1
  <2>2. CASE tasks' = With(kept, {mail})
    BY <2>2, <1>1, WithDomain
  <2> QED
    BY <1>2, <2>1, <2>2
<1>4. Going(E)
  <2>1. \A v \in DOMAIN ts : Close(is, v) \in E /\ Close(is, v) \in {v, Orphan(v), OffStage(v)}
    BY CloseIsLeft
  <2>2. \A u \in E : \E v \in DOMAIN ts : u \in {v, Orphan(v), OffStage(v)}
    BY CloseIsLeft
  <2>3. \A v \in DOMAIN ts : Provider(v) => v \in E
    BY <2>1, CloseIsLeft
  <2> HIDE DEF E, is
  <2> QED
    BY <2>1, <2>2, <2>3, GoingLeft
<1>5. GoodTask(mail) /\ ~Waits(mail) /\ mail.does \notin AuthKinds
  BY NamesAssumption DEF FrameOK, GoodTask, TaskType, Task, Waits, Kinds, AuthKinds
<1>6. Going(DOMAIN tasks')
  <2> HIDE DEF E, mail
  <2>1. Going(E \cup {mail})
    BY <1>4, <1>5, GoingWith
  <2> QED
    BY <1>3, <1>4, <2>1
<1>7. PageShape(page') /\ page'.ready = p.ready
  BY <1>2 DEF PageShape
<1>8. PageLoads(page', DOMAIN tasks')
  <2>1. \A t \in DOMAIN ts : Loader(t, section) => t \in E
    BY CloseIsLeft DEF Loader
  <2> HIDE DEF E, mail
  <2> QED
    BY <1>3, <1>7, <2>1 DEF PageLoads, MustLoad
<1> QED
  BY <1>6, <1>7, <1>8

LEMMA ShowPageKeeps ==
  ASSUME TasksInv, NEW p, NEW ts, ShowPage(p, ts), UnchangedFrame,
         Going(DOMAIN ts), PageLoads(p, DOMAIN ts), PageShape(p)
  PROVE  TasksInv'
BY ShowPageTasks, PageStep DEF TasksInv, UnchangedFrame

(* A request that the page sends by itself or for a control.               *)
LEMMA AskMore ==
  ASSUME TasksInv, NEW ts, NEW u, DOMAIN ts = DOMAIN tasks \cup {u},
         GoodTask(u), ~Waits(u), session # None => u.does \notin AuthKinds
  PROVE  Going(DOMAIN ts) /\ PageLoads(page, DOMAIN ts)
<1>1. Going(DOMAIN tasks \cup {u})
  BY GoingWith DEF TasksInv
<1> QED
  BY <1>1 DEF TasksInv, PageLoads

(* The requests a page sends for itself.                                   *)
LEMMA NewLoad ==
  ASSUME FrameOK, NEW at \in Awaits \cup Spaces \cup {None}
  PROVE  LET u == Task("load", at, session)
         IN  GoodTask(u) /\ ~Waits(u) /\ u.does \notin AuthKinds
BY NamesAssumption DEF FrameOK, GoodTask, TaskType, Task, Waits, Kinds, AuthKinds, Awaits

LEMMA AskOnPage ==
  ASSUME TasksInv, NEW u, GoodTask(u), ~Waits(u), session # None => u.does \notin AuthKinds,
         tasks' = With(tasks, {u}), UNCHANGED page, UnchangedFrame
  PROVE  TasksInv'
<1>1. DOMAIN tasks' = DOMAIN tasks \cup {u}
  BY WithDomain
<1> QED
  BY <1>1, AskMore, PageStep DEF TasksInv, FrameOK, UnchangedFrame
-----------------------------------------------------------------------------
(* What a person does in a section.                                        *)
LEMMA DialogsKeepTasks ==
  ASSUME TasksInv, NEW d, OpenDialog(d) \/ Dismiss(d)
  PROVE  TasksInv'
<1>1. PICK p : /\ p \in {[page EXCEPT !.open = @ \cup {d}], [page EXCEPT !.open = @ \ {d}]}
               /\ ShowPage(p, tasks)
  BY DEF OpenDialog, Dismiss
<1>2. PageShape(p) /\ p.ready = page.ready
  BY <1>1 DEF TasksInv, FrameOK, PageShape
<1>3. PageLoads(p, DOMAIN tasks)
  BY <1>2 DEF TasksInv, PageLoads, MustLoad
<1> QED
  BY <1>1, <1>2, <1>3, ShowPageKeeps DEF TasksInv, OpenDialog, Dismiss

LEMMA DoneKeepsTasks ==
  ASSUME TasksInv, NEW d, Done(d)
  PROVE  TasksInv'
<1> DEFINE at == IF d = "token" THEN page.chosen ELSE FirstAwait(section)
           u == Task("load", at, session)
           ts == With(tasks, {u})
<1>1. PICK p : /\ p \in {page, [page EXCEPT !.open = @ \ {d}]}
               /\ ShowPage(p, ts)
  BY DEF Done
<1>2. PageShape(p) /\ p.ready = page.ready
  BY <1>1 DEF TasksInv, FrameOK, PageShape
<1>3. at \in Awaits \cup Spaces \cup {None}
  BY DEF TasksInv, FrameOK, PageShape, FirstAwait, Awaits
<1>4. GoodTask(u) /\ ~Waits(u) /\ u.does \notin AuthKinds
  BY <1>3, NewLoad DEF TasksInv
<1>5. DOMAIN ts = DOMAIN tasks \cup {u}
  BY WithDomain
<1>6. Going(DOMAIN ts) /\ PageLoads(page, DOMAIN ts)
  <2> HIDE DEF u, ts
  <2> QED
    BY <1>4, <1>5, AskMore
<1>7. PageLoads(p, DOMAIN ts)
  BY <1>2, <1>6 DEF PageLoads, MustLoad
<1>8. UnchangedFrame
  BY DEF Done
<1> HIDE DEF ts
<1> QED
  BY <1>1, <1>2, <1>6, <1>7, <1>8, ShowPageKeeps

LEMMA PressKeepsTasks ==
  ASSUME TasksInv, NEW c, Press(c)
  PROVE  TasksInv'
<1> DEFINE at == IF section = "spaces" THEN page.chosen ELSE None
           u == Task(c.does, at, session)
<1>1. c \in Controls(section) /\ section \in Sections
  BY DEF Press, TasksInv, FrameOK
<1>2. c.does \in Kinds /\ c.does \notin Anonymous
  BY <1>1, PressKindsApart DEF Kinds, PressKinds
<1>3. at \in Spaces \cup {None}
  BY DEF TasksInv, FrameOK, PageShape
<1>4. GoodTask(u) /\ ~Waits(u) /\ u.does \notin AuthKinds
  <2> HIDE DEF at
  <2> QED
    BY <1>2, <1>3, NamesAssumption
       DEF GoodTask, TaskType, Task, Waits, AuthKinds, Anonymous, TasksInv, FrameOK
<1> HIDE DEF u
<1>5. tasks' = With(tasks, {u}) /\ UNCHANGED page /\ UnchangedFrame
  BY DEF Press, u
<1> QED
  BY <1>4, <1>5, AskOnPage

LEMMA SignOutKeepsTasks ==
  ASSUME TasksInv, NEW name \in {"sign-out", "forget"}, SignOut(name)
  PROVE  TasksInv'
<1> DEFINE u == Task(name, IF name = "forget" THEN "bridge" ELSE None, None)
<1>1. GoodTask(u) /\ ~Waits(u) /\ u.does \notin AuthKinds
  BY NamesAssumption DEF GoodTask, TaskType, Task, Waits, Kinds, Anonymous, AuthKinds
<1> HIDE DEF u
<1>2. tasks' = With(tasks, {u}) /\ UNCHANGED page /\ UnchangedFrame
  BY DEF SignOut, u
<1> QED
  BY <1>1, <1>2, AskOnPage

(* Signing in asks only while nobody is signed in.                         *)
LEMMA SubmitKeepsTasks ==
  ASSUME TasksInv, NEW name \in Anonymous, Submit(name)
  PROVE  TasksInv'
<1> DEFINE u == Task(name, None, None)
<1>1. GoodTask(u) /\ ~Waits(u)
  BY NamesAssumption DEF GoodTask, TaskType, Task, Waits, Kinds
<1> HIDE DEF u
<1>2. /\ session = None /\ tasks' = With(tasks, {u})
      /\ UNCHANGED <<session, refresh, section, space, page>>
  BY DEF Submit, u
<1>3. DOMAIN tasks' = DOMAIN tasks \cup {u}
  BY <1>2, WithDomain
<1>4. Going(DOMAIN tasks') /\ PageLoads(page, DOMAIN tasks')
  BY <1>1, <1>2, <1>3, AskMore
<1> QED
  BY <1>2, <1>4, PageStep DEF TasksInv, FrameOK

(* A step of AuthFlow is left only while nobody is signed in.              *)
LEMMA GoToKeepsTasks ==
  ASSUME TasksInv, session = None, NEW to, NEW ts, GoTo(to, ts), Going(DOMAIN ts)
  PROVE  TasksInv'
<1>1. DOMAIN tasks' \in {DOMAIN ts, {OffStage(t) : t \in DOMAIN ts}}
  BY MovedDomains DEF GoTo
<1>2. \A t \in DOMAIN ts : GoodTask(OffStage(t)) /\ (Waits(OffStage(t)) <=> Waits(t))
  BY LeftIsGood DEF Going
<1>3. Going(DOMAIN tasks')
  <2>1. \A u \in DOMAIN tasks' : GoodTask(u)
    BY <1>1, <1>2 DEF Going
  <2>2. (\E t \in DOMAIN ts : Waits(t)) <=> (\E t \in DOMAIN tasks' : Waits(t))
    BY <1>1, <1>2
  <2> QED
    BY <2>1, <2>2 DEF Going, SignInsLeft, RefreshAwaited, ProviderLoads
<1>4. UNCHANGED <<session, refresh, section, space, page>>
  BY DEF GoTo
<1>5. PageShape(page') /\ PageLoads(page', DOMAIN tasks')
  BY <1>4 DEF TasksInv, FrameOK, PageLoads, MustLoad
<1> QED
  BY <1>3, <1>4, <1>5, PageStep

LEMMA FollowKeepsTasks ==
  ASSUME TasksInv, NEW to, Follow(to)
  PROVE  TasksInv'
BY GoToKeepsTasks DEF Follow, TasksInv

(* Another section, and what it asks for when it appears.                  *)
LEMMA LoadsAreGood ==
  ASSUME NEW s \in Sections, NEW sp, NEW l \in Logins \cup {None}
  PROVE  /\ \A u \in LoadsOf(s, sp, l) : GoodTask(u) /\ ~Waits(u) /\ u.does \notin AuthKinds
         /\ s \notin Static /\ (s \in InSpace => sp \in Spaces)
              => \E u \in LoadsOf(s, sp, l) : Loader(u, s)
<1> DEFINE u == Task("load", FirstAwait(s), l)
<1>1. GoodTask(u) /\ ~Waits(u) /\ u.does \notin AuthKinds
  BY NamesAssumption DEF GoodTask, TaskType, Task, Waits, Kinds, AuthKinds, Awaits, FirstAwait
<1>2. Loader(u, s)
  BY DEF Loader, Task, FirstAwait
<1> HIDE DEF u
<1>3. /\ LoadsOf(s, sp, l) \subseteq {u}
      /\ s \notin Static /\ (s \in InSpace => sp \in Spaces) => u \in LoadsOf(s, sp, l)
  BY DEF LoadsOf, u
<1> QED
  BY <1>1, <1>2, <1>3

LEMMA FreshPageShape ==
  ASSUME NEW s
  PROVE  PageShape(FreshPage(s)) /\ FreshPage(s).ready = (s \in Static)
<1>1. /\ DOMAIN FreshPage(s) = {"ready", "view", "open", "code", "chosen", "detail"}
      /\ FreshPage(s).ready = (s \in Static)
      /\ FreshPage(s).chosen = None
  BY DEF FreshPage
<1>2. (s \in Static) \in BOOLEAN
  OBVIOUS
<1> QED
  BY <1>1, <1>2 DEF PageShape

LEMMA NavigateKeepsTasks ==
  ASSUME TasksInv, NEW s \in Sections, Navigate(s)
  PROVE  TasksInv'
<1> DEFINE D == DOMAIN tasks
           E == {LeavePage(t) : t \in D}
           L == LoadsOf(s, space, session)
<1>1. DOMAIN tasks' = E \cup L
  <2>1. tasks' = With(BagOfAll(LeavePage, tasks), L)
    BY DEF Navigate
  <2>2. DOMAIN BagOfAll(LeavePage, tasks) = E
    BY MovedDomains
  <2> HIDE DEF E, L
  <2> QED
    BY <2>1, <2>2, WithDomain
<1>2. \A v \in D : LeavePage(v) \in {v, Orphan(v)} /\ (Provider(v) => LeavePage(v) = v)
  BY DEF LeavePage, PageTask, Provider
<1>3. Going(D)
  BY DEF TasksInv
<1>4. Going(E)
  <2>1. \A v \in D : LeavePage(v) \in E
    OBVIOUS
  <2>2. \A u \in E : \E v \in D : u \in {v, Orphan(v)}
    BY <1>2
  <2> HIDE DEF D, E
  <2> QED
    BY <1>2, <1>3, <2>1, <2>2, GoingLeft
<1>5. /\ \A u \in L : GoodTask(u) /\ ~Waits(u) /\ u.does \notin AuthKinds
      /\ s \notin Static /\ (s \in InSpace => space \in Spaces) => \E u \in L : Loader(u, s)
  BY LoadsAreGood DEF TasksInv, FrameOK
<1> HIDE DEF D, E, L
<1>6. Going(E \cup L)
  BY <1>4, <1>5, GoingWith
<1>7. /\ section' = s /\ page' = FreshPage(s)
      /\ UNCHANGED <<session, refresh, space>>
  BY DEF Navigate
<1>8. Going(DOMAIN tasks)'
  BY <1>1, <1>6, <1>7 DEF Going, SignInsLeft, RefreshAwaited, ProviderLoads, GoodTask, Waits,
                          TaskType, Provider
<1>9. PageLoads(page, DOMAIN tasks)'
  BY <1>1, <1>5, <1>7, FreshPageShape DEF PageLoads, MustLoad, Loader
<1>10. FrameOK'
  BY <1>7, FreshPageShape DEF TasksInv, FrameOK, PageShape
<1> QED
  BY <1>8, <1>9, <1>10 DEF TasksInv

LEMMA SwitchKeepsTasks ==
  ASSUME TasksInv, NEW s \in Spaces, Switch(s)
  PROVE  TasksInv'
<1> DEFINE D == DOMAIN tasks
           E == {Lost(t) : t \in D}
           u == Task("load", s, session)
<1>1. DOMAIN tasks' = D \cup {u} \/ DOMAIN tasks' = E \cup {u}
  BY WithDomain, MovedDomains DEF Switch
<1>2. \A v \in D : Lost(v) \in {v, Orphan(v)} /\ (Provider(v) \/ v.does = "load" => Lost(v) = v)
  BY DEF Lost, Provider
<1>3. Going(D) /\ PageLoads(page, D)
  BY DEF TasksInv
<1>4. Going(E)
  <2>1. \A v \in D : Lost(v) \in E
    OBVIOUS
  <2>2. \A w \in E : \E v \in D : w \in {v, Orphan(v)}
    BY <1>2
  <2> HIDE DEF D, E
  <2> QED
    BY <1>2, <1>3, <2>1, <2>2, GoingLeft
<1>5. PageLoads(page, E)
  <2>1. \A v \in D : Loader(v, section) => v \in E
    BY <1>2 DEF Loader
  <2> HIDE DEF D, E
  <2> QED
    BY <1>3, <2>1 DEF PageLoads
<1>6. GoodTask(u) /\ ~Waits(u) /\ u.does \notin AuthKinds
  BY NewLoad DEF TasksInv
<1> HIDE DEF D, E, u
<1>7. Going(DOMAIN tasks')
  <2>1. Going(D \cup {u})
    BY <1>3, <1>6, GoingWith
  <2>2. Going(E \cup {u})
    BY <1>4, <1>6, GoingWith
  <2> QED
    BY <1>1, <2>1, <2>2
<1>8. /\ page' = [page EXCEPT !.chosen = s, !.open = IF Owner(s) THEN @ ELSE {}]
      /\ UNCHANGED <<session, refresh, section, space>>
  BY DEF Switch, UnchangedFrame
<1>9. PageShape(page') /\ page'.ready = page.ready
  BY <1>8 DEF TasksInv, FrameOK, PageShape
<1>10. PageLoads(page', DOMAIN tasks')
  BY <1>1, <1>3, <1>5, <1>9 DEF PageLoads, MustLoad
<1> QED
  BY <1>7, <1>8, <1>9, <1>10, PageStep

LEMMA PersonKeepsTasks ==
  ASSUME TasksInv, Person
  PROVE  TasksInv'
BY FollowKeepsTasks, SubmitKeepsTasks, NavigateKeepsTasks, SwitchKeepsTasks, PressKeepsTasks,
   DialogsKeepTasks, DoneKeepsTasks, SignOutKeepsTasks DEF Person

(* What happens without anybody.                                           *)
LEMMA TimersKeepTasks ==
  ASSUME TasksInv, LiveEvent \/ PowerTimer
  PROVE  TasksInv'
<1>1. PICK at \in Awaits \cup Spaces \cup {None} : tasks' = With(tasks, {Task("load", at, session)})
  BY DEF LiveEvent, PowerTimer, TasksInv, FrameOK, PageShape, Awaits
<1> DEFINE u == Task("load", at, session)
<1>2. GoodTask(u) /\ ~Waits(u) /\ u.does \notin AuthKinds
  BY NewLoad DEF TasksInv
<1> HIDE DEF u
<1>3. UNCHANGED page /\ UnchangedFrame
  BY DEF LiveEvent, PowerTimer
<1> QED
  BY <1>1, <1>2, <1>3, AskOnPage DEF u
-----------------------------------------------------------------------------
(* Answers.  One that leaves the page's own load alone.                    *)
LEMMA AnsweredAway ==
  ASSUME TasksInv, NEW t, ~Waits(t), session # None /\ space = "loading" => ~Provider(t)
  PROVE  /\ Going(DOMAIN Without(t))
         /\ ~Loader(t, section) => PageLoads(page, DOMAIN Without(t))
<1>1. Going(DOMAIN Without(t))
  BY GoingWithout DEF TasksInv
<1>2. ASSUME ~Loader(t, section) PROVE PageLoads(page, DOMAIN Without(t))
  BY <1>2, WithoutDomain DEF TasksInv, PageLoads
<1> QED
  BY <1>1, <1>2

(* A handler that goes on asks a new request.                              *)
LEMMA OnwardIsGood ==
  ASSUME FrameOK, NEW t, GoodTask(t), NEW at \in Awaits \cup Spaces \cup {None}
  PROVE  LET u == Onward(t, at)
         IN  /\ GoodTask(u) /\ ~Waits(u)
             /\ u.does = t.does /\ u.here = t.here /\ u.at = at
<1>1. Onward(t, at) = [does |-> t.does, at |-> at, here |-> t.here, attempt |-> "first",
                       by |-> session]
  <2>1. t \in TaskType
    BY DEF GoodTask
  <2>2. Onward(t, at) = [t EXCEPT !.at = at, !.attempt = "first", !.by = session]
    BY DEF Onward
  <2> HIDE DEF Onward
  <2> QED
    BY <2>1, <2>2 DEF TaskType
<1>2. at # "bridge"
  BY NamesAssumption DEF Awaits
<1> QED
  BY <1>1, <1>2 DEF FrameOK, GoodTask, TaskType, Waits

LEMMA StepAnsweredKeepsTasks ==
  ASSUME TasksInv, NEW t \in DOMAIN tasks, StepAnswered(t)
  PROVE  TasksInv'
<1>1. GoodTask(t) /\ t.does \in AuthKinds
  BY DEF StepAnswered, AuthKinds, TasksInv, Going
<1>2. ~Waits(t) /\ ~Provider(t) /\ ~Loader(t, section)
  BY <1>1 DEF GoodTask, AuthKinds, Anonymous, Provider, Loader
<1>3. Going(DOMAIN Without(t)) /\ PageLoads(page, DOMAIN Without(t))
  BY <1>2, AnsweredAway
<1>4. CASE tasks' = Without(t) /\ UNCHANGED <<session, refresh, section, space, page>>
  BY <1>3, <1>4, PageStep DEF TasksInv, FrameOK
<1>5. CASE t.here # "gone" /\ \E to \in Leads(t) : GoTo(to, Without(t))
  <2>1. session = None
    BY <1>1, <1>5 DEF TasksInv, Going, SignInsLeft
  <2> QED
    BY <1>3, <1>5, <2>1, GoToKeepsTasks
<1> QED
  BY <1>4, <1>5 DEF StepAnswered

LEMMA OrphanAnsweredKeepsTasks ==
  ASSUME TasksInv, NEW t \in DOMAIN tasks, OrphanAnswered(t)
  PROVE  TasksInv'
<1>1. GoodTask(t) /\ ~Waits(t) /\ t.does = "orphan"
  BY DEF OrphanAnswered, Answerable, Waits, TasksInv, Going
<1>2. ~Provider(t) /\ ~Loader(t, section)
  BY <1>1 DEF Provider, Loader
<1>3. Going(DOMAIN Without(t)) /\ PageLoads(page, DOMAIN Without(t))
  BY <1>1, <1>2, AnsweredAway
<1> DEFINE u == Onward(t, None)
<1>4. GoodTask(u) /\ ~Waits(u) /\ u.does \notin AuthKinds
  BY <1>1, OnwardIsGood DEF TasksInv, AuthKinds
<1>5. tasks' = Without(t) \/ tasks' = With(Without(t), {u})
  BY DEF OrphanAnswered
<1> HIDE DEF u
<1>6. Going(DOMAIN tasks') /\ PageLoads(page, DOMAIN tasks')
  <2>1. CASE tasks' = Without(t)
    BY <1>3, <2>1
  <2>2. CASE tasks' = With(Without(t), {u})
    <3>1. DOMAIN tasks' = DOMAIN Without(t) \cup {u}
      BY <2>2, WithDomain
    <3>2. Going(DOMAIN tasks')
      BY <1>3, <1>4, <3>1, GoingWith
    <3> QED
      BY <1>3, <3>1, <3>2 DEF PageLoads
  <2> QED
    BY <1>5, <2>1, <2>2
<1>7. UNCHANGED <<session, refresh, section, space, page>>
  BY DEF OrphanAnswered, UnchangedFrame
<1> QED
  BY <1>6, <1>7, PageStep DEF TasksInv, FrameOK

(* SpaceProvider: with the Space known, the page that was waiting for it   *)
(* asks for its own.                                                       *)
LEMMA ProviderAnsweredKeepsTasks ==
  ASSUME TasksInv, NEW t \in DOMAIN tasks, NEW ok \in BOOLEAN, ProviderAnswered(t, ok)
  PROVE  TasksInv'
<1> DEFINE D == DOMAIN tasks
           E == DOMAIN Without(t)
           L == IF section \in InSpace THEN LoadsOf(section, space', session) ELSE {}
<1>1. GoodTask(t) /\ ~Waits(t) /\ t.does = "provider"
  BY DEF ProviderAnswered, Answerable, Waits, TasksInv, Going
<1>2. space' \in Spaces \cup {"none"}
  <2>1. ok => t.by \in Logins
    BY <1>1 DEF ProviderAnswered, May, GoodTask, TaskType
  <2> QED
    BY <2>1, LoginsAssumption DEF ProviderAnswered
<1>3. space' # "loading"
  BY <1>2, NamesAssumption
<1>4. DOMAIN tasks' = E \cup L
  BY WithDomain DEF ProviderAnswered
<1>5. UNCHANGED <<session, refresh, section, page>>
  BY DEF ProviderAnswered
<1>6. E \subseteq D /\ \A u \in D : u # t => u \in E
  BY WithoutDomain
<1>7. /\ \A u \in L : GoodTask(u) /\ ~Waits(u) /\ u.does \notin AuthKinds
      /\ section \in InSpace /\ section \notin Static /\ space' \in Spaces
           => \E u \in L : Loader(u, section)
  BY LoadsAreGood DEF TasksInv, FrameOK
<1> HIDE DEF L
<1>8. Going(D) /\ PageLoads(page, D) /\ FrameOK
  BY DEF TasksInv
<1> HIDE DEF D, E
<1>9. \A u \in E \cup L : GoodTask(u)
  BY <1>6, <1>7, <1>8 DEF Going
<1>10. Going(DOMAIN tasks)'
  <2>1. SignInsLeft(DOMAIN tasks)'
    BY <1>4, <1>5, <1>6, <1>7, <1>8 DEF Going, SignInsLeft
  <2>2. RefreshAwaited(DOMAIN tasks)'
    BY <1>1, <1>4, <1>5, <1>6, <1>7, <1>8 DEF Going, RefreshAwaited, Waits
  <2> QED
    BY <1>3, <1>4, <1>9, <2>1, <2>2 DEF Going, ProviderLoads, GoodTask, TaskType, Waits
<1>11. PageLoads(page, DOMAIN tasks)'
  <2>1. CASE section \in InSpace
    <3>1. section \notin Static
      BY <2>1 DEF InSpace, Static
    <3> QED
      BY <1>4, <1>5, <1>7, <2>1, <3>1 DEF PageLoads, MustLoad, Loader
  <2>2. CASE section \notin InSpace
    <3>1. ~Loader(t, section)
      BY <1>1 DEF Loader
    <3> QED
      BY <1>4, <1>5, <1>6, <1>8, <2>2, <3>1 DEF PageLoads, MustLoad, Loader
  <2> QED
    BY <2>1, <2>2
<1>12. FrameOK'
  BY <1>2, <1>5, <1>8 DEF FrameOK, PageShape
<1> QED
  BY <1>10, <1>11, <1>12 DEF TasksInv

(* Without(t) with one request more, which need not be of another kind.    *)
LEMMA AnsweredThenAsked ==
  ASSUME TasksInv, NEW t, Going(DOMAIN Without(t)), NEW u,
         GoodTask(u), ~Waits(u), session # None => u.does \notin AuthKinds
  PROVE  /\ DOMAIN With(Without(t), {u}) = DOMAIN Without(t) \cup {u}
         /\ Going(DOMAIN With(Without(t), {u}))
<1>1. DOMAIN With(Without(t), {u}) = DOMAIN Without(t) \cup {u}
  BY WithDomain
<1> QED
  BY <1>1, GoingWith

(* The load of the page, at each of its requests: it goes on, or the page  *)
(* is ready.                                                               *)
LEMMA LoadGoesOn ==
  ASSUME NEW at, NEW ok \in BOOLEAN, section \notin {"spaces", "devices"}, NEW owner,
         at \in IF section = "data" THEN {"pool", "passes", "mine"} ELSE {"all"},
         ~Settles(section, at, ok)
  PROVE  /\ section = "data"
         /\ NextAwait(section, at, ok, owner) \in {"passes", "mine"}
BY DEF Settles, NextAwait

LEMMA LoadAnsweredKeepsTasks ==
  ASSUME TasksInv, NEW t \in DOMAIN tasks, NEW ok \in BOOLEAN, LoadAnswered(t, ok)
  PROVE  TasksInv'
<1> DEFINE next == NextAwait(section, t.at, ok, Owner(space))
           u == Onward(t, next)
           ts == IF next = None THEN Without(t) ELSE With(Without(t), {u})
<1>1. PICK v : ShowPage([page EXCEPT !.view = v, !.ready = @ \/ Settles(section, t.at, ok)], ts)
  BY DEF LoadAnswered
<1> DEFINE p == [page EXCEPT !.view = v, !.ready = @ \/ Settles(section, t.at, ok)]
<1>2. /\ GoodTask(t) /\ ~Waits(t) /\ t.here = "here" /\ t.at \in Awaits
      /\ section # "spaces" /\ UnchangedFrame
  BY DEF LoadAnswered, Answerable, Waits, TasksInv, Going
<1>3. ~Provider(t)
  BY <1>2 DEF Provider, Awaits
<1>4. Going(DOMAIN Without(t)) /\ (~Loader(t, section) => PageLoads(page, DOMAIN Without(t)))
  BY <1>2, <1>3, AnsweredAway
<1>5. next \in Awaits \cup {None}
  BY DEF NextAwait, Awaits
<1>6. /\ GoodTask(u) /\ ~Waits(u) /\ u.does = t.does /\ u.here = "here" /\ u.at = next
  BY <1>2, <1>5, OnwardIsGood DEF TasksInv
<1>7. session # None => u.does \notin AuthKinds
  BY <1>2, <1>6 DEF TasksInv, Going, SignInsLeft
<1>8. PageShape(p) /\ p.ready = (page.ready \/ Settles(section, t.at, ok))
  <2>1. Settles(section, t.at, ok) \in BOOLEAN
    BY DEF Settles
  <2>2. /\ DOMAIN p = DOMAIN page /\ p.chosen = page.chosen
        /\ p.ready = (page.ready \/ Settles(section, t.at, ok))
    BY DEF TasksInv, FrameOK, PageShape
  <2> QED
    BY <2>1, <2>2 DEF TasksInv, FrameOK, PageShape
<1>9. next = None => DOMAIN ts = DOMAIN Without(t)
  OBVIOUS
<1>10. next # None => DOMAIN ts = DOMAIN Without(t) \cup {u}
  <2> HIDE DEF next, u
  <2> QED
    BY WithDomain
<1> HIDE DEF ts, u, p
<1>11. Going(DOMAIN ts)
  BY <1>4, <1>6, <1>7, <1>9, <1>10, GoingWith
<1>12. PageLoads(p, DOMAIN ts)
  <2> SUFFICES ASSUME MustLoad(p) PROVE \E w \in DOMAIN ts : Loader(w, section)
    BY DEF PageLoads
  <2>1. ~page.ready /\ ~Settles(section, t.at, ok) /\ MustLoad(page)
    BY <1>8 DEF MustLoad, TasksInv, FrameOK, PageShape
  <2>2. CASE ~Loader(t, section)
    BY <1>4, <1>9, <1>10, <2>1, <2>2 DEF PageLoads
  <2>3. CASE Loader(t, section)
    <3>1. section = "data" /\ next \in {"passes", "mine"}
      BY <1>2, <2>1, <2>3, LoadGoesOn DEF Loader, MustLoad
    <3>2. Loader(u, section)
      BY <1>6, <2>3, <3>1 DEF Loader
    <3>3. next # None
      BY <3>1, NamesAssumption DEF Awaits
    <3> HIDE DEF next
    <3> QED
      BY <1>10, <3>2, <3>3
  <2> QED
    BY <2>2, <2>3
<1>13. ShowPage(p, ts)
  BY <1>1 DEF p, ts, u
<1> QED
  BY <1>2, <1>8, <1>11, <1>12, <1>13, ShowPageKeeps

(* loadSpaces leaves the page ready, whatever the answer.                  *)
LEMMA SpacesLoadedKeepsTasks ==
  ASSUME TasksInv, NEW t \in DOMAIN tasks, NEW ok \in BOOLEAN, SpacesLoaded(t, ok)
  PROVE  TasksInv'
<1>1. GoodTask(t) /\ ~Waits(t) /\ t.at = "all"
  BY DEF SpacesLoaded, Answerable, Waits, TasksInv, Going
<1>2. Going(DOMAIN Without(t))
  BY <1>1, AnsweredAway DEF Provider
<1>3. ok => FirstOf[t.by] \in Spaces
  BY <1>1, LoginsAssumption DEF SpacesLoaded, May, GoodTask, TaskType
<1>4. Going(DOMAIN tasks')
  <2>1. CASE ~ok
    BY <1>2, <2>1 DEF SpacesLoaded
  <2>2. CASE ok
    <3> DEFINE u == Onward(t, FirstOf[t.by])
    <3>1. GoodTask(u) /\ ~Waits(u) /\ u.does = t.does
      BY <1>1, <1>3, <2>2, OnwardIsGood DEF TasksInv
    <3>2. session # None => u.does \notin AuthKinds
      BY <3>1 DEF SpacesLoaded, TasksInv, Going, SignInsLeft
    <3>3. tasks' = With(Without(t), {u})
      BY <2>2 DEF SpacesLoaded
    <3> HIDE DEF u
    <3> QED
      BY <1>2, <3>1, <3>2, <3>3, AnsweredThenAsked
  <2> QED
    BY <2>1, <2>2
<1>5. PageShape(page') /\ page'.ready
  <2>1. PageShape(page)
    BY DEF TasksInv, FrameOK
  <2>2. CASE ok
    <3>1. page' = [page EXCEPT !.ready = TRUE, !.view = "list", !.chosen = FirstOf[t.by]]
      BY <2>2 DEF SpacesLoaded
    <3> QED
      BY <1>3, <2>1, <2>2, <3>1 DEF PageShape
  <2>3. CASE ~ok
    <3>1. page' = [page EXCEPT !.ready = TRUE, !.view = "empty"]
      BY <2>3 DEF SpacesLoaded
    <3> QED
      BY <2>1, <3>1 DEF PageShape
  <2> QED
    BY <2>2, <2>3
<1>6. PageLoads(page', DOMAIN tasks')
  BY <1>5 DEF PageLoads, MustLoad
<1>7. UNCHANGED <<session, refresh, section, space>>
  BY DEF SpacesLoaded, UnchangedFrame
<1> QED
  BY <1>4, <1>5, <1>6, <1>7, PageStep

(* A detail, and a code that was mailed, are not what a page loads with.   *)
LEMMA DetailKeepsTasks ==
  ASSUME TasksInv, NEW t \in DOMAIN tasks, NEW ok \in BOOLEAN,
         DetailLoaded(t, ok) \/ CodeMailed(t, ok)
  PROVE  TasksInv'
<1>1. /\ GoodTask(t) /\ ~Waits(t)
      /\ t.does = "step-up" \/ (t.does = "load" /\ t.at \in Spaces)
  <2>1. GoodTask(t)
    BY DEF TasksInv, Going
  <2> QED
    BY <2>1 DEF DetailLoaded, CodeMailed, Answerable, Waits
<1>2. ~Provider(t) /\ ~Loader(t, section)
  BY <1>1, NamesAssumption DEF Provider, Loader, Awaits
<1>3. Going(DOMAIN Without(t)) /\ PageLoads(page, DOMAIN Without(t))
  BY <1>1, <1>2, AnsweredAway
<1>4. /\ tasks' = Without(t)
      /\ UNCHANGED <<session, refresh, section, space>>
      /\ page' \in {page, [page EXCEPT !.detail = t.at], [page EXCEPT !.code = @ \/ ok]}
  BY DEF DetailLoaded, CodeMailed, UnchangedFrame
<1>5. PageShape(page') /\ page'.ready = page.ready
  BY <1>4 DEF TasksInv, FrameOK, PageShape
<1> QED
  BY <1>3, <1>4, <1>5, PageStep DEF PageLoads, MustLoad

(* A control's answer, and the load it may go on with.                     *)
LEMMA ControlAnsweredKeepsTasks ==
  ASSUME TasksInv, NEW t \in DOMAIN tasks, NEW ok \in BOOLEAN, ControlAnswered(t, ok)
  PROVE  TasksInv'
<1>1. PICK c \in Controls(section) :
        /\ c.does = t.does
        /\ IF ok
           THEN ShowPage([page EXCEPT !.open = (@ \ c.closes) \cup ({c.opens} \ {None})],
                         With(Without(t), Reload(t, c)))
           ELSE tasks' = Without(t) /\ UNCHANGED page
  BY DEF ControlAnswered
<1>2. GoodTask(t)
  BY DEF TasksInv, Going
<1>3. ~Waits(t) /\ t.here # "gone" /\ t.at \notin Awaits /\ UnchangedFrame
  BY DEF ControlAnswered, Answerable, Waits
<1>4. t.does \notin Anonymous \cup {"provider", "load"}
  BY <1>1, PressKindsApart
<1>5. ~Provider(t) /\ ~Loader(t, section)
  BY <1>4 DEF Provider, Loader
<1>6. Going(DOMAIN Without(t)) /\ PageLoads(page, DOMAIN Without(t))
  BY <1>3, <1>5, AnsweredAway
<1>7. CASE ~ok
  BY <1>1, <1>3, <1>6, <1>7, PageStep DEF TasksInv, FrameOK, UnchangedFrame
<1>8. CASE ok
  <2> DEFINE p == [page EXCEPT !.open = (@ \ c.closes) \cup ({c.opens} \ {None})]
             ts == With(Without(t), Reload(t, c))
  <2>1. \A u \in Reload(t, c) : GoodTask(u) /\ ~Waits(u) /\ u.does \notin AuthKinds
    <3> DEFINE at == IF section = "spaces" THEN t.at ELSE FirstAwait(section)
               w == [Onward(t, at) EXCEPT !.here = "here"]
    <3>1. at \in Awaits \cup {"spaces"} \cup Spaces \cup {None}
      BY <1>2, <1>4 DEF GoodTask, TaskType, FirstAwait, Awaits, Anonymous
    <3>2. w = [does |-> t.does, at |-> at, here |-> "here", attempt |-> "first", by |-> session]
      <4>1. w = [t EXCEPT !.at = at, !.attempt = "first", !.by = session, !.here = "here"]
        BY DEF Onward
      <4>2. t \in TaskType
        BY <1>2 DEF GoodTask
      <4> HIDE DEF w, at
      <4> QED
        BY <4>1, <4>2 DEF TaskType
    <3>3. \A u \in Reload(t, c) : \/ u = [w EXCEPT !.does = w.does]
                                 \/ u = [w EXCEPT !.does = "load"]
      BY DEF Reload
    <3>4. at # "bridge"
      BY <3>1, NamesAssumption DEF Awaits
    <3> HIDE DEF w, at
    <3>5. GoodTask(w) /\ ~Waits(w) /\ w.does \notin AuthKinds
      BY <1>2, <1>4, <3>1, <3>2, <3>4
         DEF GoodTask, TaskType, Waits, TasksInv, FrameOK, AuthKinds, Anonymous
    <3>6. GoodTask([w EXCEPT !.does = "load"]) /\ ~Waits([w EXCEPT !.does = "load"])
          /\ [w EXCEPT !.does = "load"].does \notin AuthKinds
      <4>1. [w EXCEPT !.does = "load"] = [does |-> "load", at |-> at, here |-> "here",
                                          attempt |-> "first", by |-> session]
        BY <3>2
      <4> QED
        BY <1>2, <3>1, <3>4, <4>1
           DEF GoodTask, TaskType, Waits, Kinds, TasksInv, FrameOK, AuthKinds
    <3>7. [w EXCEPT !.does = w.does] = w
      BY <3>2
    <3> QED
      BY <3>3, <3>5, <3>6, <3>7
  <2>2. DOMAIN ts = DOMAIN Without(t) \cup Reload(t, c)
    BY WithDomain
  <2>3. PageShape(p) /\ p.ready = page.ready
    BY DEF TasksInv, FrameOK, PageShape
  <2>4. ShowPage(p, ts)
    BY <1>1, <1>8
  <2> HIDE DEF p, ts
  <2>5. Going(DOMAIN ts)
    BY <1>6, <2>1, <2>2, GoingWith
  <2>6. PageLoads(p, DOMAIN ts)
    BY <1>6, <2>2, <2>3 DEF PageLoads, MustLoad
  <2> QED
    BY <1>3, <2>3, <2>4, <2>5, <2>6, ShowPageKeeps
<1> QED
  BY <1>7, <1>8

(* A refused token: the handler waits for the refresh, and still loads     *)
(* what it loads.                                                          *)
LEMMA UnauthorizedKeepsTasks ==
  ASSUME TasksInv, NEW t \in DOMAIN tasks, Unauthorized(t)
  PROVE  TasksInv'
<1> DEFINE u == [t EXCEPT !.attempt = "refreshing"]
           E == DOMAIN Without(t)
<1>1. GoodTask(t) /\ t.does \notin Anonymous /\ session # None
  BY DEF Unauthorized, TasksInv, Going
<1>2. /\ u = [does |-> t.does, at |-> t.at, here |-> t.here, attempt |-> "refreshing",
              by |-> t.by]
  BY <1>1 DEF GoodTask, TaskType
<1>3. /\ refresh' = IF refresh = None THEN session ELSE refresh
      /\ UNCHANGED <<session, section, space, page>>
      /\ DOMAIN tasks' = E \cup {u}
  BY WithDomain DEF Unauthorized, Refreshed
<1>4. GoodTask(u) /\ Waits(u) /\ u.does \notin AuthKinds
  BY <1>1, <1>2 DEF GoodTask, TaskType, Waits, AuthKinds, Anonymous
<1>5. (Provider(t) => Provider(u)) /\ (Loader(t, section) => Loader(u, section))
  BY <1>2 DEF Provider, Loader
<1>6. E \subseteq DOMAIN tasks /\ \A v \in DOMAIN tasks : v # t => v \in E
  BY WithoutDomain
<1> HIDE DEF u, E
<1>7. Going(DOMAIN tasks)'
  <2>1. \A v \in DOMAIN tasks' : GoodTask(v)
    BY <1>3, <1>4, <1>6 DEF TasksInv, Going
  <2>2. SignInsLeft(DOMAIN tasks)'
    BY <1>3, <1>4, <1>6 DEF TasksInv, Going, SignInsLeft
  <2>3. RefreshAwaited(DOMAIN tasks)'
    BY <1>1, <1>3, <1>4 DEF RefreshAwaited, Waits
  <2>4. ProviderLoads(DOMAIN tasks)'
    BY <1>3, <1>5, <1>6 DEF TasksInv, Going, ProviderLoads, Provider
  <2> QED
    BY <2>1, <2>2, <2>3, <2>4 DEF Going, GoodTask, TaskType, Waits
<1>8. PageLoads(page, DOMAIN tasks)'
  BY <1>3, <1>5, <1>6 DEF TasksInv, PageLoads, MustLoad, Loader
<1>9. FrameOK'
  BY <1>3 DEF TasksInv, FrameOK, PageShape
<1> QED
  BY <1>7, <1>8, <1>9 DEF TasksInv

(* The settings' own sign-out goes on from the Go side to the control      *)
(* plane.                                                                  *)
LEMMA DeviceForgottenKeepsTasks ==
  ASSUME TasksInv, NEW t \in DOMAIN tasks, NEW ok \in BOOLEAN, DeviceForgotten(t, ok)
  PROVE  TasksInv'
<1> DEFINE u == [t EXCEPT !.at = None]
<1>1. GoodTask(t) /\ t.at = "bridge" /\ t.does = "forget"
  BY DEF DeviceForgotten, TasksInv, Going, GoodTask
<1>2. ~Waits(t) /\ ~Provider(t) /\ ~Loader(t, section)
  BY <1>1 DEF GoodTask, Anonymous, Provider, Loader
<1>3. Going(DOMAIN Without(t)) /\ PageLoads(page, DOMAIN Without(t))
  BY <1>2, AnsweredAway
<1>4. GoodTask(u) /\ ~Waits(u) /\ u.does \notin AuthKinds
  <2>1. u = [does |-> "forget", at |-> None, here |-> t.here, attempt |-> t.attempt, by |-> t.by]
    BY <1>1 DEF GoodTask, TaskType
  <2> HIDE DEF u
  <2> QED
    BY <1>1, <1>2, <2>1, NamesAssumption DEF GoodTask, TaskType, Waits, AuthKinds
<1>5. tasks' = Without(t) \/ tasks' = With(Without(t), {u})
  BY DEF DeviceForgotten
<1> HIDE DEF u
<1>6. Going(DOMAIN tasks') /\ PageLoads(page, DOMAIN tasks')
  <2>1. CASE tasks' = Without(t)
    BY <1>3, <2>1
  <2>2. CASE tasks' = With(Without(t), {u})
    BY <1>3, <1>4, <2>2, AnsweredThenAsked DEF PageLoads
  <2> QED
    BY <1>5, <2>1, <2>2
<1>7. UNCHANGED <<session, refresh, section, space, page>>
  BY DEF DeviceForgotten, UnchangedFrame
<1> QED
  BY <1>6, <1>7, PageStep DEF TasksInv, FrameOK
-----------------------------------------------------------------------------
(* The session changes.  Whoever sets it: the handlers ts that go on.      *)
LEMMA SetSessionKeepsTasks ==
  ASSUME FrameOK, NEW next \in Logins \cup {None}, NEW ts, SetSession(next, ts),
         refresh' \in Logins \cup {None},
         \A t \in DOMAIN ts : GoodTask(t),
         (refresh' # None) <=> (\E t \in DOMAIN ts : Waits(t)),
         session # None /\ next # None => /\ SignInsLeft(DOMAIN ts) /\ ProviderLoads(DOMAIN ts)
                                          /\ PageLoads(page, DOMAIN ts)
  PROVE  TasksInv'
<1> DEFINE D == DOMAIN ts
           E == {Orphan(t) : t \in D}
           u == Task("provider", "spaces", next)
           L == LoadsOf("spaces", "loading", next)
<1>1. session' = next
  BY DEF SetSession
<1>2. DOMAIN AllGone(ts) = E
  BY MovedDomains
<1>3. /\ \A v \in E : GoodTask(v) /\ v.here = "gone"
      /\ (\E t \in E : Waits(t)) <=> (\E t \in D : Waits(t))
  <2>1. \A t \in D : GoodTask(Orphan(t)) /\ Orphan(t).here = "gone"
                     /\ (Waits(Orphan(t)) <=> Waits(t))
    BY LeftIsGood
  <2> QED
    BY <2>1
<1>4. CASE session = None /\ next # None
  <2>1. /\ section' = "spaces" /\ space' = "loading" /\ page' = FreshPage("spaces")
        /\ tasks' = With(AllGone(ts), {u} \cup L)
    BY <1>4 DEF SetSession
  <2>2. DOMAIN tasks' = E \cup {u} \cup L
    <3> HIDE DEF E, u, L
    <3> QED
      BY <1>2, <2>1, WithDomain
  <2>3. GoodTask(u) /\ ~Waits(u) /\ u.does \notin AuthKinds /\ Provider(u)
    BY NamesAssumption DEF GoodTask, TaskType, Task, Waits, Kinds, AuthKinds, Provider
  <2>4. /\ \A v \in L : GoodTask(v) /\ ~Waits(v) /\ v.does \notin AuthKinds
        /\ \E v \in L : Loader(v, "spaces")
    BY LoadsAreGood DEF Sections, Static, InSpace
  <2> HIDE DEF D, E, u, L
  <2>5. Going(DOMAIN tasks)'
    <3>1. \A v \in DOMAIN tasks' : GoodTask(v)
      BY <1>3, <2>2, <2>3, <2>4
    <3>2. SignInsLeft(DOMAIN tasks)'
      BY <1>3, <2>2, <2>3, <2>4 DEF SignInsLeft
    <3>3. (\E t \in DOMAIN tasks' : Waits(t)) <=> (\E t \in D : Waits(t))
      BY <1>3, <2>2, <2>3, <2>4
    <3>4. RefreshAwaited(DOMAIN tasks)'
      BY <3>3 DEF RefreshAwaited, Waits, D
    <3>5. ProviderLoads(DOMAIN tasks)'
      BY <2>2, <2>3 DEF ProviderLoads, Provider
    <3> QED
      BY <3>1, <3>2, <3>4, <3>5 DEF Going, GoodTask, TaskType, Waits
  <2>6. PageLoads(page, DOMAIN tasks)'
    BY <2>1, <2>2, <2>4 DEF PageLoads, MustLoad, Loader
  <2>7. FrameOK'
    BY <1>1, <2>1, FreshPageShape DEF FrameOK, PageShape, Sections
  <2> QED
    BY <2>5, <2>6, <2>7 DEF TasksInv
<1>5. CASE session # None /\ next = None
  <2>1. /\ section' = "spaces" /\ space' = "loading" /\ page' = FreshPage("spaces")
        /\ tasks' = AllGone(ts)
    BY <1>5 DEF SetSession
  <2> HIDE DEF D, E
  <2>2. Going(DOMAIN tasks)'
    BY <1>1, <1>2, <1>3, <1>5, <2>1
       DEF Going, SignInsLeft, RefreshAwaited, ProviderLoads, GoodTask, TaskType, Waits, D
  <2>3. PageLoads(page, DOMAIN tasks)'
    BY <1>1, <1>5 DEF PageLoads, MustLoad
  <2>4. FrameOK'
    BY <1>1, <2>1, FreshPageShape DEF FrameOK, PageShape, Sections
  <2> QED
    BY <2>2, <2>3, <2>4 DEF TasksInv
<1>6. CASE (session = None) <=> (next = None)
  <2>1. tasks' = ts /\ UNCHANGED <<section, space, page>>
    BY <1>6 DEF SetSession
  <2>2. Going(DOMAIN tasks)'
    BY <1>1, <1>6, <2>1
       DEF Going, SignInsLeft, RefreshAwaited, ProviderLoads, GoodTask, TaskType, Waits, Provider
  <2>3. PageLoads(page, DOMAIN tasks)'
    BY <1>1, <1>6, <2>1 DEF PageLoads, MustLoad, Loader
  <2>4. FrameOK'
    BY <1>1, <2>1 DEF FrameOK, PageShape
  <2> QED
    BY <2>2, <2>3, <2>4 DEF TasksInv
<1> QED
  BY <1>4, <1>5, <1>6

LEMMA SignedInKeepsTasks ==
  ASSUME TasksInv, NEW t \in DOMAIN tasks,
         SignOutAnswered(t) \/ \E l \in Logins : SignedInAs(t, l)
  PROVE  TasksInv'
<1>1. PICK next \in Logins \cup {None} : refresh' = refresh /\ SetSession(next, Without(t))
  BY DEF SignOutAnswered, SignedInAs
<1>2. GoodTask(t) /\ t.does \in Anonymous
  BY DEF SignOutAnswered, SignedInAs, Anonymous, TasksInv, Going
<1>3. ~Waits(t) /\ ~Provider(t) /\ ~Loader(t, section)
  BY <1>2 DEF GoodTask, Anonymous, Provider, Loader
<1>4. Going(DOMAIN Without(t)) /\ PageLoads(page, DOMAIN Without(t))
  BY <1>3, AnsweredAway
<1> QED
  BY <1>1, <1>4, SetSessionKeepsTasks DEF TasksInv, FrameOK, Going, RefreshAwaited

(* Refreshed, who waited asks again; refused, nobody is signed in and who  *)
(* waited has ended.                                                       *)
LEMMA RefreshAnsweredKeepsTasks ==
  ASSUME TasksInv, NEW ok \in BOOLEAN, RefreshAnswered(ok)
  PROVE  TasksInv'
<1> DEFINE D == DOMAIN tasks
<1>1. FrameOK /\ Going(D) /\ PageLoads(page, D) /\ refresh' = None
  BY DEF TasksInv, RefreshAnswered
<1>2. CASE ok
  <2> DEFINE ts == BagOfAll(Replay, tasks)
             E == {Replay(t) : t \in D}
  <2>1. DOMAIN ts = E
    BY MovedDomains
  <2>2. SetSession(refresh, ts) /\ refresh \in Logins \cup {None}
    BY <1>2 DEF RefreshAnswered, TasksInv, FrameOK
  <2>3. \A t \in D : GoodTask(Replay(t)) /\ ~Waits(Replay(t))
    BY <1>1, <2>2, ReplayIsGood DEF Going
  <2>4. \A t \in D : Replay(t).does = t.does /\ Replay(t).here = t.here /\ Replay(t).at = t.at
    BY <1>1 DEF Replay, Going, GoodTask, TaskType
  <2> HIDE DEF ts
  <2>5. SignInsLeft(E)
    BY <1>1, <2>4 DEF Going, SignInsLeft
  <2>6. ProviderLoads(E)
    BY <1>1, <2>4 DEF Going, ProviderLoads, Provider
  <2>7. PageLoads(page, E)
    BY <1>1, <2>4 DEF PageLoads, Loader
  <2>8. \A t \in E : GoodTask(t) /\ ~Waits(t)
    BY <2>3
  <2> HIDE DEF D, E
  <2> QED
    BY <1>1, <2>1, <2>2, <2>5, <2>6, <2>7, <2>8, SetSessionKeepsTasks
<1>3. CASE ~ok
  <2> DEFINE ts == [t \in {u \in DOMAIN tasks : ~Waits(u)} |-> tasks[t]]
  <2>1. SetSession(None, ts)
    BY <1>3 DEF RefreshAnswered
  <2>2. DOMAIN ts \subseteq D /\ \A t \in DOMAIN ts : ~Waits(t)
    OBVIOUS
  <2> HIDE DEF ts, D
  <2>3. \A t \in DOMAIN ts : GoodTask(t)
    BY <1>1, <2>2 DEF Going
  <2> QED
    BY <1>1, <2>1, <2>2, <2>3, SetSessionKeepsTasks
<1> QED
  BY <1>2, <1>3
-----------------------------------------------------------------------------
LEMMA TasksInvInit == Init => TasksInv
<1> SUFFICES ASSUME Init PROVE TasksInv
  OBVIOUS
<1>1. FrameOK
  BY FreshPageShape DEF Init, FrameOK, Sections
<1>2. DOMAIN tasks = {}
  BY DEF Init, EmptyBag, SetToBag
<1> QED
  BY <1>1, <1>2 DEF Init, TasksInv, Going, SignInsLeft, RefreshAwaited, ProviderLoads, PageLoads,
                    MustLoad

LEMMA AnswerKeepsTasks ==
  ASSUME TasksInv, NEW t \in DOMAIN tasks, Answer(t)
  PROVE  TasksInv'
BY SignedInKeepsTasks, StepAnsweredKeepsTasks, OrphanAnsweredKeepsTasks, UnauthorizedKeepsTasks,
   ProviderAnsweredKeepsTasks, LoadAnsweredKeepsTasks, SpacesLoadedKeepsTasks, DetailKeepsTasks,
   ControlAnsweredKeepsTasks, DeviceForgottenKeepsTasks DEF Answer

(* What every step keeps.                                                  *)
LEMMA TasksInvNext == TasksInv /\ [Next]_vars => TasksInv'
<1> SUFFICES ASSUME TasksInv, [Next]_vars PROVE TasksInv'
  OBVIOUS
<1>1. CASE LearnEnvironment \/ LiveChanges \/ UNCHANGED vars
  <2>1. UNCHANGED <<session, refresh, section, space, page, tasks>>
    BY <1>1 DEF LearnEnvironment, LiveChanges, vars
  <2> QED
    BY <2>1, PageStep DEF TasksInv, FrameOK
<1>2. CASE LiveEvent \/ PowerTimer
  BY <1>2, TimersKeepTasks
<1>3. CASE Person
  BY <1>3, PersonKeepsTasks
<1>4. CASE \E t \in DOMAIN tasks : Answer(t)
  BY <1>4, AnswerKeepsTasks
<1>5. CASE \E ok \in BOOLEAN : RefreshAnswered(ok)
  BY <1>5, RefreshAnsweredKeepsTasks
<1> QED
  BY <1>1, <1>2, <1>3, <1>4, <1>5 DEF Next

(* Every handler is of a known kind, and what has to load does, always:    *)
(* the screens, SpaceProvider and request.                                 *)
THEOREM HandlersGoOn == Spec => []TasksInv
BY TasksInvInit, TasksInvNext, PTL DEF Spec

(* No page waits for a load that nobody has under way, and nobody for a    *)
(* refresh that has ended, for any Spaces, sign-ins and number of requests *)
(* (the load of every screen, SpaceProvider, request and refresh).         *)
THEOREM WaitersAreServed == Spec => []NobodyWaitsInVain
<1>1. TasksInv => NobodyWaitsInVain
  <2> SUFFICES ASSUME TasksInv PROVE NobodyWaitsInVain
    OBVIOUS
  <2>1. (refresh # None) <=> \E t \in DOMAIN tasks : Waits(t)
    BY DEF TasksInv, Going, RefreshAwaited
  <2>2. ASSUME Loading, section # "devices"
        PROVE  \E t \in DOMAIN tasks :
                 /\ t.here = "here"
                 /\ t.does = IF section \in InSpace /\ space = "loading" THEN "provider" ELSE "load"
    <3>1. session # None /\ ~page.ready /\ (section \in InSpace => space # "none")
      BY <2>2 DEF Loading, SignedIn
    <3>2. CASE section \in InSpace /\ space = "loading"
      BY <3>1, <3>2 DEF TasksInv, Going, ProviderLoads, Provider
    <3>3. CASE ~(section \in InSpace /\ space = "loading")
      <4>1. section \in InSpace => space \in Spaces
        BY <3>1, <3>3 DEF TasksInv, FrameOK
      <4> QED
        BY <2>2, <3>1, <3>3, <4>1 DEF TasksInv, PageLoads, MustLoad, Loader
    <3> QED
      BY <3>2, <3>3
  <2> QED
    BY <2>1, <2>2 DEF NobodyWaitsInVain
<1> QED
  BY <1>1, HandlersGoOn, PTL
=============================================================================
