--------------------------- MODULE ClientScreens ---------------------------
(***************************************************************************)
(* What the steps of the sign-in and the sections of the desktop window    *)
(* offer and load (apps/desktop/frontend/src/screens, components): a table *)
(* of controls, one row for each control that sends a request.             *)
(*                                                                         *)
(* The rows of a page (computers, people, folders ...) are all alike, so   *)
(* one stands for them; of what a page shows only the view matters that    *)
(* decides what it offers.                                                 *)
(***************************************************************************)
EXTENDS Naturals, FiniteSets

CONSTANTS
  None,    \* no session, no Space, no dialog
  Spaces,  \* the Spaces somebody who signs in may belong to
  Owned    \* those of them they own, whoever signs in

ASSUME OwnedAssumption == Owned \subseteq Spaces

Sections == {"spaces", "data", "network", "files", "printers", "activity", "automations",
             "settings", "devices", "power", "members"}

(* The sections that work inside the Space the window looks at, and are    *)
(* given it by the Shell.                                                  *)
InSpace == {"data", "members", "power", "files", "printers", "network"}

(* The sections with nothing to load.                                      *)
Static == {"settings", "automations"}
-----------------------------------------------------------------------------
(* Signing in: AuthFlow.                                                   *)

Steps == {"welcome", "register", "verify-email", "sign-in", "verify-device"}

(* Back and the other links between the steps, which ask nobody.           *)
Links ==
  {<<"welcome", "register">>, <<"welcome", "sign-in">>, <<"register", "welcome">>,
   <<"register", "sign-in">>, <<"verify-email", "register">>, <<"sign-in", "welcome">>,
   <<"sign-in", "register">>, <<"verify-device", "sign-in">>}

(* What a step submits, each while it is not being submitted already; a    *)
(* step with a code can also have it sent again, not while it is checked.  *)
Submits(step) ==
  CASE step = "register" -> {"register"}
    [] step = "verify-email" -> {"verify-email", "resend"}
    [] step = "sign-in" -> {"sign-in"}
    [] step = "verify-device" -> {"verify-device", "resend"}
    [] OTHER -> {}

(* The requests that carry no access token.                                *)
Anonymous == {"register", "verify-email", "sign-in", "verify-device", "resend",
              "sign-out", "forget"}
-----------------------------------------------------------------------------
(* A control: the views it is offered in, whether to the owner alone, the  *)
(* dialog it belongs to, whether it needs the code that was mailed, the    *)
(* requests in flight that disable it; and when its request succeeds, the  *)
(* dialogs it closes, the one it opens, and whether the page loads again,  *)
(* the control being disabled ("held") or free meanwhile.                  *)
Control(name) ==
  [does |-> name, in |-> {"list"}, owner |-> FALSE, from |-> None, coded |-> FALSE,
   busy |-> {name}, closes |-> {}, opens |-> None, reloads |-> "held"]

From(name, dialog) == [Control(name) EXCEPT !.from = dialog, !.closes = {dialog}]

(* The button that switches sharing stays enabled while it is switching.   *)
SpacesScreen ==
  {[Control("share") EXCEPT !.owner = TRUE, !.busy = {}]}

(* A token minted for an agent is shown until it is discarded.             *)
EnrollAgentCard ==
  {[Control("mint") EXCEPT !.owner = TRUE, !.opens = "token", !.reloads = "no"]}

DataPoolScreen ==
  {[Control("revoke-pass") EXCEPT !.in = {"pool"}, !.busy = {}]}

ConnectPoolCard ==
  {[Control("connect") EXCEPT !.in = {"none"}, !.owner = TRUE, !.reloads = "free"]}

(* The Pass and its code are shown by the dialog that asked for it, if it  *)
(* is still there.                                                         *)
CreatePassDialog ==
  {[From("create-pass", "create") EXCEPT !.in = {"pool"}, !.opens = "pass-ready",
      !.reloads = "no"]}

MemberAccessScreen ==
  {[Control("pause") EXCEPT !.busy = {"pause", "revoke-access"}],
   [From("revoke-access", "confirm-revoke") EXCEPT !.busy = {"pause", "revoke-access"}]}

EditLimit == {[From("edit-limit", "edit") EXCEPT !.reloads = "free"]}

(* Any command that goes through closes the confirmation that is open.     *)
PowerScreen ==
  {[Control("command") EXCEPT !.in = {"list", "pending"}, !.closes = {"step-up"}],
   [Control("set-wake-helper") EXCEPT !.in = {"list", "pending"}, !.owner = TRUE, !.busy = {}]}

PendingCommand ==
  {[Control("cancel-command") EXCEPT !.in = {"pending"}, !.closes = {"step-up"}]}

StepUpConfirm ==
  {[From("confirmed-command", "step-up") EXCEPT !.in = {"list", "pending"}, !.coded = TRUE,
      !.busy = {}]}

WakeReadinessPanel ==
  {[Control("register-mac") EXCEPT !.in = {"list", "pending"}, !.owner = TRUE,
      !.reloads = "free"]}

(* Starting another of its actions enables the first one again.            *)
FolderActions == {[Control("folder-action") EXCEPT !.busy = {}]}

FilesScreen == {[From("delete", "confirm-delete") EXCEPT !.busy = {}]}

ApproveFolderCard ==
  {[From("approve-folder", "approve") EXCEPT !.in = {"list", "empty"}, !.owner = TRUE]}

(* submit reads the file and looks whether it is a PDF before it asks.     *)
PrintDialog ==
  {[From("print", "print-dialog") EXCEPT !.in = {"list", "empty"}, !.reloads = "free"]}

RemoteScreen ==
  {[Control("view-session") EXCEPT !.closes = {"confirm-control"}, !.opens = "stage",
      !.busy = {}, !.reloads = "no"]}

ConfirmControlDialog ==
  {[From("control-session", "confirm-control") EXCEPT !.in = {"list", "empty"},
      !.coded = TRUE, !.opens = "stage", !.reloads = "no"]}

DevicesScreen ==
  {[From("rename", "renaming") EXCEPT !.busy = {"rename", "revoke-device"}],
   [From("revoke-device", "confirm-revoke") EXCEPT !.busy = {"rename", "revoke-device"}]}

(* The page after the last: added to what is shown.                        *)
ActivityScreen == {[Control("more") EXCEPT !.reloads = "no"]}

Controls(section) ==
  CASE section = "spaces" -> SpacesScreen \cup EnrollAgentCard
    [] section = "data" -> DataPoolScreen \cup ConnectPoolCard \cup CreatePassDialog
    [] section = "members" -> MemberAccessScreen \cup EditLimit
    [] section = "power" -> PowerScreen \cup PendingCommand \cup StepUpConfirm
                              \cup WakeReadinessPanel
    [] section = "files" -> FolderActions \cup FilesScreen \cup ApproveFolderCard
    [] section = "printers" -> PrintDialog
    [] section = "network" -> RemoteScreen \cup ConfirmControlDialog
    [] section = "devices" -> DevicesScreen
    [] section = "activity" -> ActivityScreen
    [] OTHER -> {}

(* The dialogs whose opening has a code mailed.                            *)
Coded == {"step-up", "confirm-control"}

(* The dialogs a page may show.                                            *)
Openable(section, view) ==
  {c.from : c \in {d \in Controls(section) : d.from # None /\ view \in d.in}}

(* The dialogs that are opened from a row, and shown without it.           *)
FromRows == {"print-dialog", "confirm-control"}

(* Requests a dialog keeps track of itself: once it is gone they go on,    *)
(* and the next dialog of the kind knows nothing of them.                  *)
Untracked(name, dialogs) ==
  \/ name = "print" /\ "print-dialog" \notin dialogs
  \/ name = "edit-limit" /\ "edit" \notin dialogs
  \/ name = "control-session" /\ "confirm-control" \notin dialogs
-----------------------------------------------------------------------------
(* Loading: what a page asks for, in order.  Requests that are awaited     *)
(* together are one.                                                       *)

Awaits == {"pool", "passes", "mine", "all", "agents"}

FirstAwait(section) == IF section = "data" THEN "pool" ELSE "all"

(* The request a load goes on with after an answer, if any.                *)
NextAwait(section, at, ok, owner) ==
  CASE section = "data" /\ at = "pool" /\ ok -> "passes"
    [] section = "data" /\ at \in {"pool", "passes"} /\ ~ok -> "mine"
    [] section = "files" /\ at = "all" /\ owner -> "agents"
    [] OTHER -> None

(* The views an answer may leave the page in.  The first failed load of    *)
(* the devices leaves the page as it was, which is loading.                *)
ViewsAfter(section, at, ok, view) ==
  CASE section = "data" ->
         (CASE at = "passes" /\ ok -> {"pool"}
            [] at = "mine" -> {IF ok THEN "mine" ELSE "none"}
            [] OTHER -> {IF view = "mine" THEN "mine" ELSE IF ok THEN "pool" ELSE "none"})
    [] at = "agents" \/ (section = "devices" /\ ~ok) -> {view}
    [] section = "power" /\ ok -> {"list", "pending"}
    [] section = "activity" -> {"list"}
    [] OTHER -> {IF ok THEN "list" ELSE "empty"}

(* Variant: an answer is needed to leave "Loading", on every page.         *)
SettlesWhenGranted(section, at, ok) ==
  CASE section = "data" -> (at = "mine" \/ at = "passes") /\ ok
    [] OTHER -> ok

(* Whether the page leaves its "Loading" with this answer.                 *)
Settles(section, at, ok) ==
  CASE section = "data" -> at = "mine" \/ (at = "passes" /\ ok)
    [] section = "devices" -> ok
    [] OTHER -> TRUE
=============================================================================
