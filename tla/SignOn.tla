------------------------------- MODULE SignOn -------------------------------
(***************************************************************************)
(* TN5250Handler.performAutoSignIn() between a host that paints screens at *)
(* its own pace and the viewers, who see what the emission gate lets       *)
(* through (protocols/tn5250-handler.ts).  A screen is its kind:           *)
(*   "blank"   nothing on it yet, or one half painted                      *)
(*   "signon"  a sign-on screen: a visible input and a hidden one          *)
(*   "form"    a screen of the application, with visible and hidden inputs *)
(*   "info"    a message to be dismissed by Enter                          *)
(*   "menu"    a screen with a command line                                *)
(* An action is one turn of the event loop.  What follows an await runs in *)
(* the turn that resolved it: h is the handler, and the operators are what *)
(* its methods make of it, one after the other.                            *)
(***************************************************************************)
EXTENDS Naturals

CONSTANTS
    None,
    Attempts,   \* the 4 screens that are dismissed
    Styles      \* what hosts and networks do: "parts" paints a screen by parts
                \* and leaves it half painted for a while, "drops" loses the
                \* connection and the session reconnects

ASSUME AttemptsAssumption == Attempts \in Nat
ASSUME StylesAssumption == Styles \subseteq SUBSET {"parts", "drops"}

VARIABLES
    style,   \* of this host and its network
    job,     \* what the host runs for this terminal
    inbox,   \* what the answer on its way to the host carries, None if none is
    h        \* the handler

vars == <<style, job, inbox, h>>

Fresh ==
    [screen |-> "blank",       \* the screen buffer
     locked |-> FALSE,         \* keyboardLocked
     typed |-> {},             \* in the input fields, and flagged
     saved |-> FALSE,          \* savedFields has the values
     held |-> FALSE,           \* pendingScreenEmit
     flush |-> FALSE,          \* lockedFlushTimer is set
     shown |-> "blank",        \* the screen emitted last
     unseen |-> FALSE,         \* a host record was counted since
     flow |-> "idle",          \* where performAutoSignIn() is
     before |-> "blank",       \* the screen its last Enter was to dismiss
     attempt |-> 0,            \* how many screens it dismissed
     authenticated |-> FALSE,  \* its verdict
     sent |-> None,            \* what this turn sends
     leaks |-> 0]              \* answers that carried the password, but one

Screens == {"blank", "signon", "form", "info", "menu"}
Texts == {"user", "password", "stars"}

TypeOK ==
    /\ style \in Styles
    /\ job \in {"signon", "refused", "accepted", "resumed"}
    /\ inbox \in {None} \cup SUBSET Texts
    /\ h.screen \in Screens /\ h.shown \in Screens /\ h.typed \in SUBSET Texts
    /\ h.flow \in {"idle", "fields", "settle", "answer", "dismiss", "done"}
    /\ h.attempt \in 0 .. Attempts

-----------------------------------------------------------------------------
FaultyIsSignOnScreen(screen) == screen \in {"signon", "form"}

\* isSignOnScreen(): a hidden input, and the words of a sign-on screen
IsSignOnScreen(screen) == screen = "signon"

HasTwoInputs(screen) == screen \in {"signon", "form"}

\* hasCommandLine(): a wide visible input
HasCommandLine(screen) == screen = "menu"

\* sendAid(buildAidResponse('Enter')): what is flagged goes, the keyboard locks
SendEnter(g) == [g EXCEPT !.sent = g.typed, !.locked = TRUE]

Ends(g, authenticated) == [g EXCEPT !.flow = "done", !.authenticated = authenticated]

FaultyAutoSignIn(g) ==
    [SendEnter([g EXCEPT !.typed = {"user", "password"}, !.saved = TRUE])
        EXCEPT !.flow = "answer"]

\* autoSignIn(): once sent, the password is erased and no field stays flagged
AutoSignIn(g) ==
    [SendEnter([g EXCEPT !.typed = {"user", "password"}, !.saved = TRUE])
        EXCEPT !.flow = "answer", !.typed = {}]

\* restoreFields(): typed into a sign-on screen, the password as stars
RestoreFields(g) ==
    IF IsSignOnScreen(g.screen)
    THEN [g EXCEPT !.typed = @ \cup (IF g.saved THEN {"user", "stars"} ELSE {})]
    ELSE [g EXCEPT !.saved = FALSE]

FaultyDismissOnceMore(g) ==
    IF g.attempt <= Attempts /\ ~HasCommandLine(g.screen)
    THEN [SendEnter(g) EXCEPT !.flow = "dismiss", !.before = g.screen, !.attempt = @ + 1]
    ELSE Ends(g, TRUE)

FaultyDismiss(g) ==
    IF ~HasCommandLine(g.screen)
    THEN [SendEnter(g) EXCEPT !.flow = "dismiss", !.before = g.screen]
    ELSE Ends(g, TRUE)

\* Once more through the loop that dismisses screens
Dismiss(g) ==
    IF g.attempt < Attempts /\ ~HasCommandLine(g.screen)
    THEN [SendEnter(g) EXCEPT !.flow = "dismiss", !.before = g.screen, !.attempt = @ + 1]
    ELSE Ends(g, TRUE)

FaultyAnswered(g) ==
    CASE g.flow = "answer" -> Dismiss(RestoreFields(g))
      [] g.flow = "dismiss" ->
            IF g.screen = g.before THEN Ends(g, TRUE)
            ELSE IF IsSignOnScreen(g.screen) THEN Ends(g, FALSE)
            ELSE Dismiss(g)

\* performAutoSignIn() from its waitForScreen() on
Answered(g) ==
    CASE g.flow = "answer" ->
            LET r == RestoreFields(g)
            IN  IF IsSignOnScreen(r.screen) THEN Ends(r, FALSE) ELSE Dismiss(r)
      [] g.flow = "dismiss" ->
            IF g.screen = g.before THEN Ends(g, TRUE)
            ELSE IF IsSignOnScreen(g.screen) THEN Ends(g, FALSE)
            ELSE Dismiss(g)

\* performAutoSignIn() once the screen has settled
Settled(g) == IF IsSignOnScreen(g.screen) THEN AutoSignIn(g) ELSE Ends(g, FALSE)

\* emit('screenChange'), with the listeners of waitForScreen() and
\* waitForScreenWithFields()
Emit(g) ==
    LET e == [g EXCEPT !.shown = g.screen, !.unseen = FALSE, !.held = FALSE]
    IN  CASE e.flow \in {"answer", "dismiss"} -> Answered(e)
          [] e.flow = "fields" /\ HasTwoInputs(e.screen) -> [e EXCEPT !.flow = "settle"]
          [] OTHER -> e

FaultyEmitScreenGated(g) ==
    IF g.locked THEN [g EXCEPT !.held = TRUE] ELSE Emit([g EXCEPT !.flush = FALSE])

\* emitScreenGated(): a frame of a locked screen is held, for a while
EmitScreenGated(g) ==
    IF g.locked THEN [g EXCEPT !.held = TRUE, !.flush = TRUE]
    ELSE Emit([g EXCEPT !.flush = FALSE])

FaultyReceived(g, painted) ==
    LET r == [g EXCEPT !.unseen = TRUE]
    IN  IF painted \/ (g.held /\ ~g.locked) THEN EmitScreenGated(r) ELSE r

\* onRecord() of a record that was parsed into g
Received(g, painted) ==
    LET r == [g EXCEPT !.unseen = TRUE]
        unlocked == h.locked /\ ~g.locked
    IN  IF painted \/ ~g.held \/ unlocked THEN EmitScreenGated(r) ELSE r

-----------------------------------------------------------------------------
Init ==
    /\ style \in Styles
    /\ job \in {"signon", "resumed"}
    /\ inbox = None
    /\ h = Fresh

\* A turn leaves the handler as g; what it sends joins what is on its way
Turn(g) ==
    /\ h' = [g EXCEPT !.sent = None,
                      !.leaks = IF g.sent # None /\ "password" \in g.sent
                                THEN IF h.flow = "settle" THEN 0 ELSE 1 ELSE @]
    /\ inbox' = IF g.sent = None THEN inbox
                ELSE g.sent \cup (IF inbox = None THEN {} ELSE inbox)
    /\ UNCHANGED style

\* The screens of a job, whole; an accepted user lands anywhere in it
ScreensOf(j) ==
    CASE j \in {"signon", "refused"} -> {"signon"}
      [] j = "resumed" -> {"form"}
      [] j = "accepted" -> {"info", "menu", "form"}

\* The host paints a screen, and keeps the keyboard or gives it back
HostPaints(screen, lock) ==
    /\ Turn(Received([h EXCEPT !.screen = screen, !.locked = lock, !.typed = {}], TRUE))
    /\ UNCHANGED job

\* A record that paints nothing: an unlock (of a screen that is whole), a query,
\* a keep-alive
HostTouches(lock) ==
    /\ lock => h.locked
    /\ lock \/ ~h.locked \/ h.screen # "blank"
    /\ Turn(Received([h EXCEPT !.locked = lock], FALSE))
    /\ UNCHANGED job

\* The host takes an answer, or resumes a job it had kept for this terminal
HostReads ==
    /\ inbox # None
    /\ inbox' = None
    /\ job' \in IF job \in {"accepted", "resumed"} THEN {job}
                ELSE IF "password" \in inbox THEN {"accepted", "refused"}
                ELSE {"refused"}
    /\ UNCHANGED <<style, h>>

HostResumes ==
    /\ job = "signon"
    /\ job' = "resumed"
    /\ UNCHANGED <<style, inbox, h>>

\* performAutoSignIn(); ensureSignedOn() calls it again after it failed
SignsIn ==
    /\ h.flow \in {"idle", "done"} /\ ~h.authenticated
    /\ Turn([h EXCEPT !.flow = IF HasTwoInputs(h.screen) THEN "settle" ELSE "fields",
                      !.attempt = 0])
    /\ UNCHANGED job

\* Its timers: of waitForScreenWithFields(), of settleScreen(), which ends when
\* the screen was quiet for 300 ms or after 1500 ms, and of waitForScreen()
FieldsTimeOut ==
    /\ h.flow = "fields"
    /\ Turn([h EXCEPT !.flow = "settle"])
    /\ UNCHANGED job

SettleEnds ==
    /\ h.flow = "settle"
    /\ Turn(Settled(h))
    /\ UNCHANGED job

AnswerTimesOut ==
    /\ h.flow \in {"answer", "dismiss"}
    /\ Turn(Answered(h))
    /\ UNCHANGED job

\* lockedFlushTimer
Flush ==
    /\ h.flush
    /\ Turn(IF h.held THEN Emit([h EXCEPT !.flush = FALSE]) ELSE [h EXCEPT !.flush = FALSE])
    /\ UNCHANGED job

\* A viewer presses Enter, whatever the proxy is about to do
ViewerEnters ==
    /\ Turn(SendEnter(h))
    /\ UNCHANGED job

\* The connection drops, and connect() starts again from a blank screen
Reconnects ==
    /\ "drops" \in style
    /\ h' = [h EXCEPT !.screen = "blank", !.locked = FALSE, !.typed = {}]
    /\ job' \in {"signon", "resumed"}
    /\ inbox' = None
    /\ UNCHANGED style

Next ==
    \/ \E screen \in ScreensOf(job), lock \in BOOLEAN : HostPaints(screen, lock)
    \/ "parts" \in style /\ HostPaints("blank", TRUE)
    \/ \E lock \in BOOLEAN : HostTouches(lock)
    \/ HostReads \/ HostResumes
    \/ SignsIn \/ FieldsTimeOut \/ SettleEnds \/ AnswerTimesOut
    \/ Flush
    \/ ViewerEnters
    \/ Reconnects

\* The timers that were set fire
Fairness ==
    /\ WF_vars(FieldsTimeOut) /\ WF_vars(SettleEnds) /\ WF_vars(AnswerTimesOut)
    /\ WF_vars(Flush)

Spec == Init /\ [][Next]_vars /\ Fairness

-----------------------------------------------------------------------------
(* The user and the password are typed on a sign-on screen only, although  *)
(* the host may put the screen of a resumed job, with inputs of the same   *)
(* kinds, in its place at any time.                                        *)
CredentialsOnSignOnScreen ==
    [][(h'.flow = "answer" /\ h.flow # "answer") \/ h'.typed \ h.typed # {} =>
        h'.screen = "signon"]_vars

(* The password goes out once: whoever presses Enter next does not send it *)
(* again.                                                                  *)
PasswordSentOnce == h.leaks = 0

(* A host that paints whole screens: the sign-on is reported only when the *)
(* host accepted the user, or had resumed a job.                           *)
WholeScreensDecide ==
    style = {} /\ h.authenticated => job \in {"accepted", "resumed"}

(* What viewers were shown is the screen the host painted last, unless a   *)
(* frame is held, and then a timer is set to flush it.                     *)
HeldOrShown ==
    /\ h.unseen => h.held
    /\ h.held => h.flush

(* Every host record reaches the viewers, painted or not, even if the host *)
(* never unlocks the keyboard: they wait for the count it carries.         *)
EveryRecordIsShown == h.unseen ~> ~h.unseen

(* A sign-on ends, even if the host paints for ever.                       *)
SignOnEnds == h.flow \notin {"idle", "done"} ~> h.flow = "done"

(* The credentials are safe: typed on a sign-on screen only, and the       *)
(* password is sent once.                                                  *)
CredentialsAreSafe == CredentialsOnSignOnScreen /\ []PasswordSentOnce

(* The handler tells the truth: of the sign-on, if the host paints whole   *)
(* screens, and to the viewers, who see the last screen or will.           *)
HandlerIsTruthful == TypeOK /\ WholeScreensDecide /\ HeldOrShown

(* Neither the viewers nor the caller wait for ever, whatever the host     *)
(* does: timers end what it does not.                                      *)
NobodyWaitsForEver == EveryRecordIsShown /\ SignOnEnds
=============================================================================
