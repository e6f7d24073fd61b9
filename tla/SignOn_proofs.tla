--------------------------- MODULE SignOn_proofs ---------------------------
(***************************************************************************)
(* Theorems about SignOn, for any number of dismissals and any hosts.  The *)
(* handler is what its methods make of it, so the lemmas say of each       *)
(* method what it keeps; the steps of Next then put them together.         *)
(***************************************************************************)
EXTENDS SignOn, TLAPS

Flows == {"idle", "fields", "settle", "answer", "dismiss", "done"}

\* The fields of a handler.  The password is in no field between two turns
HandlerType ==
    [screen : Screens, locked : BOOLEAN, typed : SUBSET {"user", "stars"},
     saved : BOOLEAN, held : BOOLEAN, flush : BOOLEAN, shown : Screens,
     unseen : BOOLEAN, flow : Flows, before : Screens, attempt : 0 .. Attempts,
     authenticated : BOOLEAN, sent : {None} \cup SUBSET Texts, leaks : {0}]

\* The password is not in what this turn sends
Discreet(g) == g.sent # None => "password" \notin g.sent

\* No record is unseen without a frame that is held, none held without a timer
Gated(g) == (g.unseen => g.held) /\ (g.held => g.flush)

Through(j) == j \in {"accepted", "resumed"}

\* What the handler has seen of a host that paints whole screens and runs job j
Honest(g, j) ==
    /\ g.screen \in {"form", "info", "menu"} => Through(j)
    /\ g.flow \in {"answer", "dismiss"} => g.screen # "blank"
    /\ g.flow = "dismiss" => g.before # "signon"
    /\ g.authenticated => Through(j)

\* What a method leaves alone when it goes on with the sign-on
KeepsFrame(g, r) ==
    /\ r.screen = g.screen /\ r.shown = g.shown
    /\ r.unseen = g.unseen /\ r.held = g.held /\ r.flush = g.flush

\* Nothing is typed and no credentials are sent off a sign-on screen
Careful(g, r) ==
    /\ r.typed \subseteq g.typed \/ r.screen = "signon"
    /\ r.flow = "answer" => g.flow = "answer" \/ r.screen = "signon"

IInv ==
    /\ style \in Styles
    /\ job \in {"signon", "refused", "accepted", "resumed"}
    /\ inbox \in {None} \cup SUBSET Texts
    /\ h \in HandlerType /\ h.sent = None
    /\ Gated(h)
    /\ style = {} => Honest(h, job)

-----------------------------------------------------------------------------
(* Going through the loop once more sends what is typed, and ends only on  *)
(* a screen of the application.                                            *)
LEMMA DismissKeeps ==
    ASSUME NEW g \in HandlerType, Discreet(g)
    PROVE  /\ Dismiss(g) \in HandlerType /\ Discreet(Dismiss(g))
           /\ KeepsFrame(g, Dismiss(g)) /\ Dismiss(g).typed = g.typed
           /\ Dismiss(g).flow \in {"dismiss", "done"}
           /\ \A j : Honest(g, j) /\ g.screen \notin {"signon", "blank"} => Honest(Dismiss(g), j)
<1>1. CASE g.attempt < Attempts /\ ~HasCommandLine(g.screen)
  <2> DEFINE r == [SendEnter(g) EXCEPT !.flow = "dismiss", !.before = g.screen, !.attempt = @ + 1]
  <2>1. Dismiss(g) = r
    BY <1>1 DEF Dismiss
  <2>2. g.attempt + 1 \in 0 .. Attempts
    BY <1>1, AttemptsAssumption DEF HandlerType
  <2>3. r \in HandlerType /\ Discreet(r)
    BY <2>2 DEF HandlerType, SendEnter, Flows, Texts, Discreet
  <2>4. KeepsFrame(g, r) /\ r.typed = g.typed /\ r.flow = "dismiss"
    BY DEF HandlerType, SendEnter, KeepsFrame
  <2>5. ASSUME NEW j, Honest(g, j), g.screen \notin {"signon", "blank"}
        PROVE  Honest(r, j)
    BY <2>5 DEF Honest, HandlerType, SendEnter, Through
  <2> QED
    BY <2>1, <2>3, <2>4, <2>5
<1>2. CASE ~(g.attempt < Attempts /\ ~HasCommandLine(g.screen))
  <2>1. Dismiss(g) = Ends(g, TRUE)
    BY <1>2 DEF Dismiss
  <2>2. ASSUME NEW j, Honest(g, j), g.screen \notin {"signon", "blank"}
        PROVE  Honest(Ends(g, TRUE), j)
    BY <2>2 DEF Honest, HandlerType, Ends, Through, Screens
  <2> QED
    BY <2>1, <2>2 DEF HandlerType, Ends, Flows, Discreet, KeepsFrame
<1> QED
  BY <1>1, <1>2

(* A verdict changes nothing but the verdict.                              *)
LEMMA EndsKeeps ==
    ASSUME NEW g \in HandlerType, NEW verdict \in BOOLEAN, Discreet(g)
    PROVE  /\ Ends(g, verdict) \in HandlerType /\ Discreet(Ends(g, verdict))
           /\ KeepsFrame(g, Ends(g, verdict)) /\ Ends(g, verdict).typed = g.typed
           /\ Ends(g, verdict).flow = "done"
           /\ \A j : Honest(g, j) /\ (verdict => Through(j)) => Honest(Ends(g, verdict), j)
BY DEF Ends, HandlerType, Flows, Discreet, KeepsFrame, Honest

(* The values come back on a sign-on screen only, and never the password.  *)
LEMMA RestoreKeeps ==
    ASSUME NEW g \in HandlerType, Discreet(g)
    PROVE  /\ RestoreFields(g) \in HandlerType /\ Discreet(RestoreFields(g))
           /\ KeepsFrame(g, RestoreFields(g)) /\ RestoreFields(g).flow = g.flow
           /\ RestoreFields(g).typed \subseteq g.typed \/ RestoreFields(g).screen = "signon"
           /\ \A j : Honest(g, j) => Honest(RestoreFields(g), j)
BY DEF RestoreFields, IsSignOnScreen, HandlerType, Discreet, KeepsFrame, Honest

(* What follows the wait for an answer.                                    *)
LEMMA AnsweredKeeps ==
    ASSUME NEW g \in HandlerType, Discreet(g), g.flow \in {"answer", "dismiss"}
    PROVE  /\ Answered(g) \in HandlerType /\ Discreet(Answered(g))
           /\ KeepsFrame(g, Answered(g)) /\ Careful(g, Answered(g))
           /\ \A j : Honest(g, j) => Honest(Answered(g), j)
<1>1. CASE g.flow = "answer"
  <2> DEFINE r == RestoreFields(g)
  <2>1. Answered(g) = IF IsSignOnScreen(r.screen) THEN Ends(r, FALSE) ELSE Dismiss(r)
    BY <1>1 DEF Answered
  <2>2. /\ r \in HandlerType /\ Discreet(r) /\ KeepsFrame(g, r)
        /\ r.flow = g.flow /\ (r.typed \subseteq g.typed \/ r.screen = "signon")
        /\ \A j : Honest(g, j) => Honest(r, j)
    BY RestoreKeeps
  <2> HIDE DEF r
  <2>3. CASE IsSignOnScreen(r.screen)
    <3>1. Answered(g) = Ends(r, FALSE)
      BY <2>1, <2>3
    <3>2. /\ Ends(r, FALSE) \in HandlerType /\ Discreet(Ends(r, FALSE))
          /\ KeepsFrame(r, Ends(r, FALSE)) /\ Ends(r, FALSE).typed = r.typed
          /\ Ends(r, FALSE).flow = "done"
          /\ \A j : Honest(r, j) => Honest(Ends(r, FALSE), j)
      BY <2>2, EndsKeeps
    <3> QED
      BY <1>1, <2>2, <3>1, <3>2 DEF KeepsFrame, Careful
  <2>4. CASE ~IsSignOnScreen(r.screen)
    <3>1. Answered(g) = Dismiss(r)
      BY <2>1, <2>4
    <3>2. \A j : Honest(g, j) => Honest(r, j) /\ r.screen \notin {"signon", "blank"}
      BY <1>1, <2>2, <2>4 DEF Honest, IsSignOnScreen, KeepsFrame
    <3> QED
      BY <1>1, <2>2, <3>1, <3>2, DismissKeeps DEF KeepsFrame, Careful
  <2> QED
    BY <2>3, <2>4
<1>2. CASE g.flow = "dismiss"
  <2>1. Answered(g) = IF g.screen = g.before THEN Ends(g, TRUE)
                      ELSE IF IsSignOnScreen(g.screen) THEN Ends(g, FALSE)
                      ELSE Dismiss(g)
    BY <1>2 DEF Answered
  <2>2. CASE g.screen = g.before
    <3>1. \A j : Honest(g, j) => Through(j)
      BY <1>2, <2>2 DEF Honest, HandlerType, Screens
    <3>2. Answered(g) = Ends(g, TRUE)
      BY <2>1, <2>2
    <3>3. /\ Ends(g, TRUE) \in HandlerType /\ Discreet(Ends(g, TRUE))
          /\ KeepsFrame(g, Ends(g, TRUE)) /\ Ends(g, TRUE).typed = g.typed
          /\ Ends(g, TRUE).flow = "done"
          /\ \A j : Honest(g, j) => Honest(Ends(g, TRUE), j)
      BY <3>1, EndsKeeps
    <3> QED
      BY <3>2, <3>3 DEF Careful
  <2>3. CASE g.screen # g.before /\ IsSignOnScreen(g.screen)
    <3>1. Answered(g) = Ends(g, FALSE)
      BY <2>1, <2>3
    <3>2. /\ Ends(g, FALSE) \in HandlerType /\ Discreet(Ends(g, FALSE))
          /\ KeepsFrame(g, Ends(g, FALSE)) /\ Ends(g, FALSE).typed = g.typed
          /\ Ends(g, FALSE).flow = "done"
          /\ \A j : Honest(g, j) => Honest(Ends(g, FALSE), j)
      BY EndsKeeps
    <3> QED
      BY <3>1, <3>2 DEF Careful
  <2>4. CASE g.screen # g.before /\ ~IsSignOnScreen(g.screen)
    <3>1. \A j : Honest(g, j) => g.screen \notin {"signon", "blank"}
      BY <1>2, <2>4 DEF Honest, IsSignOnScreen
    <3> QED
      BY <1>2, <2>1, <2>4, <3>1, DismissKeeps DEF KeepsFrame, Careful
  <2> QED
    BY <2>2, <2>3, <2>4
<1> QED
  BY <1>1, <1>2

-----------------------------------------------------------------------------
(* A frame that is emitted leaves nothing unseen or held, whatever its     *)
(* listeners do.                                                           *)
LEMMA EmitKeeps ==
    ASSUME NEW g \in HandlerType, Discreet(g)
    PROVE  /\ Emit(g) \in HandlerType /\ Discreet(Emit(g)) /\ Gated(Emit(g))
           /\ Emit(g).screen = g.screen /\ Careful(g, Emit(g))
           /\ \A j : Honest(g, j) => Honest(Emit(g), j)
<1> DEFINE e == [g EXCEPT !.shown = g.screen, !.unseen = FALSE, !.held = FALSE]
<1>1. Emit(g) = CASE e.flow \in {"answer", "dismiss"} -> Answered(e)
                  [] e.flow = "fields" /\ HasTwoInputs(e.screen) -> [e EXCEPT !.flow = "settle"]
                  [] OTHER -> e
  BY DEF Emit
<1>2. /\ e \in HandlerType /\ Discreet(e) /\ ~e.unseen /\ ~e.held
      /\ e.screen = g.screen /\ e.flow = g.flow /\ e.typed = g.typed
      /\ \A j : Honest(g, j) => Honest(e, j)
  BY DEF HandlerType, Discreet, Honest
<1> HIDE DEF e
<1>3. CASE e.flow \in {"answer", "dismiss"}
  <2>1. Emit(g) = Answered(e)
    BY <1>1, <1>3
  <2> QED
    BY <1>2, <1>3, <2>1, AnsweredKeeps DEF KeepsFrame, Gated, Careful
<1>4. CASE e.flow = "fields" /\ HasTwoInputs(e.screen)
  <2>1. Emit(g) = [e EXCEPT !.flow = "settle"]
    BY <1>1, <1>4
  <2> QED
    BY <1>2, <1>4, <2>1 DEF HandlerType, Flows, Discreet, Gated, Honest, Careful
<1>5. CASE ~(e.flow \in {"answer", "dismiss"}) /\ ~(e.flow = "fields" /\ HasTwoInputs(e.screen))
  <2>1. Emit(g) = e
    BY <1>1, <1>5
  <2> QED
    BY <1>2, <1>5, <2>1 DEF Gated, Careful
<1> QED
  BY <1>3, <1>4, <1>5

(* A record, painted or not, is seen or its frame is held with a timer.    *)
LEMMA ReceivedKeeps ==
    ASSUME NEW g \in HandlerType, NEW painted \in BOOLEAN, Discreet(g), Gated(g)
    PROVE  /\ Received(g, painted) \in HandlerType /\ Discreet(Received(g, painted))
           /\ Gated(Received(g, painted)) /\ Received(g, painted).screen = g.screen
           /\ Careful(g, Received(g, painted))
           /\ \A j : Honest(g, j) => Honest(Received(g, painted), j)
<1> DEFINE s == [g EXCEPT !.unseen = TRUE]
           k == [s EXCEPT !.held = TRUE, !.flush = TRUE]
           f == [s EXCEPT !.flush = FALSE]
<1>1. /\ s \in HandlerType /\ s.held = g.held /\ s.flush = g.flush /\ s.locked = g.locked
      /\ Discreet(s) /\ s.screen = g.screen /\ s.flow = g.flow /\ s.typed = g.typed
      /\ \A j : Honest(g, j) => Honest(s, j)
  BY DEF HandlerType, Discreet, Honest
<1>2. CASE ~(painted \/ ~g.held \/ (h.locked /\ ~g.locked))
  <2>1. Received(g, painted) = s
    BY <1>2 DEF Received
  <2> QED
    BY <1>1, <1>2, <2>1 DEF Gated, Careful
<1>3. CASE (painted \/ ~g.held \/ (h.locked /\ ~g.locked)) /\ g.locked
  <2>1. Received(g, painted) = k
    BY <1>1, <1>3 DEF Received, EmitScreenGated
  <2> QED
    BY <2>1 DEF HandlerType, Discreet, Gated, Honest, Careful
<1>4. CASE (painted \/ ~g.held \/ (h.locked /\ ~g.locked)) /\ ~g.locked
  <2>1. Received(g, painted) = Emit(f)
    BY <1>1, <1>4 DEF Received, EmitScreenGated
  <2>2. /\ f \in HandlerType /\ Discreet(f)
        /\ f.screen = g.screen /\ f.flow = g.flow /\ f.typed = g.typed
        /\ \A j : Honest(g, j) => Honest(f, j)
    BY DEF HandlerType, Discreet, Honest
  <2> HIDE DEF f
  <2> QED
    BY <2>1, <2>2, EmitKeeps DEF Careful
<1> QED
  BY <1>2, <1>3, <1>4

-----------------------------------------------------------------------------
(* A turn that sends no password, or the one of the sign-on, keeps IInv.   *)
LEMMA TurnKeeps ==
    ASSUME IInv, NEW g \in HandlerType, Turn(g), Gated(g),
           Discreet(g) \/ h.flow = "settle",
           job' \in {"signon", "refused", "accepted", "resumed"},
           style = {} => Honest(g, job')
    PROVE  /\ IInv' /\ h'.screen = g.screen /\ h'.flow = g.flow /\ h'.typed = g.typed
<1> DEFINE n == IF g.sent # None /\ "password" \in g.sent
                THEN IF h.flow = "settle" THEN 0 ELSE 1 ELSE g.leaks
<1>1. n = 0
  BY DEF Discreet, HandlerType
<1>2. h' = [g EXCEPT !.sent = None, !.leaks = 0]
  BY <1>1 DEF Turn, HandlerType
<1>3. h' \in HandlerType /\ h'.sent = None /\ Gated(h')
  BY <1>2 DEF HandlerType, Gated
<1>4. h'.screen = g.screen /\ h'.flow = g.flow /\ h'.typed = g.typed
  BY <1>2 DEF HandlerType
<1>5. inbox' \in {None} \cup SUBSET Texts
  BY DEF Turn, IInv, HandlerType
<1>6. style' = {} => Honest(h', job')
  BY <1>2 DEF Turn, Honest, HandlerType
<1> QED
  BY <1>3, <1>4, <1>5, <1>6 DEF IInv, Turn

LEMMA InitIInv == Init => IInv
BY AttemptsAssumption DEF Init, IInv, Fresh, HandlerType, Screens, Flows, Gated, Honest, Through

\* What CredentialsOnSignOnScreen says of a step
CarefulStep ==
    (h'.flow = "answer" /\ h.flow # "answer") \/ h'.typed \ h.typed # {} =>
        h'.screen = "signon"

(* Every step keeps IInv and is careful with the credentials.              *)
LEMMA NextIInv ==
    ASSUME IInv, [Next]_vars
    PROVE  IInv' /\ CarefulStep
<1> USE DEF CarefulStep
<1>0. h \in HandlerType /\ Discreet(h) /\ Gated(h) /\ (style = {} => Honest(h, job))
  BY DEF IInv, Discreet
<1>1. ASSUME NEW screen \in Screens, NEW lock \in BOOLEAN, HostPaints(screen, lock),
             style = {} => Honest([h EXCEPT !.screen = screen, !.locked = lock, !.typed = {}], job)
      PROVE  IInv' /\ CarefulStep
  <2> DEFINE g == [h EXCEPT !.screen = screen, !.locked = lock, !.typed = {}]
  <2>1. g \in HandlerType /\ Discreet(g) /\ Gated(g) /\ g.flow = h.flow /\ g.typed = {}
    BY <1>0 DEF HandlerType, Discreet, Gated
  <2>2. Turn(Received(g, TRUE)) /\ job' = job /\ (style = {} => Honest(g, job))
    BY <1>1 DEF HostPaints
  <2> HIDE DEF g
  <2>3. /\ Received(g, TRUE) \in HandlerType /\ Discreet(Received(g, TRUE))
        /\ Gated(Received(g, TRUE)) /\ Careful(g, Received(g, TRUE))
        /\ \A j : Honest(g, j) => Honest(Received(g, TRUE), j)
    BY <2>1, ReceivedKeeps
  <2>4. IInv' /\ h'.screen = Received(g, TRUE).screen /\ h'.flow = Received(g, TRUE).flow
             /\ h'.typed = Received(g, TRUE).typed
    BY <2>2, <2>3, TurnKeeps DEF IInv
  <2> QED
    BY <2>1, <2>3, <2>4 DEF Careful
<1>2. ASSUME NEW screen \in ScreensOf(job), NEW lock \in BOOLEAN, HostPaints(screen, lock)
      PROVE  IInv' /\ CarefulStep
  <2>1. screen \in Screens \ {"blank"} /\ (screen \in {"form", "info", "menu"} => Through(job))
    BY DEF ScreensOf, Screens, Through, IInv
  <2>2. style = {} => Honest([h EXCEPT !.screen = screen, !.locked = lock, !.typed = {}], job)
    BY <1>0, <2>1 DEF Honest, HandlerType
  <2> QED
    BY <1>1, <1>2, <2>1, <2>2
<1>3. CASE "parts" \in style /\ HostPaints("blank", TRUE)
  <2>1. style # {} /\ "blank" \in Screens
    BY <1>3 DEF Screens
  <2> QED
    BY <1>1, <1>3, <2>1
<1>4. ASSUME NEW lock \in BOOLEAN, HostTouches(lock)
      PROVE  IInv' /\ CarefulStep
  <2> DEFINE g == [h EXCEPT !.locked = lock]
  <2>1. /\ g \in HandlerType /\ Discreet(g) /\ Gated(g) /\ g.flow = h.flow /\ g.typed = h.typed
        /\ style = {} => Honest(g, job)
    BY <1>0 DEF HandlerType, Discreet, Gated, Honest
  <2>2. Turn(Received(g, FALSE)) /\ job' = job
    BY <1>4 DEF HostTouches
  <2> HIDE DEF g
  <2>3. /\ Received(g, FALSE) \in HandlerType /\ Discreet(Received(g, FALSE))
        /\ Gated(Received(g, FALSE)) /\ Careful(g, Received(g, FALSE))
        /\ \A j : Honest(g, j) => Honest(Received(g, FALSE), j)
    BY <2>1, ReceivedKeeps
  <2>4. IInv' /\ h'.screen = Received(g, FALSE).screen /\ h'.flow = Received(g, FALSE).flow
             /\ h'.typed = Received(g, FALSE).typed
    BY <2>1, <2>2, <2>3, TurnKeeps DEF IInv
  <2> QED
    BY <2>1, <2>3, <2>4 DEF Careful
<1>5. CASE HostReads
  <2>1. h' = h /\ style' = style /\ inbox' = None
    BY <1>5 DEF HostReads
  <2>2. job' \in {"accepted", "refused", "resumed"} /\ (Through(job) => Through(job'))
    BY <1>5 DEF HostReads, Through, IInv
  <2>3. style = {} => Honest(h, job')
    BY <1>0, <2>2 DEF Honest
  <2> QED
    BY <1>0, <2>1, <2>2, <2>3 DEF IInv
<1>6. CASE HostResumes
  BY <1>6 DEF HostResumes, IInv, Honest, Through, Gated
<1>7. CASE SignsIn
  <2> DEFINE w == IF HasTwoInputs(h.screen) THEN "settle" ELSE "fields"
             g == [h EXCEPT !.flow = w, !.attempt = 0]
  <2>0. w \in {"settle", "fields"} /\ 0 \in 0 .. Attempts
    BY AttemptsAssumption
  <2>1. /\ g \in HandlerType /\ Discreet(g) /\ Gated(g) /\ g.flow # "answer" /\ g.typed = h.typed
        /\ style = {} => Honest(g, job)
    <3> HIDE DEF w
    <3> QED
      BY <1>0, <2>0 DEF HandlerType, Flows, Discreet, Gated, Honest
  <2>2. Turn(g) /\ job' = job
    BY <1>7 DEF SignsIn
  <2> HIDE DEF g
  <2> QED
    BY <2>1, <2>2, TurnKeeps DEF IInv
<1>8. CASE FieldsTimeOut
  <2> DEFINE g == [h EXCEPT !.flow = "settle"]
  <2>1. /\ g \in HandlerType /\ Discreet(g) /\ Gated(g) /\ g.flow # "answer" /\ g.typed = h.typed
        /\ style = {} => Honest(g, job)
    BY <1>0 DEF HandlerType, Flows, Discreet, Gated, Honest
  <2>2. Turn(g) /\ job' = job
    BY <1>8 DEF FieldsTimeOut
  <2> HIDE DEF g
  <2> QED
    BY <2>1, <2>2, TurnKeeps DEF IInv
<1>9. CASE SettleEnds
  <2>1. h.flow = "settle" /\ Turn(Settled(h)) /\ job' = job
    BY <1>9 DEF SettleEnds
  <2>2. CASE IsSignOnScreen(h.screen)
    <3>1. Settled(h) = AutoSignIn(h)
      BY <2>2 DEF Settled
    <3>2. /\ AutoSignIn(h) \in HandlerType /\ Gated(AutoSignIn(h))
          /\ AutoSignIn(h).screen = "signon" /\ AutoSignIn(h).typed = {}
      BY <1>0, <2>2 DEF AutoSignIn, SendEnter, HandlerType, Flows, Texts, Gated, IsSignOnScreen
    <3>3. style = {} => Honest(AutoSignIn(h), job)
      BY <1>0, <2>2 DEF AutoSignIn, SendEnter, HandlerType, Honest, IsSignOnScreen
    <3> QED
      BY <2>1, <3>1, <3>2, <3>3, TurnKeeps DEF IInv
  <2>3. CASE ~IsSignOnScreen(h.screen)
    <3>1. Settled(h) = Ends(h, FALSE)
      BY <2>3 DEF Settled
    <3>2. /\ Ends(h, FALSE) \in HandlerType /\ Discreet(Ends(h, FALSE))
          /\ KeepsFrame(h, Ends(h, FALSE)) /\ Ends(h, FALSE).typed = h.typed
          /\ Ends(h, FALSE).flow = "done"
          /\ \A j : Honest(h, j) => Honest(Ends(h, FALSE), j)
      BY <1>0, EndsKeeps
    <3>3. Gated(Ends(h, FALSE))
      BY <1>0, <3>2 DEF Gated, KeepsFrame
    <3> QED
      BY <1>0, <2>1, <3>1, <3>2, <3>3, TurnKeeps DEF IInv, KeepsFrame
  <2> QED
    BY <2>2, <2>3
<1>10. CASE AnswerTimesOut
  <2>1. h.flow \in {"answer", "dismiss"} /\ Turn(Answered(h)) /\ job' = job
    BY <1>10 DEF AnswerTimesOut
  <2>2. /\ Answered(h) \in HandlerType /\ Discreet(Answered(h))
        /\ KeepsFrame(h, Answered(h)) /\ Careful(h, Answered(h))
        /\ \A j : Honest(h, j) => Honest(Answered(h), j)
    BY <1>0, <2>1, AnsweredKeeps
  <2>3. Gated(Answered(h))
    BY <1>0, <2>2 DEF Gated, KeepsFrame
  <2>4. IInv' /\ h'.screen = Answered(h).screen /\ h'.flow = Answered(h).flow
             /\ h'.typed = Answered(h).typed
    BY <1>0, <2>1, <2>2, <2>3, TurnKeeps DEF IInv
  <2> QED
    BY <2>2, <2>4 DEF Careful
<1>11. CASE Flush
  <2> DEFINE g == [h EXCEPT !.flush = FALSE]
  <2>1. /\ g \in HandlerType /\ Discreet(g) /\ g.flow = h.flow /\ g.typed = h.typed
        /\ g.unseen = h.unseen /\ g.held = h.held
        /\ style = {} => Honest(g, job)
    BY <1>0 DEF HandlerType, Discreet, Honest
  <2>2. job' = job /\ Turn(IF h.held THEN Emit(g) ELSE g)
    BY <1>11 DEF Flush
  <2> HIDE DEF g
  <2>3. CASE h.held
    <3>1. /\ Emit(g) \in HandlerType /\ Discreet(Emit(g)) /\ Gated(Emit(g)) /\ Careful(g, Emit(g))
          /\ \A j : Honest(g, j) => Honest(Emit(g), j)
      BY <2>1, EmitKeeps
    <3>2. Turn(Emit(g))
      BY <2>2, <2>3
    <3>3. IInv' /\ h'.screen = Emit(g).screen /\ h'.flow = Emit(g).flow /\ h'.typed = Emit(g).typed
      BY <2>1, <2>2, <3>1, <3>2, TurnKeeps DEF IInv
    <3> QED
      BY <2>1, <3>1, <3>3 DEF Careful
  <2>4. CASE ~h.held
    <3>1. Gated(g) /\ Turn(g)
      BY <1>0, <2>1, <2>2, <2>4 DEF Gated
    <3> QED
      BY <2>1, <2>2, <3>1, TurnKeeps DEF IInv
  <2> QED
    BY <2>3, <2>4
<1>12. CASE ViewerEnters
  <2>1. Turn(SendEnter(h)) /\ job' = job
    BY <1>12 DEF ViewerEnters
  <2>2. /\ SendEnter(h) \in HandlerType /\ Discreet(SendEnter(h)) /\ Gated(SendEnter(h))
        /\ SendEnter(h).flow = h.flow /\ SendEnter(h).typed = h.typed
        /\ style = {} => Honest(SendEnter(h), job)
    BY <1>0 DEF SendEnter, HandlerType, Texts, Discreet, Gated, Honest
  <2> QED
    BY <2>1, <2>2, TurnKeeps DEF IInv
<1>13. CASE Reconnects
  <2>1. h' \in HandlerType /\ h'.sent = None /\ Gated(h') /\ h'.typed = {} /\ h'.flow = h.flow
    BY <1>0, <1>13 DEF Reconnects, IInv, HandlerType, Screens, Gated
  <2>2. style' = style /\ style # {} /\ job' \in {"signon", "resumed"} /\ inbox' = None
    BY <1>13 DEF Reconnects
  <2> QED
    BY <2>1, <2>2 DEF IInv
<1>14. CASE UNCHANGED vars
  BY <1>14 DEF vars, IInv, Gated, Honest
<1> QED
  BY <1>2, <1>3, <1>4, <1>5, <1>6, <1>7, <1>8, <1>9, <1>10, <1>11, <1>12, <1>13, <1>14 DEF Next

-----------------------------------------------------------------------------
LEMMA AlwaysIInv == Spec => []IInv
<1>1. IInv /\ [Next]_vars => IInv'
  BY NextIInv
<1> QED
  BY InitIInv, <1>1, PTL DEF Spec

(* The handler tells the truth (performAutoSignIn(), emitScreenGated()):   *)
(* of the sign-on to its caller, if the host paints whole screens, and to  *)
(* the viewers, who see the last screen or have a timer that shows it.     *)
THEOREM TruthfulHandler == Spec => []HandlerIsTruthful
<1>1. IInv => HandlerIsTruthful
  BY DEF IInv, HandlerIsTruthful, TypeOK, WholeScreensDecide, HeldOrShown, HandlerType, Gated,
         Honest, Through, Flows, Texts
<1> QED
  BY AlwaysIInv, <1>1, PTL

(* The credentials are typed on a sign-on screen only, whatever the host   *)
(* paints and whenever it resumes a job or drops the connection, and the   *)
(* password goes out once (autoSignIn(), restoreFields()).                 *)
THEOREM SafeCredentials == Spec => CredentialsAreSafe
<1>1. IInv => PasswordSentOnce
  BY DEF IInv, PasswordSentOnce, HandlerType
<1>2. IInv /\ [Next]_vars =>
        [(h'.flow = "answer" /\ h.flow # "answer") \/ h'.typed \ h.typed # {} =>
            h'.screen = "signon"]_vars
  BY NextIInv DEF CarefulStep
<1> QED
  BY AlwaysIInv, <1>1, <1>2, PTL DEF CredentialsAreSafe, CredentialsOnSignOnScreen, Spec
=============================================================================
