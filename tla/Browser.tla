------------------------------ MODULE Browser -------------------------------
(***************************************************************************)
(* One browser tab running static/app.js, auth.js, exercise.js and         *)
(* profile.js against the API.  JavaScript runs to completion between      *)
(* awaits, and every await here is of a fetch: a step is either an event   *)
(* that starts a coroutine or the answer that resumes one.  Answers come   *)
(* in any order.  Nothing in the code cancels a coroutine when the user    *)
(* logs out or another view is shown; only loading a page does.            *)
(***************************************************************************)
EXTENDS Integers, FiniteSets

CONSTANTS
    Accounts,    \* who may log in on this tab
    Exercises,   \* of the one lesson the lesson page is about
    Coroutines,  \* a bound on the coroutines that await a fetch at once
    None

ASSUME BrowserAssumption ==
    /\ None \notin Accounts
    /\ IsFiniteSet(Exercises)
    /\ Exercises # {}

VARIABLES
    browser,  \* storage, module variables and visible sections of the tab
    tasks,    \* per coroutine, the fetch it awaits
    solved    \* what the server has stored as solved, per account

vars == <<browser, tasks, solved>>

Pages == {"home", "list", "lesson", "profile"}
Views == {"list", "lesson", "profile"}
Sections == Views \cup {"gate"}
Someone == Accounts \cup {None}

(* token is in localStorage and stash in sessionStorage; both survive a      *)
(* reload.  data says whose data a view has cached, marks is _solved,        *)
(* completed is _lessonData.is_completed and bar the logout control with the *)
(* link to the profile.  users and failed are history: who has been logged   *)
(* in since the page was loaded, and whether a fetch went wrong since then.  *)
Browser ==
    [token : Someone, stash : Pages \cup {None}, page : Pages,
     ready : BOOLEAN, shown : SUBSET Sections, bar : BOOLEAN,
     view : Views \cup {"auth"}, data : [Views -> Someone],
     marks : SUBSET Exercises, completed : BOOLEAN,
     users : SUBSET Accounts, failed : BOOLEAN]

(* as is the account of the token the request carries, about the account or *)
(* exercise it is for, live whether the exercise block the coroutine        *)
(* belongs to is still on the page.  served says whether the server has     *)
(* acted on a request whose answer depends on what is solved, and got what  *)
(* that answer says: the exercises that are solved or, from a lesson, all   *)
(* or none (is_completed).  left are those whose progress is not read yet.  *)
Kinds == {"login", "me", "boot", "list", "lesson", "progress", "profile",
          "check", "refresh"}
Task ==
    [at : Kinds \cup {"idle"}, as : Someone,
     about : Someone \cup Exercises, live : BOOLEAN,
     left : SUBSET Exercises, got : SUBSET Exercises, served : BOOLEAN]

Fetch(kind, token, about) ==
    [at |-> kind, as |-> token, about |-> about, live |-> TRUE,
     left |-> IF kind = "progress" THEN Exercises ELSE {},
     got |-> {}, served |-> FALSE]
Idle == [Fetch("boot", None, None) EXCEPT !.at = "idle"]

(***************************************************************************)
(* What a piece of synchronous code leaves behind: the browser, the fetch  *)
(* its coroutine goes on to await, and what becomes of the other ones.     *)
(***************************************************************************)
Outcome(b, await, others) == [browser |-> b, await |-> await, others |-> others]
Done(b) == Outcome(b, Idle, "kept")
Awaiting(b, kind) == Outcome(b, Fetch(kind, b.token, None), "kept")

(* auth.js *)
RenderAuthChrome(b) == [b EXCEPT !.bar = b.token # None]
ShowAuthGate(b) == RenderAuthChrome([b EXCEPT !.shown = {"gate"}])
HideAuthGate(b) == [b EXCEPT !.shown = @ \ {"gate"}]
Logout(b) == ShowAuthGate([b EXCEPT !.token = None])

(* app.js, profile.js: a view hides all other sections and records itself. *)
ShowView(b, v) == [b EXCEPT !.shown = {v}, !.view = v]
(* Faulty: the other sections stay visible. *)
RenderList_NoHide(b) == [b EXCEPT !.shown = @ \cup {"list"}, !.view = "list"]
RenderList(b) == ShowView(b, "list")
LoadList(b) == Awaiting(b, "list")
LoadLesson(b) == Awaiting(ShowView(b, "lesson"), "lesson")
RenderProfile(b) ==
    IF b.data["profile"] = None
    THEN Awaiting(ShowView(b, "profile"), "profile")
    ELSE Done(ShowView(b, "profile"))

(* Faulty: nothing is shown instead of a profile that cannot be painted yet. *)
RenderRequestedView_ProfileOnly(b) ==
    CASE b.page = "profile" -> IF b.ready THEN RenderProfile(b) ELSE Done(b)
      [] b.page = "lesson" -> LoadLesson(b)
      [] OTHER -> LoadList(b)

(* app.js asks whether profile.js has run yet. *)
RenderRequestedView(b) ==
    CASE b.page = "profile" /\ b.ready -> RenderProfile(b)
      [] b.page = "lesson" -> LoadLesson(b)
      [] OTHER -> LoadList(b)

(* Loading a page: the scripts start afresh and boot() runs. *)
Unscripted(p, b) ==
    [b EXCEPT !.page = p, !.ready = FALSE, !.shown = {}, !.bar = FALSE,
              !.view = "auth", !.data = [v \in Views |-> None],
              !.marks = {}, !.completed = FALSE,
              !.users = IF b.token = None THEN {} ELSE {b.token},
              !.failed = FALSE]
Stashing(b) == [b EXCEPT !.stash = IF b.page = "home" THEN @ ELSE b.page]
Open(p, b) ==
    LET fresh == Unscripted(p, b)
    IN IF b.token = None
       THEN Outcome(ShowAuthGate(Stashing(fresh)), Idle, "gone")
       ELSE Outcome(fresh, Fetch("boot", b.token, None), "gone")

OnAuthenticated(b) ==
    IF b.stash # None
    THEN Open(b.stash, [b EXCEPT !.stash = None])
    ELSE RenderRequestedView(b)

Fate(c, others) ==
    CASE others = "kept" -> tasks[c]
      [] others = "detached" ->
            [tasks[c] EXCEPT !.live = @ /\ tasks[c].at \notin {"check", "refresh"}]
      [] others = "gone" -> Idle

Run(c, out) ==
    /\ browser' = out.browser
    /\ tasks' = [d \in Coroutines |->
                    IF d = c THEN out.await ELSE Fate(d, out.others)]
    /\ UNCHANGED solved

Awaits(c, kind) == tasks[c].at = kind

Init ==
    /\ solved = [a \in Accounts |-> {}]
    /\ \E p \in Pages, a \in Someone, c \in Coroutines :
          LET out == Open(p, [token |-> a, stash |-> None, page |-> p,
                              ready |-> FALSE, shown |-> {}, bar |-> FALSE,
                              view |-> "auth",
                              data |-> [v \in Views |-> None], marks |-> {},
                              completed |-> FALSE, users |-> {},
                              failed |-> FALSE])
          IN /\ browser = out.browser
             /\ tasks = [d \in Coroutines |->
                            IF d = c THEN out.await ELSE Idle]

(***************************************************************************)
(* Events.                                                                 *)
(***************************************************************************)
Visit(c, p) == Run(c, Open(p, browser))

LoadProfileScript ==
    /\ ~browser.ready
    /\ browser' = [browser EXCEPT !.ready = TRUE]
    /\ UNCHANGED <<tasks, solved>>

SubmitLogin(c, a) ==
    /\ "gate" \in browser.shown
    /\ Awaits(c, "idle")
    /\ Run(c, Outcome(browser, Fetch("login", None, a), "kept"))

ClickLogout ==
    /\ browser.bar
    /\ browser' = Logout(browser)
    /\ UNCHANGED <<tasks, solved>>

(* The language switch paints the active view again. *)
Repainted(b) ==
    CASE b.view = "list" -> Done(RenderList(b))
      [] b.view = "profile" -> RenderProfile(b)
      [] OTHER -> Done(b)

SwitchLocale(c) ==
    /\ Awaits(c, "idle")
    /\ Run(c, Repainted(RenderAuthChrome(browser)))

(* The button of a block is disabled until its check is over. *)
Busy(e) ==
    \E c \in Coroutines :
        /\ tasks[c].at \in {"check", "refresh"}
        /\ tasks[c].live
        /\ tasks[c].about = e

Check(c, e) ==
    /\ "lesson" \in browser.shown
    /\ browser.data["lesson"] # None
    /\ ~Busy(e)
    /\ Awaits(c, "idle")
    /\ Run(c, Outcome(browser, Fetch("check", browser.token, e), "kept"))

(***************************************************************************)
(* The API.  Serve is the moment that decides what an answer says about    *)
(* solved exercises; the other answers depend on nothing that changes, and *)
(* neither does an error, so they are chosen when they arrive.  Tokens are *)
(* only checked when they are used: a logout does not end them, and any of *)
(* them may have expired.                                                  *)
(***************************************************************************)
Completion(a) == IF Exercises \subseteq solved[a] THEN Exercises ELSE {}

Serve(c) ==
    /\ tasks[c].at \in {"lesson", "check", "refresh"}
    /\ ~tasks[c].served
    /\ tasks[c].as # None
    /\ solved' = IF Awaits(c, "check")
                 THEN [solved EXCEPT ![tasks[c].as] = @ \cup {tasks[c].about}]
                 ELSE solved
    /\ tasks' = [tasks EXCEPT ![c].served = TRUE,
                              ![c].got = IF Awaits(c, "check") THEN {}
                                         ELSE Completion(tasks[c].as)]
    /\ UNCHANGED browser

(* The progress of each exercise is fetched on its own; an error counts as *)
(* not solved.                                                             *)
ReadProgress(c, e) ==
    /\ Awaits(c, "progress")
    /\ e \in tasks[c].left
    /\ \E got \in {{}, {e}} :
          /\ got # {} => tasks[c].as # None /\ e \in solved[tasks[c].as]
          /\ tasks' = [tasks EXCEPT ![c].left = @ \ {e}, ![c].got = @ \cup got]
    /\ UNCHANGED <<browser, solved>>

(* Another tab or device, or a check whose page is gone. *)
SolveElsewhere(a, e) ==
    /\ solved' = [solved EXCEPT ![a] = @ \cup {e}]
    /\ UNCHANGED <<browser, tasks>>

(***************************************************************************)
(* Answers: ok is 200, denied 401 for a missing or expired token, no any   *)
(* other status; a check that does not pass is a no.                       *)
(***************************************************************************)
Ok(c, kind) ==
    /\ Awaits(c, kind)
    /\ tasks[c].served \/ kind \notin {"lesson", "check", "refresh"}
    /\ tasks[c].as # None \/ kind = "login"
Denied(c, kind) == Awaits(c, kind) /\ ~tasks[c].served
No(c, kind) == Denied(c, kind) /\ (tasks[c].as # None \/ kind = "login")

(* doLogin, up to the fetch of loadCurrentUser *)
LoginAnswered(c) ==
    LET a == tasks[c].about
    IN \/ Ok(c, "login")
          /\ Run(c, Awaiting([browser EXCEPT !.token = a,
                                             !.users = @ \cup {a}], "me"))
       \/ No(c, "login") /\ Run(c, Done(browser))

(* Faulty: the gate, or the header of who is logged out, stays. *)
GoOn_NoHide(b) == OnAuthenticated(RenderAuthChrome(b))
GoOn_NoChrome(b) == OnAuthenticated(HideAuthGate(b))

(* doLogin goes on to hide the gate and to route even when loadCurrentUser *)
(* has just logged out.                                                    *)
GoOn(b) == OnAuthenticated(RenderAuthChrome(HideAuthGate(b)))

MeAnswered(c) ==
    \/ Ok(c, "me") /\ Run(c, GoOn(browser))
    \/ Denied(c, "me") /\ Run(c, GoOn(Logout(browser)))

BootAnswered(c) ==
    \/ Ok(c, "boot")
       /\ Run(c, IF browser.token = None
                 THEN Done(browser)
                 ELSE RenderRequestedView(RenderAuthChrome(browser)))
    \/ Denied(c, "boot") /\ Run(c, Done(Logout(browser)))

ListAnswered(c) ==
    \/ Ok(c, "list") /\ Run(c, Done(RenderList(
                           [browser EXCEPT !.data["list"] = tasks[c].as])))
    \/ Denied(c, "list") /\ Run(c, Done(Logout(browser)))
    \/ No(c, "list") /\ Run(c, Done([browser EXCEPT !.failed = TRUE]))

(* renderProse, then renderExercises up to its fetches: new blocks, no marks *)
LessonRendered(c) ==
    Outcome([browser EXCEPT !.data["lesson"] = tasks[c].as,
                            !.completed = tasks[c].got = Exercises,
                            !.marks = {}],
            Fetch("progress", browser.token, None), "detached")

(* A locked lesson (403) bounces to the list. *)
LessonAnswered(c) ==
    \/ Ok(c, "lesson") /\ Run(c, LessonRendered(c))
    \/ Denied(c, "lesson") /\ Run(c, Done(Logout(browser)))
    \/ No(c, "lesson") /\ Run(c, Open("list", browser))
    \/ No(c, "lesson") /\ Run(c, Done(browser))

ProgressAnswered(c) ==
    /\ Awaits(c, "progress")
    /\ tasks[c].left = {}
    /\ Run(c, Done([browser EXCEPT !.marks = @ \cup tasks[c].got]))

ProfileAnswered(c) ==
    \/ Ok(c, "profile")
       /\ Run(c, Done([browser EXCEPT !.data["profile"] = tasks[c].as]))
    \/ Denied(c, "profile") /\ Run(c, Done(Logout(browser)))
    \/ No(c, "profile") /\ Run(c, Done(browser))

(* Passed: the mark is set and the completion of the lesson fetched. *)
CheckPassed(c) ==
    Outcome([browser EXCEPT !.marks = @ \cup {tasks[c].about}],
            [Fetch("refresh", browser.token, tasks[c].about)
                EXCEPT !.live = tasks[c].live], "kept")

(* Faulty: the mark is set before the verdict is known. *)
CheckAnswered_Optimistic(c) ==
    \/ (Ok(c, "check") \/ No(c, "check")) /\ Run(c, CheckPassed(c))
    \/ Denied(c, "check") /\ Run(c, Done(Logout(browser)))

CheckAnswered(c) ==
    \/ Ok(c, "check") /\ Run(c, CheckPassed(c))
    \/ Denied(c, "check") /\ Run(c, Done(Logout(browser)))
    \/ No(c, "check") /\ Run(c, Done(browser))

(* Faulty: the marks are counted instead of asking the server. *)
RefreshAnswered_Counted(c) ==
    /\ Awaits(c, "refresh")
    /\ Run(c, Done([browser EXCEPT !.completed = browser.marks = Exercises]))

RefreshAnswered(c) ==
    \/ Ok(c, "refresh")
       /\ Run(c, Done([browser EXCEPT
                         !.completed = tasks[c].got = Exercises]))
    \/ Denied(c, "refresh") /\ Run(c, Done(browser))

(* The fetch rejects, whether or not the server has acted on it.  A check *)
(* shows the error; nothing else is handled.                              *)
Lost(c) ==
    /\ ~Awaits(c, "idle")
    /\ Run(c, Done([browser EXCEPT
                      !.failed = @ \/ tasks[c].at \in {"boot", "me", "list"}]))

User(c) ==
    \/ \E p \in Pages : Visit(c, p)
    \/ \E a \in Accounts : SubmitLogin(c, a)
    \/ SwitchLocale(c)
    \/ \E e \in Exercises : Check(c, e)

Api(c) ==
    \/ Serve(c)
    \/ \E e \in Exercises : ReadProgress(c, e)

Resume(c) ==
    \/ LoginAnswered(c) \/ MeAnswered(c) \/ BootAnswered(c)
    \/ ListAnswered(c) \/ LessonAnswered(c) \/ ProgressAnswered(c)
    \/ ProfileAnswered(c) \/ CheckAnswered(c) \/ RefreshAnswered(c)
    \/ Lost(c)

Next ==
    \/ \E c \in Coroutines : User(c) \/ Api(c) \/ Resume(c)
    \/ LoadProfileScript
    \/ ClickLogout
    \/ \E a \in Accounts, e \in Exercises : SolveElsewhere(a, e)

Spec == Init /\ [][Next]_vars

(***************************************************************************)
(* Properties.                                                             *)
(***************************************************************************)

(* Types, and the sections exclude one another: no two views, and no view  *)
(* beside the gate, are ever visible at once.                              *)
TypeOK ==
    /\ browser \in Browser
    /\ tasks \in [Coroutines -> Task]
    /\ solved \in [Accounts -> SUBSET Exercises]
    /\ Cardinality(browser.shown) <= 1

(* A page on which nothing is visible is about to show something: whoever  *)
(* hides a section without showing another one (doLogin, boot) has a fetch *)
(* under way that ends in a view or in the gate, unless it went wrong.     *)
NeverBlank ==
    browser.shown = {} =>
        \/ \E c \in Coroutines : tasks[c].at \in {"boot", "list"}
        \/ browser.failed

(* The gate is shown to nobody who is logged in, except while loadCurrentUser *)
(* is fetching or after it was cut off.                                       *)
NoStrandedGate ==
    "gate" \in browser.shown /\ browser.token # None =>
        \/ \E c \in Coroutines : tasks[c].at = "me"
        \/ browser.failed

(* Who is logged in and sees a view can log out: the control is there. *)
CanLogOut ==
    browser.shown \cap Views # {} /\ browser.token # None =>
        \/ browser.bar
        \/ \E c \in Coroutines : tasks[c].at = "me"
        \/ browser.failed

(* A solved mark on the lesson page, however late the answer that set it, was *)
(* earned by somebody who has been logged in since the page was loaded.       *)
MarksAreEarned ==
    \A e \in browser.marks : \E a \in browser.users : e \in solved[a]

(* The completion panel is shown only when one of them has solved the whole  *)
(* lesson; marks that belong to different accounts do not add up.            *)
CompletionIsEarned ==
    browser.completed => \E a \in browser.users : Exercises \subseteq solved[a]

(* No content is reachable while logged out (app.js:5): no view with the data *)
(* of an account in it is visible without a token.                            *)
NoContentWhileLoggedOut ==
    browser.token = None =>
        \A v \in browser.shown \cap Views : browser.data[v] = None
=============================================================================
