--------------------------- MODULE BrowserProofs ----------------------------
(***************************************************************************)
(* Proofs about Browser, for any accounts, any exercises and any number of *)
(* coroutines.                                                             *)
(***************************************************************************)
EXTENDS Browser, FiniteSetTheorems, TLAPS

(* The browser, and one section at a time. *)
OneSection(b) == b.shown = {} \/ \E s \in Sections : b.shown = {s}
Fine(b) == b \in Browser /\ OneSection(b) /\ b.token \in b.users \cup {None}

(* What a fetch may carry and bring home. *)
Honest(t, b, S) ==
    /\ t \in Task
    /\ t.as \in b.users \cup {None}
    /\ t.at = "login" => t.about \in Accounts
    /\ t.at \in {"check", "refresh"} => t.about \in Exercises
    /\ t.got # {} => t.as # None /\ t.got \subseteq S[t.as]
    /\ t.at = "check" /\ t.served => t.as # None /\ t.about \in S[t.as]

(* The coroutines that await a fetch of some kind. *)
Under(T, kinds) == \E c \in Coroutines : T[c].at \in kinds

(* What is on its way where the page lacks something; a page that has just  *)
(* been loaded awaits nothing but its boot.                                 *)
Booting(b, T) ==
    /\ b.shown = {}
    /\ \E c \in Coroutines :
          /\ T[c].at = "boot"
          /\ \A d \in Coroutines \ {c} : T[d].at = "idle"
OnItsWay(b, T) ==
    /\ b.shown = {} => Under(T, {"boot", "list"}) \/ b.failed
    /\ b.shown = {} /\ b.token = None => Under(T, {"list"}) \/ b.failed
    /\ "gate" \in b.shown /\ b.token # None => Under(T, {"me"}) \/ b.failed
    /\ b.token # None /\ ~ b.bar => Under(T, {"me"}) \/ b.failed \/ Booting(b, T)

Earned(b, S) ==
    /\ \A e \in b.marks : \E a \in b.users : e \in S[a]
    /\ b.completed => \E a \in b.users : Exercises \subseteq S[a]

BrowserInv ==
    /\ Fine(browser)
    /\ solved \in [Accounts -> SUBSET Exercises]
    /\ tasks \in [Coroutines -> Task]
    /\ \A c \in Coroutines : Honest(tasks[c], browser, solved)
    /\ OnItsWay(browser, tasks)
    /\ Earned(browser, solved)

-----------------------------------------------------------------------------
(* What pieces of synchronous code do to the browser *)

LEMMA Chrome == ASSUME NEW b, Fine(b)
                PROVE  LET n == RenderAuthChrome(b) IN
                       /\ Fine(n) /\ n.bar = (b.token # None)
                       /\ \A f \in {"token", "stash", "page", "ready", "shown", "view", "data",
                                    "marks", "completed", "users", "failed"} : n[f] = b[f]
  BY DEF Fine, OneSection, Browser, RenderAuthChrome

LEMMA LoggedOut == ASSUME NEW b, Fine(b)
                   PROVE  LET n == Logout(b) IN
                          /\ Fine(n) /\ n.token = None /\ n.shown = {"gate"} /\ ~ n.bar
                          /\ \A f \in {"stash", "page", "ready", "view", "data",
                                       "marks", "completed", "users", "failed"} : n[f] = b[f]
  BY DEF Fine, OneSection, Browser, Logout, ShowAuthGate, RenderAuthChrome, Sections, Someone

LEMMA GateHidden == ASSUME NEW b, Fine(b)
                    PROVE  LET n == HideAuthGate(b) IN
                           /\ Fine(n) /\ n.shown = b.shown \ {"gate"}
                           /\ \A f \in {"token", "stash", "page", "ready", "bar", "view", "data",
                                        "marks", "completed", "users", "failed"} : n[f] = b[f]
  BY DEF Fine, OneSection, Browser, HideAuthGate, Sections

LEMMA Shown == ASSUME NEW b, Fine(b), NEW v \in Views
               PROVE  LET n == ShowView(b, v) IN
                      /\ Fine(n) /\ n.shown = {v}
                      /\ \A f \in {"token", "stash", "page", "ready", "bar", "data",
                                   "marks", "completed", "users", "failed"} : n[f] = b[f]
  BY DEF Fine, OneSection, Browser, ShowView, Sections, Views

-----------------------------------------------------------------------------
(* What a piece of synchronous code leaves behind *)

LEMMA Fetched == ASSUME NEW b, Fine(b), NEW S, NEW kind \in Kinds, NEW as \in b.users \cup {None},
                        NEW about \in Someone \cup Exercises,
                        kind = "login" => about \in Accounts,
                        kind \in {"check", "refresh"} => about \in Exercises
                 PROVE  /\ Honest(Fetch(kind, as, about), b, S)
                        /\ Fetch(kind, as, about).at = kind
<1>1. as \in Someone
  BY DEF Fine, Browser, Someone
<1> QED
  BY <1>1 DEF Honest, Fetch, Task, Kinds

LEMMA IdleIsHonest == ASSUME NEW b, NEW S
                      PROVE  Honest(Idle, b, S) /\ Idle.at = "idle"
  BY DEF Honest, Idle, Fetch, Task, Someone

(* The coroutines as c leaves them. *)
After(c, out) ==
    [d \in Coroutines |-> IF d = c THEN out.await ELSE Fate(d, out.others)]

Proper(c, out) ==
    /\ Fine(out.browser)
    /\ out.others \in {"kept", "detached", "gone"}
    /\ Honest(out.await, out.browser, solved)
    /\ out.others # "gone" => browser.users \subseteq out.browser.users
    /\ OnItsWay(out.browser, After(c, out))
    /\ Earned(out.browser, solved)

(* The others go on awaiting what they awaited, or are gone. *)
LEMMA Others == ASSUME BrowserInv, NEW c \in Coroutines, NEW out
                PROVE  /\ After(c, out)[c] = out.await
                       /\ \A d \in Coroutines \ {c} :
                            /\ out.others \in {"kept", "detached"} =>
                                 After(c, out)[d].at = tasks[d].at
                            /\ out.others = "gone" => After(c, out)[d].at = "idle"
<1>1. \A d \in Coroutines : tasks[d] \in Task
  BY DEF BrowserInv, Honest
<1>2. \A d \in Coroutines : Fate(d, "detached").at = tasks[d].at
  BY <1>1 DEF Fate, Task
<1> QED
  BY <1>2, IdleIsHonest DEF After, Fate

LEMMA Running == ASSUME BrowserInv, NEW c \in Coroutines, NEW out, Proper(c, out), Run(c, out)
                 PROVE  BrowserInv'
<1>1. /\ browser' = out.browser /\ tasks' = After(c, out) /\ solved' = solved
  BY DEF Run, After
<1>2. ASSUME NEW d \in Coroutines
      PROVE  Honest(tasks'[d], browser', solved')
  <2>1. CASE d = c
    BY <1>1, <2>1 DEF After, Proper
  <2>2. CASE d # c /\ out.others = "gone"
    BY <1>1, <2>2, IdleIsHonest DEF After, Fate
  <2>3. CASE d # c /\ out.others = "kept"
    BY <1>1, <2>3 DEF After, Fate, Proper, BrowserInv, Honest
  <2>4. CASE d # c /\ out.others = "detached"
    <3>1. tasks'[d] = [tasks[d] EXCEPT !.live = @ /\ tasks[d].at \notin {"check", "refresh"}]
      BY <1>1, <2>4 DEF After, Fate
    <3>2. Honest(tasks[d], browser, solved) /\ browser.users \subseteq browser'.users
      BY <1>1, <2>4 DEF Proper, BrowserInv
    <3> QED
      BY <1>1, <3>1, <3>2 DEF Honest, Task
  <2> QED
    BY <2>1, <2>2, <2>3, <2>4 DEF Proper
<1>3. tasks' \in [Coroutines -> Task]
  BY <1>1, <1>2 DEF After, Honest
<1> QED
  BY <1>1, <1>2, <1>3 DEF BrowserInv, Proper

(* Where nothing is missing, nothing needs to be on its way. *)
LEMMA Complete == ASSUME NEW b, NEW T, b.shown # {},
                         b.token # None => "gate" \notin b.shown /\ b.bar
                  PROVE  OnItsWay(b, T)
  BY DEF OnItsWay

(* Loading a page starts afresh, whatever the browser was. *)
LEMMA Opened == ASSUME NEW p \in Pages, NEW b \in Browser, NEW S, NEW c \in Coroutines, NEW T,
                       T[c] = Open(p, b).await,
                       \A d \in Coroutines \ {c} : T[d].at = "idle"
                PROVE  LET out == Open(p, b) IN
                       /\ Fine(out.browser) /\ out.others = "gone"
                       /\ Honest(out.await, out.browser, S)
                       /\ Earned(out.browser, S)
                       /\ OnItsWay(out.browser, T)
<1> DEFINE fresh == Unscripted(p, b)
           out == Open(p, b)
<1>1. /\ Fine(fresh) /\ fresh.token = b.token /\ fresh.shown = {}
      /\ fresh.marks = {} /\ ~ fresh.completed
  <2>1. /\ b.token \in Someone /\ {} \in SUBSET Sections
        /\ [v \in Views |-> None] \in [Views -> Someone]
    BY DEF Browser, Someone
  <2>2. (IF b.token = None THEN {} ELSE {b.token}) \in SUBSET Accounts
    BY <2>1 DEF Someone
  <2>3. fresh \in Browser /\ fresh.token \in fresh.users \cup {None}
    BY <2>1, <2>2 DEF Browser, Unscripted
  <2> QED
    BY <2>3 DEF Fine, OneSection, Browser, Unscripted
<1>2. CASE b.token = None
  <2>1. out = Outcome(ShowAuthGate(Stashing(fresh)), Idle, "gone")
    BY <1>2 DEF Open
  <2>2. LET n == ShowAuthGate(Stashing(fresh)) IN
        Fine(n) /\ n.token = None /\ n.shown = {"gate"} /\ n.marks = {} /\ ~ n.completed
    BY <1>1, <1>2 DEF Fine, OneSection, Browser, ShowAuthGate, RenderAuthChrome, Stashing,
                      Sections
  <2> QED
    BY <2>1, <2>2, Complete, IdleIsHonest DEF Outcome, Earned
<1>3. CASE b.token # None
  <2>1. out = Outcome(fresh, Fetch("boot", b.token, None), "gone")
    BY <1>3 DEF Open
  <2>2. Honest(out.await, fresh, S) /\ out.await.at = "boot"
    BY <1>1, <2>1, Fetched DEF Fine, Outcome, Kinds, Someone
  <2>3. Booting(fresh, T) /\ Under(T, {"boot", "list"})
    BY <1>1, <2>2 DEF Booting, Under
  <2>4. OnItsWay(fresh, T)
    BY <1>1, <1>3, <2>3 DEF OnItsWay
  <2> QED
    BY <1>1, <2>1, <2>2, <2>4 DEF Outcome, Earned
<1> QED
  BY <1>2, <1>3

LEMMA Opening == ASSUME BrowserInv, NEW c \in Coroutines, NEW p \in Pages, NEW b \in Browser
                 PROVE  Proper(c, Open(p, b))
<1> DEFINE out == Open(p, b)
<1>1. out.others = "gone"
  BY DEF Open, Outcome
<1>2. /\ After(c, out)[c] = out.await
      /\ \A d \in Coroutines \ {c} : After(c, out)[d].at = "idle"
  BY <1>1, Others
<1> QED
  BY <1>1, <1>2, Opened DEF Proper

(* A browser that may be routed to a view: it knows its chrome. *)
Routable(c, b) ==
    /\ Fine(b)
    /\ Earned(b, solved)
    /\ browser.users \subseteq b.users
    /\ b.token # None => b.bar
    /\ "gate" \in b.shown /\ b.token # None =>
         b.failed \/ \E d \in Coroutines \ {c} : tasks[d].at = "me"

LEMMA ViewAwaits == ASSUME BrowserInv, NEW c \in Coroutines, NEW b, Routable(c, b),
                           NEW v \in Views, NEW await,
                           Honest(await, ShowView(b, v), solved)
                    PROVE  Proper(c, Outcome(ShowView(b, v), await, "kept"))
<1> DEFINE n == ShowView(b, v)
           out == Outcome(n, await, "kept")
<1>1. /\ Fine(n) /\ n.shown = {v} /\ n.token = b.token /\ n.bar = b.bar
      /\ n.marks = b.marks /\ n.completed = b.completed /\ n.users = b.users
  BY Shown DEF Routable
<1>2. OnItsWay(n, After(c, out))
  BY <1>1, Complete DEF Routable, Views
<1>3. Earned(n, solved)
  BY <1>1 DEF Routable, Earned
<1> QED
  BY <1>1, <1>2, <1>3 DEF Routable, Proper, Outcome

LEMMA ListAwaits == ASSUME BrowserInv, NEW c \in Coroutines, NEW b, Routable(c, b)
                    PROVE  Proper(c, LoadList(b))
<1> DEFINE out == LoadList(b)
<1>1. out.browser = b /\ out.others = "kept" /\ out.await = Fetch("list", b.token, None)
  BY DEF LoadList, Awaiting, Outcome
<1>2. Honest(out.await, b, solved) /\ out.await.at = "list"
  BY <1>1, Fetched DEF Routable, Fine, Kinds, Someone
<1>3. /\ After(c, out)[c].at = "list"
      /\ \A d \in Coroutines \ {c} : After(c, out)[d].at = tasks[d].at
  BY <1>1, <1>2, Others
<1>4. OnItsWay(b, After(c, out))
  BY <1>3 DEF OnItsWay, Under, Routable
<1> QED
  BY <1>1, <1>2, <1>4 DEF Proper, Routable

LEMMA Routing == ASSUME BrowserInv, NEW c \in Coroutines, NEW b, Routable(c, b)
                 PROVE  /\ Proper(c, RenderRequestedView(b))
                        /\ Proper(c, OnAuthenticated(b))
<1>1. ASSUME NEW v \in Views
      PROVE  /\ Proper(c, Done(ShowView(b, v)))
             /\ v \in Kinds => Proper(c, Awaiting(ShowView(b, v), v))
  <2>1. Proper(c, Done(ShowView(b, v)))
    BY ViewAwaits, IdleIsHonest DEF Done
  <2>2. v \in Kinds => Honest(Fetch(v, ShowView(b, v).token, None), ShowView(b, v), solved)
    BY Shown, Fetched DEF Routable, Fine, Someone, Views
  <2> QED
    BY <2>1, <2>2, ViewAwaits DEF Awaiting
<1>2. Proper(c, RenderProfile(b)) /\ Proper(c, LoadLesson(b))
  BY <1>1 DEF RenderProfile, LoadLesson, Views, Kinds
<1>3. Proper(c, RenderRequestedView(b))
  BY <1>2, ListAwaits DEF RenderRequestedView
<1>4. CASE b.stash # None
  <2>1. b.stash \in Pages /\ [b EXCEPT !.stash = None] \in Browser
    BY <1>4 DEF Routable, Fine, Browser
  <2> QED
    BY <1>3, <1>4, <2>1, Opening DEF OnAuthenticated
<1> QED
  BY <1>3, <1>4 DEF OnAuthenticated

(* A coroutine that no part of the page depends on leaves its sections alone. *)
LEMMA Undisturbed == ASSUME BrowserInv, NEW c \in Coroutines, NEW out,
                            out.others \in {"kept", "detached"},
                            tasks[c].at \notin {"boot", "list", "me"},
                            tasks[c].at # "idle" \/ browser.shown # {},
                            \A f \in {"shown", "token", "bar", "failed"} :
                                out.browser[f] = browser[f]
                     PROVE  OnItsWay(out.browser, After(c, out))
<1>1. \A d \in Coroutines \ {c} : After(c, out)[d].at = tasks[d].at
  BY Others
<1>2. ASSUME NEW kinds \in SUBSET {"boot", "list", "me"}, Under(tasks, kinds)
      PROVE  Under(After(c, out), kinds)
  <2>1. PICK d \in Coroutines : tasks[d].at \in kinds
    BY <1>2 DEF Under
  <2>2. d # c
    BY <2>1
  <2> QED
    BY <1>1, <2>1, <2>2 DEF Under
<1>3. ~ Booting(browser, tasks)
  BY DEF Booting
<1>4. /\ browser.shown = {} => Under(After(c, out), {"boot", "list"}) \/ browser.failed
      /\ browser.shown = {} /\ browser.token = None =>
            Under(After(c, out), {"list"}) \/ browser.failed
      /\ "gate" \in browser.shown /\ browser.token # None =>
            Under(After(c, out), {"me"}) \/ browser.failed
      /\ browser.token # None /\ ~ browser.bar =>
            Under(After(c, out), {"me"}) \/ browser.failed
  BY <1>2, <1>3 DEF BrowserInv, OnItsWay
<1> QED
  BY <1>4 DEF OnItsWay

(* Whatever goes wrong, the gate is a place to be. *)
LEMMA ThrownOut == ASSUME BrowserInv, NEW c \in Coroutines
                   PROVE  Proper(c, Done(Logout(browser)))
<1> DEFINE n == Logout(browser)
<1>1. /\ Fine(n) /\ n.token = None /\ n.shown = {"gate"} /\ n.marks = browser.marks
      /\ n.completed = browser.completed /\ n.users = browser.users
  BY LoggedOut DEF BrowserInv
<1>2. Earned(n, solved)
  BY <1>1 DEF BrowserInv, Earned
<1>3. OnItsWay(n, After(c, Done(n)))
  BY <1>1, Complete
<1> QED
  BY <1>1, <1>2, <1>3, IdleIsHonest DEF Proper, Done, Outcome

-----------------------------------------------------------------------------
(* The steps *)

LEMMA BrowserInit == Init => BrowserInv
<1> SUFFICES ASSUME Init PROVE BrowserInv
  OBVIOUS
<1> DEFINE start(p, a) == [token |-> a, stash |-> None, page |-> p, ready |-> FALSE,
                           shown |-> {}, bar |-> FALSE, view |-> "auth",
                           data |-> [v \in Views |-> None], marks |-> {},
                           completed |-> FALSE, users |-> {}, failed |-> FALSE]
<1>1. PICK p \in Pages, a \in Someone, c \in Coroutines :
         LET out == Open(p, start(p, a)) IN
         /\ browser = out.browser
         /\ tasks = [d \in Coroutines |-> IF d = c THEN out.await ELSE Idle]
  BY DEF Init
<1>2. solved \in [Accounts -> SUBSET Exercises]
  BY DEF Init
<1>3. start(p, a) \in Browser
  <2>1. [v \in Views |-> None] \in [Views -> Someone]
    BY DEF Someone
  <2> QED
    BY <2>1 DEF Browser
<1>4. /\ tasks[c] = Open(p, start(p, a)).await
      /\ \A d \in Coroutines \ {c} : tasks[d] = Idle /\ tasks[d].at = "idle"
  BY <1>1, IdleIsHonest
<1>5. /\ Fine(browser) /\ Earned(browser, solved) /\ OnItsWay(browser, tasks)
      /\ Honest(tasks[c], browser, solved)
  <2> DEFINE b == start(p, a)
  <2>1. b \in Browser /\ tasks[c] = Open(p, b).await /\ browser = Open(p, b).browser
    BY <1>1, <1>3, <1>4
  <2>2. \A d \in Coroutines \ {c} : tasks[d].at = "idle"
    BY <1>4
  <2> HIDE DEF b
  <2> QED
    BY <2>1, <2>2, Opened
<1>6. \A d \in Coroutines : Honest(tasks[d], browser, solved)
  BY <1>4, <1>5, IdleIsHonest
<1>7. tasks \in [Coroutines -> Task]
  BY <1>1, <1>6 DEF Honest
<1> QED
  BY <1>2, <1>5, <1>6, <1>7 DEF BrowserInv

LEMMA LoginStep == ASSUME BrowserInv, NEW c \in Coroutines, LoginAnswered(c)
                   PROVE  BrowserInv'
<1> DEFINE a == tasks[c].about
           n == [browser EXCEPT !.token = a, !.users = @ \cup {a}]
           out == Awaiting(n, "me")
<1>1. a \in Accounts /\ tasks[c].at = "login"
  BY DEF LoginAnswered, Ok, No, Denied, Awaits, BrowserInv, Honest
<1>2. CASE Run(c, out)
  <2>1. Fine(n) /\ browser.users \subseteq n.users
    BY <1>1 DEF BrowserInv, Fine, OneSection, Browser, Someone
  <2>2. /\ n.token = a /\ a # None /\ n.shown = browser.shown /\ n.failed = browser.failed
        /\ n.marks = browser.marks /\ n.completed = browser.completed
    BY <1>1, BrowserAssumption DEF BrowserInv, Fine, Browser
  <2>3. out.browser = n /\ out.others = "kept" /\ out.await = Fetch("me", n.token, None)
    BY DEF Awaiting, Outcome
  <2> HIDE DEF out, n
  <2>4. Honest(out.await, n, solved) /\ out.await.at = "me"
    BY <2>1, <2>3, Fetched DEF Fine, Kinds, Someone
  <2>5. /\ After(c, out)[c].at = "me"
        /\ \A d \in Coroutines \ {c} : After(c, out)[d].at = tasks[d].at
    BY <2>3, <2>4, Others
  <2>6. OnItsWay(n, After(c, out))
    <3>1. Under(After(c, out), {"me"})
      BY <2>5 DEF Under
    <3>2. n.shown = {} => Under(After(c, out), {"boot", "list"}) \/ n.failed
      BY <1>1, <2>2, <2>5 DEF BrowserInv, OnItsWay, Under
    <3> QED
      BY <2>2, <3>1, <3>2 DEF OnItsWay
  <2>7. Earned(n, solved)
    BY <2>1, <2>2 DEF BrowserInv, Earned
  <2> QED
    BY <1>2, <2>1, <2>3, <2>4, <2>6, <2>7, Running DEF Proper
<1>3. CASE Run(c, Done(browser))
  <2>1. Proper(c, Done(browser))
    BY <1>1, Undisturbed, IdleIsHonest DEF Proper, Done, Outcome, BrowserInv
  <2> QED
    BY <1>3, <2>1, Running
<1> QED
  BY <1>2, <1>3 DEF LoginAnswered

LEMMA MeStep == ASSUME BrowserInv, NEW c \in Coroutines, MeAnswered(c)
                PROVE  BrowserInv'
<1>1. ASSUME NEW b, Fine(b), b.users = browser.users,
             b.marks = browser.marks, b.completed = browser.completed
      PROVE  Proper(c, GoOn(b))
  <2> DEFINE n == RenderAuthChrome(HideAuthGate(b))
  <2>1. /\ Fine(n) /\ "gate" \notin n.shown /\ n.bar = (n.token # None)
        /\ n.users = browser.users /\ n.marks = browser.marks
        /\ n.completed = browser.completed
    BY <1>1, GateHidden, Chrome
  <2>2. Routable(c, n)
    BY <2>1 DEF Routable, BrowserInv, Earned
  <2> QED
    BY <2>2, Routing DEF GoOn
<1>2. Proper(c, GoOn(browser))
  BY <1>1 DEF BrowserInv
<1>3. Proper(c, GoOn(Logout(browser)))
  BY <1>1, LoggedOut DEF BrowserInv
<1> QED
  BY <1>2, <1>3, Running DEF MeAnswered

LEMMA BootStep == ASSUME BrowserInv, NEW c \in Coroutines, BootAnswered(c)
                  PROVE  BrowserInv'
<1>1. tasks[c].at = "boot"
  BY DEF BootAnswered, Ok, Denied, Awaits
<1>2. CASE browser.token = None /\ Run(c, Done(browser))
  <2> DEFINE out == Done(browser)
  <2>1. \A d \in Coroutines \ {c} : After(c, out)[d].at = tasks[d].at
    BY Others DEF Done, Outcome
  <2>2. OnItsWay(browser, After(c, out))
    BY <1>1, <1>2, <2>1 DEF BrowserInv, OnItsWay, Under
  <2>3. Proper(c, out)
    BY <2>2, IdleIsHonest DEF Proper, Done, Outcome, BrowserInv
  <2> QED
    BY <1>2, <2>3, Running
<1>3. CASE browser.token # None /\ Run(c, RenderRequestedView(RenderAuthChrome(browser)))
  <2> DEFINE n == RenderAuthChrome(browser)
  <2>1. Fine(n) /\ n.bar = (n.token # None)
        /\ \A f \in {"token", "shown", "users", "marks", "completed", "failed"} :
              n[f] = browser[f]
    BY Chrome DEF BrowserInv
  <2>2. "gate" \in browser.shown =>
          browser.failed \/ \E d \in Coroutines \ {c} : tasks[d].at = "me"
    BY <1>1, <1>3 DEF BrowserInv, OnItsWay, Under
  <2>3. Routable(c, n)
    BY <2>1, <2>2 DEF Routable, BrowserInv, Earned
  <2> QED
    BY <1>3, <2>3, Routing, Running
<1> QED
  BY <1>2, <1>3, ThrownOut, Running DEF BootAnswered

LEMMA ListStep == ASSUME BrowserInv, NEW c \in Coroutines, ListAnswered(c)
                  PROVE  BrowserInv'
<1>1. tasks[c].at = "list" /\ tasks[c].as \in Someone
  BY DEF ListAnswered, Ok, Denied, No, Awaits, BrowserInv, Honest, Task
<1> DEFINE read == [browser EXCEPT !.data["list"] = tasks[c].as]
           n == RenderList(read)
           failed == [browser EXCEPT !.failed = TRUE]
<1>2. CASE Run(c, Done(n))
  <2>1. /\ Fine(read)
        /\ \A f \in {"token", "bar", "users", "marks", "completed", "failed"} :
              read[f] = browser[f]
    BY <1>1 DEF BrowserInv, Fine, OneSection, Browser, Views
  <2>2. /\ Fine(n) /\ n.shown = {"list"}
        /\ \A f \in {"token", "bar", "users", "marks", "completed", "failed"} :
              n[f] = browser[f]
    <3> HIDE DEF read
    <3>1. n = ShowView(read, "list")
      BY DEF RenderList
    <3> QED
      BY <2>1, <3>1, Shown DEF Views
  <2>3. \A d \in Coroutines \ {c} : After(c, Done(n))[d].at = tasks[d].at
    BY Others DEF Done, Outcome
  <2>4. browser.token # None /\ ~ browser.bar =>
          browser.failed \/ \E d \in Coroutines \ {c} : tasks[d].at = "me"
    BY <1>1 DEF BrowserInv, OnItsWay, Under, Booting
  <2>5. OnItsWay(n, After(c, Done(n)))
    BY <2>2, <2>3, <2>4 DEF OnItsWay, Under
  <2>6. Proper(c, Done(n))
    BY <2>2, <2>5, IdleIsHonest DEF Proper, Done, Outcome, BrowserInv, Earned
  <2> QED
    BY <1>2, <2>6, Running
<1>3. CASE Run(c, Done(failed))
  <2>1. /\ Fine(failed) /\ failed.failed
        /\ \A f \in {"users", "marks", "completed"} : failed[f] = browser[f]
    BY DEF BrowserInv, Fine, OneSection, Browser
  <2>2. OnItsWay(failed, After(c, Done(failed)))
    BY <2>1 DEF OnItsWay
  <2>3. Proper(c, Done(failed))
    BY <2>1, <2>2, IdleIsHonest DEF Proper, Done, Outcome, BrowserInv, Earned
  <2> QED
    BY <1>3, <2>3, Running
<1> QED
  BY <1>2, <1>3, ThrownOut, Running DEF ListAnswered

LEMMA LessonStep == ASSUME BrowserInv, NEW c \in Coroutines, LessonAnswered(c)
                    PROVE  BrowserInv'
<1>1. tasks[c].at = "lesson" /\ tasks[c].as \in Someone
  BY DEF LessonAnswered, Ok, Denied, No, Awaits, BrowserInv, Honest, Task
<1>2. CASE Run(c, LessonRendered(c))
  <2> DEFINE n == [browser EXCEPT !.data["lesson"] = tasks[c].as,
                                  !.completed = tasks[c].got = Exercises, !.marks = {}]
             out == LessonRendered(c)
  <2>1. /\ out.browser = n /\ out.others = "detached"
        /\ out.await = Fetch("progress", browser.token, None)
    BY DEF LessonRendered, Outcome
  <2>2. /\ Fine(n) /\ n.marks = {} /\ n.completed = (tasks[c].got = Exercises)
        /\ \A f \in {"shown", "token", "bar", "failed", "users"} : n[f] = browser[f]
    <3>1. [browser.data EXCEPT !["lesson"] = tasks[c].as] \in [Views -> Someone]
      BY <1>1 DEF BrowserInv, Fine, Browser
    <3>2. n \in Browser
      BY <3>1 DEF BrowserInv, Fine, Browser
    <3> QED
      BY <3>2 DEF BrowserInv, Fine, OneSection, Browser
  <2>3. Earned(n, solved)
    BY <2>2, BrowserAssumption DEF Earned, BrowserInv, Honest
  <2> HIDE DEF out, n
  <2>4. Honest(out.await, n, solved)
    BY <2>1, <2>2, Fetched DEF Fine, Kinds, Someone
  <2>5. OnItsWay(n, After(c, out))
    BY <1>1, <2>1, <2>2, Undisturbed
  <2> QED
    BY <1>2, <2>1, <2>2, <2>3, <2>4, <2>5, Running DEF Proper, out
<1>3. CASE Run(c, Open("list", browser))
  BY <1>3, Opening, Running DEF BrowserInv, Fine, Pages
<1>4. Proper(c, Done(browser))
  BY <1>1, Undisturbed, IdleIsHonest DEF Proper, Done, Outcome, BrowserInv
<1> QED
  BY <1>2, <1>3, <1>4, ThrownOut, Running DEF LessonAnswered

(* The coroutine is over and has changed what only the marks, the completion *)
(* or the cached data tell.                                                  *)
LEMMA Ended == ASSUME BrowserInv, NEW c \in Coroutines, NEW n \in Browser,
                      tasks[c].at \notin {"boot", "list", "me", "idle"},
                      \A f \in {"shown", "token", "bar", "failed", "users"} : n[f] = browser[f],
                      Earned(n, solved),
                      NEW await, Honest(await, n, solved)
               PROVE  Proper(c, Outcome(n, await, "kept"))
<1> DEFINE out == Outcome(n, await, "kept")
<1>1. out.browser = n /\ out.others = "kept" /\ out.await = await
  BY DEF Outcome
<1> HIDE DEF out
<1>2. OnItsWay(n, After(c, out))
  BY <1>1, Undisturbed
<1>3. Fine(n)
  BY DEF BrowserInv, Fine, OneSection
<1> QED
  BY <1>1, <1>2, <1>3 DEF Proper, out

LEMMA ProgressStep == ASSUME BrowserInv, NEW c \in Coroutines, ProgressAnswered(c)
                      PROVE  BrowserInv'
<1> DEFINE n == [browser EXCEPT !.marks = @ \cup tasks[c].got]
<1>1. tasks[c].at = "progress" /\ tasks[c].got \in SUBSET Exercises
  BY DEF ProgressAnswered, Awaits, BrowserInv, Honest, Task
<1>2. /\ n \in Browser /\ n.marks = browser.marks \cup tasks[c].got
      /\ \A f \in {"shown", "token", "bar", "failed", "users", "completed"} : n[f] = browser[f]
  BY <1>1 DEF BrowserInv, Fine, Browser
<1>3. Earned(n, solved)
  BY <1>2 DEF Earned, BrowserInv, Honest
<1> HIDE DEF n
<1>4. Proper(c, Done(n))
  BY <1>1, <1>2, <1>3, Ended, IdleIsHonest DEF Done
<1> QED
  BY <1>4, Running DEF ProgressAnswered, n

LEMMA ProfileStep == ASSUME BrowserInv, NEW c \in Coroutines, ProfileAnswered(c)
                     PROVE  BrowserInv'
<1> DEFINE n == [browser EXCEPT !.data["profile"] = tasks[c].as]
<1>1. tasks[c].at = "profile" /\ tasks[c].as \in Someone
  BY DEF ProfileAnswered, Ok, Denied, No, Awaits, BrowserInv, Honest, Task
<1>2. /\ n \in Browser
      /\ \A f \in {"shown", "token", "bar", "failed", "users", "marks", "completed"} :
            n[f] = browser[f]
  BY <1>1 DEF BrowserInv, Fine, Browser
<1>3. Earned(n, solved) /\ Earned(browser, solved)
  BY <1>2 DEF Earned, BrowserInv
<1> HIDE DEF n
<1>4. Proper(c, Done(n)) /\ Proper(c, Done(browser))
  BY <1>1, <1>2, <1>3, Ended, IdleIsHonest DEF Done, BrowserInv, Fine
<1> QED
  BY <1>4, ThrownOut, Running DEF ProfileAnswered, n

LEMMA CheckStep == ASSUME BrowserInv, NEW c \in Coroutines, CheckAnswered(c)
                   PROVE  BrowserInv'
<1> DEFINE e == tasks[c].about
           n == [browser EXCEPT !.marks = @ \cup {e}]
           await == [Fetch("refresh", browser.token, e) EXCEPT !.live = tasks[c].live]
<1>1. tasks[c].at = "check" /\ e \in Exercises /\ tasks[c].live \in BOOLEAN
  BY DEF CheckAnswered, Ok, Denied, No, Awaits, BrowserInv, Honest, Task
<1>2. CASE Ok(c, "check") /\ Run(c, CheckPassed(c))
  <2>1. /\ n \in Browser /\ n.marks = browser.marks \cup {e}
        /\ \A f \in {"shown", "token", "bar", "failed", "users", "completed"} :
              n[f] = browser[f]
    BY <1>1 DEF BrowserInv, Fine, Browser
  <2>2. \E a \in browser.users : e \in solved[a]
    BY <1>1, <1>2 DEF Ok, BrowserInv, Honest
  <2>3. Earned(n, solved)
    BY <2>1, <2>2 DEF Earned, BrowserInv
  <2>4. Honest(await, n, solved)
    <3>1. browser.token \in n.users \cup {None} /\ browser.token \in Someone
      BY <2>1 DEF BrowserInv, Fine, Browser
    <3> QED
      BY <1>1, <3>1 DEF Honest, Fetch, Task, Kinds
  <2>5. CheckPassed(c) = Outcome(n, await, "kept")
    BY DEF CheckPassed
  <2> HIDE DEF n, await
  <2>6. Proper(c, CheckPassed(c))
    BY <1>1, <2>1, <2>3, <2>4, <2>5, Ended
  <2> QED
    BY <1>2, <2>6, Running
<1>3. Proper(c, Done(browser))
  BY <1>1, Ended, IdleIsHonest DEF Done, BrowserInv, Fine
<1> QED
  BY <1>2, <1>3, ThrownOut, Running DEF CheckAnswered

LEMMA RefreshStep == ASSUME BrowserInv, NEW c \in Coroutines, RefreshAnswered(c)
                     PROVE  BrowserInv'
<1> DEFINE n == [browser EXCEPT !.completed = tasks[c].got = Exercises]
<1>1. tasks[c].at = "refresh"
  BY DEF RefreshAnswered, Ok, Denied, Awaits
<1>2. /\ n \in Browser /\ n.completed = (tasks[c].got = Exercises)
      /\ \A f \in {"shown", "token", "bar", "failed", "users", "marks"} : n[f] = browser[f]
  BY DEF BrowserInv, Fine, Browser
<1>3. Earned(n, solved) /\ Earned(browser, solved)
  BY <1>2, BrowserAssumption DEF Earned, BrowserInv, Honest
<1> HIDE DEF n
<1>4. Proper(c, Done(n)) /\ Proper(c, Done(browser))
  BY <1>1, <1>2, <1>3, Ended, IdleIsHonest DEF Done, BrowserInv, Fine
<1> QED
  BY <1>4, Running DEF RefreshAnswered, n

LEMMA LostStep == ASSUME BrowserInv, NEW c \in Coroutines, Lost(c)
                  PROVE  BrowserInv'
<1> DEFINE n == [browser EXCEPT !.failed = @ \/ tasks[c].at \in {"boot", "me", "list"}]
<1>1. tasks[c].at # "idle"
  BY DEF Lost, Awaits
<1>2. /\ n \in Browser
      /\ n.failed = (browser.failed \/ tasks[c].at \in {"boot", "me", "list"})
      /\ \A f \in {"shown", "token", "bar", "users", "marks", "completed"} : n[f] = browser[f]
  BY DEF BrowserInv, Fine, Browser
<1>3. Fine(n) /\ Earned(n, solved)
  BY <1>2 DEF Fine, OneSection, Earned, BrowserInv
<1> HIDE DEF n
<1>4. CASE tasks[c].at \in {"boot", "me", "list"}
  <2>1. OnItsWay(n, After(c, Done(n)))
    BY <1>2, <1>4 DEF OnItsWay
  <2>2. Proper(c, Done(n))
    BY <1>2, <1>3, <2>1, IdleIsHonest DEF Proper, Done, Outcome
  <2> QED
    BY <2>2, Running DEF Lost, n
<1>5. CASE tasks[c].at \notin {"boot", "me", "list"}
  <2>1. Proper(c, Done(n))
    BY <1>1, <1>2, <1>3, <1>5, Ended, IdleIsHonest DEF Done, BrowserInv, Fine, Browser
  <2> QED
    BY <2>1, Running DEF Lost, n
<1> QED
  BY <1>4, <1>5

LEMMA UserStep == ASSUME BrowserInv, NEW c \in Coroutines, User(c)
                  PROVE  BrowserInv'
<1>1. ASSUME NEW p \in Pages, Visit(c, p)
      PROVE  BrowserInv'
  BY <1>1, Opening, Running DEF Visit, BrowserInv, Fine
<1>2. ASSUME NEW await, Honest(await, browser, solved), browser.shown # {},
             tasks[c].at = "idle", Run(c, Outcome(browser, await, "kept"))
      PROVE  BrowserInv'
  <2> DEFINE out == Outcome(browser, await, "kept")
  <2>1. out.browser = browser /\ out.others = "kept" /\ out.await = await
    BY DEF Outcome
  <2> HIDE DEF out
  <2>2. OnItsWay(browser, After(c, out))
    BY <1>2, <2>1, Undisturbed
  <2>3. Proper(c, out)
    BY <1>2, <2>1, <2>2 DEF Proper, BrowserInv
  <2> QED
    BY <1>2, <2>3, Running DEF out
<1>3. ASSUME NEW a \in Accounts, SubmitLogin(c, a)
      PROVE  BrowserInv'
  <2>1. Honest(Fetch("login", None, a), browser, solved)
    <3>1. /\ "login" \in Kinds /\ a \in Someone \cup Exercises
          /\ None \in browser.users \cup {None} /\ Fine(browser)
      BY DEF BrowserInv, Kinds, Someone
    <3> QED
      BY <3>1, Fetched
  <2> QED
    BY <1>2, <1>3, <2>1 DEF SubmitLogin, Awaits
<1>4. ASSUME NEW e \in Exercises, Check(c, e)
      PROVE  BrowserInv'
  <2>1. Honest(Fetch("check", browser.token, e), browser, solved)
    BY Fetched DEF BrowserInv, Fine, Kinds
  <2> QED
    BY <1>2, <1>4, <2>1 DEF Check, Awaits
<1>5. ASSUME SwitchLocale(c)
      PROVE  BrowserInv'
  <2> DEFINE n == RenderAuthChrome(browser)
  <2>1. Fine(n) /\ n.bar = (n.token # None)
        /\ \A f \in {"token", "shown", "users", "marks", "completed", "failed", "view", "data"} :
              n[f] = browser[f]
    BY Chrome DEF BrowserInv
  <2>2. tasks[c].at = "idle"
    BY <1>5 DEF SwitchLocale, Awaits
  <2>3. Routable(c, n)
    BY <2>1, <2>2 DEF Routable, BrowserInv, Earned, OnItsWay, Under
  <2>4. CASE browser.view \in {"list", "profile"}
    <3>1. "list" \in Views /\ "profile" \in Views /\ "profile" \in Kinds
      BY DEF Views, Kinds
    <3>2. Honest(Idle, ShowView(n, "list"), solved) /\ Honest(Idle, ShowView(n, "profile"), solved)
      BY IdleIsHonest
    <3>3. Honest(Fetch("profile", ShowView(n, "profile").token, None),
                 ShowView(n, "profile"), solved)
      BY <2>1, <3>1, Shown, Fetched DEF Fine, Someone
    <3> HIDE DEF n
    <3>4. /\ Proper(c, Done(ShowView(n, "list"))) /\ Proper(c, Done(ShowView(n, "profile")))
          /\ Proper(c, Awaiting(ShowView(n, "profile"), "profile"))
      BY <2>3, <3>1, <3>2, <3>3, ViewAwaits DEF Done, Awaiting
    <3>5. Proper(c, Repainted(n))
      BY <2>1, <2>4, <3>4 DEF Repainted, RenderList, RenderProfile
    <3> QED
      BY <1>5, <3>5, Running DEF SwitchLocale, n
  <2>5. CASE browser.view \notin {"list", "profile"}
    <3>1. Repainted(n) = Done(n)
      BY <2>1, <2>5 DEF Repainted
    <3> HIDE DEF n
    <3>2. \A d \in Coroutines \ {c} : After(c, Done(n))[d].at = tasks[d].at
      BY Others DEF Done, Outcome
    <3>3. OnItsWay(n, After(c, Done(n)))
      BY <2>1, <2>2, <3>2 DEF BrowserInv, OnItsWay, Under
    <3>4. Proper(c, Done(n))
      BY <2>3, <3>3, IdleIsHonest DEF Proper, Routable, Done, Outcome
    <3> QED
      BY <1>5, <3>1, <3>4, Running DEF SwitchLocale, n
  <2> QED
    BY <2>4, <2>5
<1> QED
  BY <1>1, <1>3, <1>4, <1>5 DEF User

LEMMA ApiStep == ASSUME BrowserInv, NEW c \in Coroutines, Api(c)
                 PROVE  BrowserInv'
<1>1. ASSUME Serve(c)
      PROVE  BrowserInv'
  <2> DEFINE a == tasks[c].as
             got == IF Awaits(c, "check") THEN {} ELSE Completion(a)
  <2>1. /\ a \in Accounts /\ a \in browser.users /\ tasks[c] \in Task
        /\ Honest(tasks[c], browser, solved)
    BY <1>1 DEF Serve, BrowserInv, Honest, Task, Someone
  <2>2. /\ solved' \in [Accounts -> SUBSET Exercises]
        /\ \A x \in Accounts : solved[x] \subseteq solved'[x]
        /\ tasks[c].at = "check" => tasks[c].about \in solved'[a]
    BY <1>1, <2>1 DEF Serve, Awaits, BrowserInv, Honest
  <2>3. got \subseteq Exercises /\ got \subseteq solved[a]
    BY DEF Completion
  <2>4. tasks' = [tasks EXCEPT ![c] = [tasks[c] EXCEPT !.served = TRUE, !.got = got]]
    BY <1>1 DEF Serve, BrowserInv
  <2> HIDE DEF got
  <2>5. Honest(tasks'[c], browser, solved')
    <3> DEFINE t == tasks'[c]
    <3>1. t = [tasks[c] EXCEPT !.served = TRUE, !.got = got]
      BY <2>4 DEF BrowserInv
    <3>2. t \in Task
      BY <2>1, <2>3, <3>1 DEF Task
    <3>3. t.at = tasks[c].at /\ t.as = a /\ t.about = tasks[c].about /\ t.got = got
      BY <2>1, <3>1 DEF Task
    <3>4. got \subseteq solved'[a] /\ a # None
      BY <1>1, <2>1, <2>2, <2>3 DEF Serve
    <3> HIDE DEF t
    <3>5. Honest(t, browser, solved')
      BY <2>1, <2>2, <3>2, <3>3, <3>4 DEF Honest
    <3> QED
      BY <3>5 DEF t
  <2>6. \A d \in Coroutines \ {c} : Honest(tasks'[d], browser, solved')
    BY <2>2, <2>4 DEF Honest, BrowserInv, Task, Someone
  <2>7. tasks' \in [Coroutines -> Task] /\ \A d \in Coroutines : tasks'[d].at = tasks[d].at
    BY <2>1, <2>3, <2>4 DEF BrowserInv, Task
  <2>8. Earned(browser, solved')
    BY <2>2 DEF Earned, BrowserInv, Fine, Browser
  <2> QED
    BY <1>1, <2>2, <2>5, <2>6, <2>7, <2>8
    DEF Serve, BrowserInv, OnItsWay, Under, Booting
<1>2. ASSUME NEW e \in Exercises, ReadProgress(c, e)
      PROVE  BrowserInv'
  <2>1. PICK got \in {{}, {e}} :
          /\ got # {} => tasks[c].as # None /\ e \in solved[tasks[c].as]
          /\ tasks' = [tasks EXCEPT ![c].left = @ \ {e}, ![c].got = @ \cup got]
    BY <1>2 DEF ReadProgress
  <2>2. tasks' = [tasks EXCEPT ![c] = [tasks[c] EXCEPT !.left = @ \ {e}, !.got = @ \cup got]]
    BY <2>1 DEF BrowserInv
  <2>3. Honest(tasks'[c], browser, solved)
    BY <2>1, <2>2 DEF Honest, Task, BrowserInv
  <2>4. \A d \in Coroutines \ {c} : tasks'[d] = tasks[d]
    BY <2>2 DEF BrowserInv
  <2>5. tasks' \in [Coroutines -> Task] /\ \A d \in Coroutines : tasks'[d].at = tasks[d].at
    BY <2>2, <2>3, <2>4 DEF BrowserInv, Honest, Task
  <2> QED
    BY <1>2, <2>3, <2>4, <2>5
    DEF ReadProgress, BrowserInv, OnItsWay, Under, Booting
<1> QED
  BY <1>1, <1>2 DEF Api

LEMMA BrowserStep == BrowserInv /\ [Next]_vars => BrowserInv'
<1> SUFFICES ASSUME BrowserInv, [Next]_vars
             PROVE  BrowserInv'
  OBVIOUS
<1>1. ASSUME NEW c \in Coroutines, Resume(c)
      PROVE  BrowserInv'
  BY <1>1, LoginStep, MeStep, BootStep, ListStep, LessonStep, ProgressStep, ProfileStep,
     CheckStep, RefreshStep, LostStep DEF Resume
<1>2. ASSUME LoadProfileScript
      PROVE  BrowserInv'
  <2>1. /\ Fine(browser')
        /\ \A f \in {"shown", "token", "bar", "failed", "users", "marks", "completed"} :
              browser'[f] = browser[f]
    BY <1>2 DEF LoadProfileScript, BrowserInv, Fine, OneSection, Browser
  <2> QED
    BY <1>2, <2>1
    DEF LoadProfileScript, BrowserInv, Honest, OnItsWay, Booting, Under, Earned
<1>3. ASSUME ClickLogout
      PROVE  BrowserInv'
  <2>1. /\ Fine(browser') /\ browser'.token = None /\ browser'.shown = {"gate"}
        /\ \A f \in {"users", "marks", "completed"} : browser'[f] = browser[f]
    BY <1>3, LoggedOut DEF ClickLogout, BrowserInv
  <2>2. OnItsWay(browser', tasks')
    BY <2>1, Complete
  <2> QED
    BY <1>3, <2>1, <2>2 DEF ClickLogout, BrowserInv, Honest, Earned
<1>4. ASSUME NEW a \in Accounts, NEW e \in Exercises, SolveElsewhere(a, e)
      PROVE  BrowserInv'
  <2>1. /\ solved' \in [Accounts -> SUBSET Exercises]
        /\ \A x \in Accounts : solved[x] \subseteq solved'[x]
    BY <1>4 DEF SolveElsewhere, BrowserInv
  <2>2. \A c \in Coroutines : Honest(tasks[c], browser, solved')
    BY <2>1 DEF Honest, BrowserInv, Task, Someone
  <2>3. Earned(browser, solved')
    BY <2>1 DEF Earned, BrowserInv, Fine, Browser
  <2> QED
    BY <1>4, <2>1, <2>2, <2>3 DEF SolveElsewhere, BrowserInv
<1>5. CASE UNCHANGED vars
  BY <1>5 DEF vars, BrowserInv, Honest, OnItsWay, Booting, Under, Earned
<1> QED
  BY <1>1, <1>2, <1>3, <1>4, <1>5, UserStep, ApiStep DEF Next

-----------------------------------------------------------------------------
(***************************************************************************)
(* The theorems.                                                           *)
(***************************************************************************)

LEMMA BrowserAlways == Spec => []BrowserInv
  BY BrowserInit, BrowserStep, PTL DEF Spec

(* Whatever is clicked and in whatever order the answers come, what app.js   *)
(* and auth.js show are never two sections at once: no view beside the gate. *)
THEOREM BrowserTypeOK == Spec => []TypeOK
<1>1. BrowserInv => TypeOK
  <2> SUFFICES ASSUME BrowserInv PROVE TypeOK
    OBVIOUS
  <2>1. CASE browser.shown = {}
    BY <2>1, FS_EmptySet DEF TypeOK, BrowserInv, Fine
  <2>2. CASE browser.shown # {}
    <3>1. PICK s \in Sections : browser.shown = {s}
      BY <2>2 DEF BrowserInv, Fine, OneSection
    <3>2. Cardinality(browser.shown) = 1
      BY <3>1, FS_Singleton
    <3> QED
      BY <3>2 DEF TypeOK, BrowserInv, Fine
  <2> QED
    BY <2>1, <2>2
<1> QED
  BY <1>1, BrowserAlways, PTL

(* An empty page is always about to show something: doLogin and boot hide a  *)
(* section only when they go on to await what ends in a view or in the gate. *)
THEOREM BrowserNeverBlank == Spec => []NeverBlank
<1>1. BrowserInv => NeverBlank
  BY DEF BrowserInv, OnItsWay, Under, NeverBlank
<1> QED
  BY <1>1, BrowserAlways, PTL

(* The login gate stands before nobody who is logged in, but for the time in *)
(* which loadCurrentUser is under way or after it has failed.                *)
THEOREM BrowserNoStrandedGate == Spec => []NoStrandedGate
<1>1. BrowserInv => NoStrandedGate
  BY DEF BrowserInv, OnItsWay, Under, NoStrandedGate
<1> QED
  BY <1>1, BrowserAlways, PTL

(* Who sees a view and is logged in has the logout control, however the      *)
(* answers of boot, doLogin and the views were interleaved.                  *)
THEOREM BrowserCanLogOut == Spec => []CanLogOut
<1>1. BrowserInv => CanLogOut
  BY DEF BrowserInv, OnItsWay, Under, Booting, CanLogOut
<1> QED
  BY <1>1, BrowserAlways, PTL

(* No answer, however late, sets a mark for an exercise that nobody who has  *)
(* been logged in on the page has solved.                                    *)
THEOREM BrowserMarksAreEarned == Spec => []MarksAreEarned
<1>1. BrowserInv => MarksAreEarned
  BY DEF BrowserInv, Earned, MarksAreEarned
<1> QED
  BY <1>1, BrowserAlways, PTL

(* Nor is a lesson shown as completed that none of them has completed.  This *)
(* needs a lesson to have exercises: without any, is_completed and an answer *)
(* that says nothing could not be told apart.                                *)
THEOREM BrowserCompletionIsEarned == Spec => []CompletionIsEarned
<1>1. BrowserInv => CompletionIsEarned
  BY DEF BrowserInv, Earned, CompletionIsEarned
<1> QED
  BY <1>1, BrowserAlways, PTL
=============================================================================
