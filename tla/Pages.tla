------------------------------- MODULE Pages -------------------------------
(***************************************************************************)
(* What the clients show: the web application's routes, their guards and   *)
(* links, and the load cycle of every page and mobile screen that reads    *)
(* from the API.  A page is a record of what its file decides: who is let  *)
(* in, where it leads, what starts a load, whether a load blanks the page  *)
(* or stops the one before, and what it shows when the answer is a 404 or  *)
(* when its body breaks off.  One page is open at a time.  The session is  *)
(* one client's; its tokens are the matter of WebSession, MobileSession.   *)
(* Here they matter when another tab replaces them by another account's:   *)
(* the page goes on for the account it knows, its requests go out with     *)
(* whatever tokens they find.                                              *)
(***************************************************************************)
EXTENDS Naturals

CONSTANTS
  LastSubject,   \* bound: ids, dates or offsets a page can be about
  LastChange,    \* bound: changes of what the server stores
  MaxActs,       \* bound: what the reader does
  MaxLoads,      \* bound: requests at once
  Unloaded, Free

ASSUME BoundsAssumption ==
  /\ LastSubject \in Nat \ {0} /\ LastChange \in Nat
  /\ MaxActs \in Nat /\ MaxLoads \in Nat \ {0}

VARIABLES
  stored,     \* whose session the client has, or "anonymous"
  another,    \* another tab has stored another account's tokens since
  checking,   \* AuthProvider has not resolved the session yet
  changes,    \* counts the changes of what the server stores
  page,       \* the open page
  load,       \* its requests
  acts

vars == <<stored, another, checking, changes, page, load, acts>>

Roles    == {"PLAYER", "OWNER", "ADMIN"}
Anyone   == Roles \cup {"anonymous", "loading"}
Subjects == 1..LastSubject
Ids      == 1..MaxLoads
Views    == {"closed", "loading", "ready", "missing", "failed", "crashed"}

(* What AuthProvider tells the guards.                                      *)
Session == IF checking THEN "loading" ELSE stored

(* Whom a request may be read as: send takes the tokens it finds.  After    *)
(* another tab's sign-in they are that account's, unless a refresh that was *)
(* under way here has put this tab's back.                                  *)
ReadAs(session, other) == {session} \cup (IF other THEN {"another"} ELSE {})
Accounts == Anyone \cup {"another"}

-----------------------------------------------------------------------------
(* The route table.  "leads" has the links each view of the page shows.     *)

Route(path, roles, leads) ==
  [app |-> "web", path |-> path, roles |-> roles, leads |-> leads, loads |-> FALSE,
   starts |-> {}, stops |-> "nothing", again |-> {}, blanks |-> {"subject", "focus", "again"},
   absent |-> "failed", torn |-> "failed"]

(* A page that loads when it is mounted.                                    *)
Reader(path, roles, leads) == [Route(path, roles, leads) EXCEPT !.loads = TRUE]

To(path)         == Views \X {path}
From(view, path) == {<<view, path>>}

HomePage     == Route("/", Anyone, To("/status"))
NotFoundPage == Route("*", Anyone, To("/"))
LoginPage    == Route("/login", {"anonymous", "loading"}, To("/register"))
RegisterPage == Route("/register", {"anonymous", "loading"}, To("/login"))

StatusPage == [Reader("/status", Anyone, {}) EXCEPT
  !.again = {"loading", "ready", "failed"}, !.torn = "crashed"]

PublicPlayerPage == [Reader("/players/:userId", Anyone, From("missing", "/")) EXCEPT
  !.starts = {"subject"}, !.stops = "abort", !.absent = "missing", !.torn = "crashed"]

PublicTurfListPage == Reader("/turfs", Anyone, From("ready", "/turfs/:turfId"))

PublicTurfDetailPage == [Reader("/turfs/:turfId", Anyone, From("missing", "/turfs")) EXCEPT
  !.starts = {"subject"}, !.stops = "abort", !.absent = "missing", !.torn = "crashed"]

(* The slots on PublicTurfDetailPage, a load of their own for each date.    *)
AvailableSlotsList == [Reader("/turfs/:turfId#slots", Anyone, {}) EXCEPT
  !.starts = {"subject"}, !.stops = "ignore"]

(* Before and instead of an answer the page shows the cached account.       *)
AccountPage == Reader("/account", Roles, {})

PlayerProfilePage ==
  [Reader("/profile", {"PLAYER"},
          {"ready", "missing"} \X {"/profile/edit"} \cup From("ready", "/players/:userId"))
   EXCEPT !.again = {"failed"}, !.absent = "missing", !.torn = "crashed"]

PlayerProfileEditPage == Route("/profile/edit", {"PLAYER"}, To("/profile"))

OwnerProfilePage ==
  [Reader("/owner/profile", {"OWNER"},
          {"ready", "missing"} \X {"/owner/profile/edit"} \cup From("ready", "/owner/turfs"))
   EXCEPT !.again = {"failed"}, !.absent = "missing", !.torn = "crashed"]

OwnerProfileEditPage == Route("/owner/profile/edit", {"OWNER"}, To("/owner/profile"))

OwnerTurfListPage ==
  [Reader("/owner/turfs", {"OWNER"},
          To("/owner/turfs/new") \cup From("missing", "/owner/profile/edit")
            \cup From("ready", "/owner/turfs/:turfId/edit"))
   EXCEPT !.absent = "missing"]

OwnerTurfCreatePage ==
  Route("/owner/turfs/new", {"OWNER"}, To("/owner/turfs") \cup To("/owner/turfs/:turfId/edit"))
OwnerTurfEditPage ==
  Route("/owner/turfs/:turfId/edit", {"OWNER"},
        To("/owner/turfs") \cup To("/owner/turfs/:turfId/availability"))
OwnerTurfAvailabilityPage ==
  Route("/owner/turfs/:turfId/availability", {"OWNER"},
        To("/owner/turfs") \cup To("/owner/turfs/:turfId/edit"))

(* "failed" here: the tile stays without its badge.                         *)
AdminDashboardPage == Reader("/admin", {"ADMIN"}, To("/admin/turfs") \cup To("/admin/users"))

AdminPendingTurfsPage ==
  Reader("/admin/turfs", {"ADMIN"}, To("/admin") \cup From("ready", "/admin/turfs/:turfId"))

AdminTurfReviewPage == Route("/admin/turfs/:turfId", {"ADMIN"}, To("/admin/turfs"))

(* Its subject is the page of accounts, offset / PAGE_SIZE + 1.             *)
AdminUsersPage ==
  [Reader("/admin/users", {"ADMIN"}, To("/admin") \cup From("ready", "/admin/users/:userId"))
   EXCEPT !.starts = {"subject"}, !.stops = "abort", !.torn = "crashed"]

(* A change of the subject leaves the account before it on the page.        *)
AdminUserDetailPage ==
  [Reader("/admin/users/:userId", {"ADMIN"}, {"ready", "failed"} \X {"/admin/users"})
   EXCEPT !.starts = {"subject"}, !.stops = "abort", !.blanks = {}]

WebRoutes ==
  {HomePage, NotFoundPage, LoginPage, RegisterPage, StatusPage, PublicPlayerPage,
   PublicTurfListPage, PublicTurfDetailPage, AvailableSlotsList, AccountPage,
   PlayerProfilePage, PlayerProfileEditPage, OwnerProfilePage, OwnerProfileEditPage,
   OwnerTurfListPage, OwnerTurfCreatePage, OwnerTurfEditPage, OwnerTurfAvailabilityPage,
   AdminDashboardPage, AdminPendingTurfsPage, AdminTurfReviewPage, AdminUsersPage,
   AdminUserDetailPage}

(* The navigation bar, for the session it is drawn for.                     *)
Header(session) ==
  {"/", "/turfs", "/status"}
    \cup (IF session = "PLAYER" THEN {"/profile"} ELSE {})
    \cup (IF session = "OWNER" THEN {"/owner/turfs"} ELSE {})
    \cup (IF session = "ADMIN" THEN {"/admin"} ELSE {})
    \cup (IF session \in Roles THEN {"/account"} ELSE {})
    \cup (IF session = "anonymous" THEN {"/login", "/register"} ELSE {})

-----------------------------------------------------------------------------
(* The mobile screens that load; React Navigation keeps them mounted while  *)
(* somebody is signed in.                                                   *)

Screen(name, roles) == [Reader(name, roles, {}) EXCEPT !.app = "mobile"]

LoginScreen    == [Screen("Login", {"anonymous"}) EXCEPT !.loads = FALSE]
HomeScreen     == Screen("Home", {"PLAYER"})
TurfListScreen == [Screen("Turfs", {"PLAYER", "OWNER"}) EXCEPT !.again = {"ready"}, !.blanks = {}]
TurfDetailScreen == [Screen("TurfDetail", {"PLAYER", "OWNER"}) EXCEPT
  !.starts = {"subject"}, !.stops = "ignore", !.absent = "missing"]
PlayerProfileScreen == [Screen("Profile", {"PLAYER"}) EXCEPT
  !.starts = {"focus"}, !.absent = "missing"]
OwnerProfileScreen == [Screen("OwnerProfile", {"OWNER"}) EXCEPT
  !.starts = {"focus"}, !.absent = "missing"]
OwnerTurfListScreen == [Screen("MyTurfs", {"OWNER"}) EXCEPT
  !.starts = {"focus"}, !.again = {"ready"}, !.blanks = {"focus"}, !.absent = "missing"]
NotAvailableScreen == [Screen("NotAvailable", {"ADMIN"}) EXCEPT !.loads = FALSE]

Screens == {LoginScreen, HomeScreen, TurfListScreen, TurfDetailScreen, PlayerProfileScreen,
            OwnerProfileScreen, OwnerTurfListScreen, NotAvailableScreen}

-----------------------------------------------------------------------------
(* Mounting a page.                                                        *)

(* The loads of a page end up in what it shows: of which subject, as of     *)
(* which change, read as whom.  "asked": the change at the last request for *)
(* it.  "via", history: how the reader came here.  "jumped", history: the   *)
(* subject was changed on AdminUserDetailPage.                              *)
Fresh(d, session, from, via) ==
  [of |-> d, from |-> from, via |-> via, subject |-> 1, shown |-> Unloaded, asked |-> changes,
   pending |-> FALSE, jumped |-> FALSE,
   view |-> IF session \notin d.roles THEN "closed" ELSE IF d.loads THEN "loading" ELSE "ready"]

(* A request in flight: for which event, about what, as whom, and what came *)
(* of it so far.                                                            *)
Request(why, subject, reader) ==
  [why |-> why, subject |-> subject, by |-> reader, state |-> "sent", at |-> 0]

Load == [why : {"mount", "subject", "focus", "again", "toggle"}, subject : Subjects,
         by : Accounts, state : {"sent", "ok", "absent", "failed", "torn"}, at : Nat]

(* A place without a request is free.                                       *)
ASSUME FreeAssumption == Free \notin Load

Mount(pg, session, other) ==
  /\ page' = pg
  /\ \E reader \in ReadAs(session, other) :
       load' = [i \in Ids |-> IF i = 1 /\ pg.view = "loading"
                              THEN Request("mount", pg.subject, reader) ELSE Free]

(* Where a visit ends: ProtectedRoute sends the anonymous to the login page *)
(* and keeps what they wanted in "from"; the login and registration pages   *)
(* send on whoever is signed in.                                            *)
Placed(d, session, from, via) ==
  IF d \in {LoginPage, RegisterPage} /\ session \in Roles
  THEN Fresh(IF d = LoginPage THEN from ELSE AccountPage, session, AccountPage, "return")
  ELSE IF d.app = "web" /\ session = "anonymous" /\ session \notin d.roles
  THEN Fresh(LoginPage, session, d, via)
  ELSE Fresh(d, session, from, via)

(* Mutant: the page is not taken down with the session.                     *)
BecomesQuietly(session, other) == UNCHANGED <<page, load>>

(* The session of the open page becomes another one.  A page the new one    *)
(* may see stays mounted, and an error page stays where it is.  On mobile   *)
(* RootNavigator swaps the tree, and the reader opens one of its screens.   *)
Becomes(session, other) ==
  IF page.view = "crashed" \/ (page.view # "closed" /\ session \in page.of.roles)
  THEN UNCHANGED <<page, load>>
  ELSE IF page.of.app = "web"
  THEN Mount(Placed(page.of, session, page.from, page.via), session, other)
  ELSE \E d \in {s \in Screens : session \in s.roles} :
         Mount(Fresh(d, session, d, "link"), session, other)

Init ==
  /\ stored \in Roles \cup {"anonymous"} /\ checking = (stored \in Roles)
  /\ another = FALSE /\ changes = 1 /\ acts = 0
  /\ \E d \in WebRoutes \cup {LoginScreen} :
       LET pg == IF d.app = "web" THEN Placed(d, Session, AccountPage, "typed")
                 ELSE Fresh(d, Session, d, "link") IN
       /\ page = pg
       /\ load = [i \in Ids |-> IF i = 1 /\ pg.view = "loading"
                                THEN Request("mount", 1, Session) ELSE Free]

Act == acts < MaxActs /\ acts' = acts + 1

-----------------------------------------------------------------------------
(* The session.                                                            *)

(* The start-up check of the stored tokens succeeds, or it ends the session *)
(* and takes the tokens away.  Read with another account's tokens, after a  *)
(* 401 and a retry, it makes the session theirs.                            *)
Resolve ==
  /\ checking
  /\ checking' = FALSE
  /\ \/ UNCHANGED <<stored, another>>
     \/ /\ stored' \in {"anonymous"} \cup (IF another THEN Roles ELSE {})
        /\ another' = FALSE
  /\ Becomes(stored', another')
  /\ UNCHANGED <<changes, acts>>

(* The check is answered, but the body breaks off: there is a session, of   *)
(* nobody.  ProtectedRoute throws on the role it looks for.  On a page that *)
(* is open to all, or to every role, the client goes on without an account; *)
(* that is not modelled.                                                    *)
ResolveBroken ==
  /\ checking
  /\ page.of.app = "web" /\ page.view = "closed" /\ page.of.roles # Roles
  /\ checking' = FALSE
  /\ page' = [page EXCEPT !.view = "crashed"]
  /\ UNCHANGED <<stored, another, changes, load, acts>>

(* Somebody logs in or registers.  The forms could be sent before the       *)
(* start-up check is answered, too: that race is not modelled.              *)
SignIn ==
  /\ ~checking /\ page.of \in {LoginPage, RegisterPage, LoginScreen} /\ page.view = "ready"
  /\ Act
  /\ stored' \in Roles /\ another' = FALSE
  /\ Becomes(stored', FALSE)
  /\ UNCHANGED <<checking, changes>>

(* Logout, here or in another tab, or a refresh that was refused: the       *)
(* tokens go, whoever's they are.                                           *)
SessionEnds ==
  /\ ~checking /\ (Session \in Roles \/ another)
  /\ Act
  /\ stored' = "anonymous" /\ another' = FALSE
  /\ Becomes("anonymous", FALSE)
  /\ UNCHANGED <<checking, changes>>

(* Another account is signed in in another tab, or its tokens are refreshed *)
(* there.  AuthProvider looks only whether there still are tokens.          *)
OtherTabSignsIn ==
  /\ page.of.app = "web" /\ ~another
  /\ Act
  /\ another' = TRUE
  /\ UNCHANGED <<stored, checking, changes, page, load>>

-----------------------------------------------------------------------------
(* Navigation.                                                             *)

(* The address is typed, or the page reloaded: the application starts anew. *)
Open(d) ==
  /\ page.of.app = "web"
  /\ Act
  /\ stored' \in IF another THEN Roles ELSE {stored}
  /\ another' = FALSE
  /\ checking' = (stored' \in Roles)
  /\ Mount(Placed(d, Session', AccountPage, "typed"), Session', FALSE)
  /\ UNCHANGED changes

Own == Session = "PLAYER" /\ page.subject = 1

(* The links on the page, some of which depend on who reads it.             *)
Links ==
  {path \in {l[2] : l \in page.of.leads} : <<page.view, path>> \in page.of.leads}
    \cup Header(Session)
    \cup (IF page.of # HomePage THEN {}
          ELSE IF Session \in Roles THEN {"/account"} ELSE {"/register", "/login"})
    \cup (IF page.of = PublicPlayerPage /\ page.view = "ready" /\ Own
          THEN {"/profile/edit"} ELSE {})

Follow(d) ==
  /\ page.of.app = "web" /\ page.view \notin {"closed", "crashed"}
  /\ d # page.of /\ d.path \in Links
  /\ Act
  /\ Mount(Placed(d, Session, AccountPage, "link"), Session, another)
  /\ UNCHANGED <<stored, another, checking, changes>>

-----------------------------------------------------------------------------
(* Loading.                                                                *)

Live == {i \in Ids : load[i] # Free}

(* Mutant: a superseded load is not cancelled.                              *)
StoppedNever(how) == {load}

(* What is left of the requests once a new load stops them.  One whose      *)
(* answer is arriving goes on without its body.                             *)
Stopped(how) ==
  CASE how = "nothing" -> {load}
    [] how = "ignore"  -> {[i \in Ids |-> Free]}
    [] how = "abort"   ->
         {[i \in Ids |-> IF load[i] = Free THEN Free
                         ELSE IF load[i].why = "toggle" THEN load[i]
                         ELSE IF i \in arriving THEN [load[i] EXCEPT !.state = "torn"] ELSE Free] :
            arriving \in SUBSET {i \in Live : load[i].state \in {"ok", "torn"}}}

(* A new load, of subject s, for one of the events that start one.          *)
Ask(i, why, s) ==
  \E left \in Stopped(IF why = "subject" THEN page.of.stops ELSE "nothing") :
    /\ left[i] = Free
    /\ \E reader \in ReadAs(Session, another) :
         load' = [left EXCEPT ![i] = Request(why, s, reader)]
    /\ page' = [page EXCEPT
         !.subject = s, !.asked = changes,
         !.view    = IF why \in page.of.blanks THEN "loading" ELSE @,
         !.shown   = IF why \in page.of.blanks THEN Unloaded ELSE @,
         !.pending = @ \/ (why = "again" /\ why \notin page.of.blanks),
         !.jumped  = @ \/ (why = "subject" /\ why \notin page.of.blanks)]

Mounted == page.of.loads /\ page.view \notin {"closed", "crashed"}

(* Mutant: "Next" is offered on the last page, too.                         *)
OfferedBeyond == IF page.view = "ready" THEN Subjects \ {page.subject} ELSE {}

(* The subjects the reader can change to: by the browser's history, by the  *)
(* strip of days, or one page of accounts back or forth.  As many of those  *)
(* exist as there were changes.                                             *)
Offered ==
  IF page.of # AdminUsersPage THEN Subjects \ {page.subject}
  ELSE IF page.view # "ready" THEN {}
  ELSE {s \in Subjects : s = page.subject - 1 \/ (s = page.subject + 1 /\ s <= page.shown.at)}

Change(i) ==
  /\ Mounted /\ "subject" \in page.of.starts
  /\ Act
  /\ \E s \in Offered : Ask(i, "subject", s)
  /\ UNCHANGED <<stored, another, checking, changes>>

Focus(i) ==
  /\ Mounted /\ "focus" \in page.of.starts
  /\ Act
  /\ Ask(i, "focus", page.subject)
  /\ UNCHANGED <<stored, another, checking, changes>>

(* "Refresh", "Try again", or pulling the list down.                        *)
Again(i) ==
  /\ Mounted /\ page.view \in page.of.again /\ ~page.pending
  /\ Act
  /\ Ask(i, "again", page.subject)
  /\ UNCHANGED <<stored, another, checking, changes>>

(* Deactivate or reactivate the account that is shown.                      *)
ToggleActive(i) ==
  /\ page.of = AdminUserDetailPage /\ page.view = "ready" /\ ~page.pending
  /\ load[i] = Free
  /\ Act
  /\ page' = [page EXCEPT !.pending = TRUE]
  /\ \E reader \in ReadAs(Session, another) :
       load' = [load EXCEPT ![i] = Request("toggle", page.subject, reader)]
  /\ UNCHANGED <<stored, another, checking, changes>>

-----------------------------------------------------------------------------
(* Answers.                                                                *)

(* The server reads (or writes) and answers; a request that met a 401 is    *)
(* retried with the tokens of the moment.                                   *)
Serve(i) ==
  /\ load[i] # Free /\ load[i].state = "sent"
  /\ \/ \E reader \in {load[i].by} \cup ReadAs(Session, another) :
          load' = [load EXCEPT ![i].state = "ok", ![i].at = changes, ![i].by = reader]
     \/ /\ load' = [load EXCEPT ![i].state = "absent"]
  /\ UNCHANGED <<stored, another, checking, changes, page, acts>>

(* A timeout, a lost connection, or a refusal: another account has no right *)
(* to what this one may see.  Once the web client has the status of a good  *)
(* answer it takes the answer for one even if the body breaks off or runs   *)
(* into the timeout: toResult makes it undefined.  On the phone fetch       *)
(* returns only when the whole body is there.                               *)
Break(i) ==
  /\ load[i] # Free
  /\ \/ /\ load[i].state \in {"sent", "ok"}
        /\ load' = [load EXCEPT ![i].state = "failed"]
     \/ /\ load[i].state = "ok" /\ page.of.app = "web"
        /\ load' = [load EXCEPT ![i].state = "torn"]
  /\ UNCHANGED <<stored, another, checking, changes, page, acts>>

(* Mutant: a failed load is only logged.                                    *)
OutcomeSilent(k) == CASE k.state = "ok" -> "ready" [] OTHER -> page.view

Outcome(k) ==
  CASE k.state = "ok"     -> "ready"
    [] k.state = "absent" -> page.of.absent
    [] k.state = "torn"   -> page.of.torn
    [] OTHER              -> "failed"

(* The load's then, catch and finally.                                      *)
Settle(i) ==
  /\ load[i] # Free /\ load[i].state # "sent" /\ load[i].why # "toggle"
  /\ LET view == Outcome(load[i]) IN
     /\ page' = [page EXCEPT
          !.view    = view,
          !.shown   = IF view = "ready"
                      THEN [subject |-> load[i].subject, at |-> load[i].at, by |-> load[i].by]
                      ELSE Unloaded,
          !.pending = @ /\ load[i].why # "again"]
     /\ load' = IF view = "crashed" THEN [j \in Ids |-> Free] ELSE [load EXCEPT ![i] = Free]
  /\ UNCHANGED <<stored, another, checking, changes, acts>>

(* toggleActive: the profile in the answer replaces the one that is shown.  *)
Toggled(i) ==
  /\ load[i] # Free /\ load[i].state # "sent" /\ load[i].why = "toggle"
  /\ page' =
       IF load[i].state = "ok" /\ page.view = "ready"
       THEN [page EXCEPT !.pending = FALSE,
               !.shown = [subject |-> load[i].subject, at |-> load[i].at, by |-> load[i].by]]
       ELSE IF load[i].state = "torn" /\ page.view = "ready"
       THEN [page EXCEPT !.pending = FALSE, !.view = "failed", !.shown = Unloaded]
       ELSE [page EXCEPT !.pending = FALSE]
  /\ load' = [load EXCEPT ![i] = Free]
  /\ UNCHANGED <<stored, another, checking, changes, acts>>

(* Somebody else changes what is stored.                                    *)
Elsewhere ==
  /\ changes < LastChange /\ changes' = changes + 1
  /\ UNCHANGED <<stored, another, checking, page, load, acts>>

Answer(i) == Serve(i) \/ Break(i) \/ Settle(i) \/ Toggled(i)

Next ==
  \/ Resolve \/ ResolveBroken \/ SignIn \/ SessionEnds \/ OtherTabSignsIn \/ Elsewhere
  \/ \E d \in WebRoutes : Open(d) \/ Follow(d)
  \/ \E i \in Ids : Change(i) \/ Focus(i) \/ Again(i) \/ ToggleActive(i) \/ Answer(i)

Spec == Init /\ [][Next]_vars

(* send gives every request a timeout, so each is answered, breaks off or   *)
(* times out, and JavaScript runs what waits for it; the start-up check is  *)
(* such a request.  Nothing is assumed of the reader or the session.        *)
FairSpec == Spec /\ WF_vars(Resolve) /\ \A i \in Ids : WF_vars(Answer(i))

-----------------------------------------------------------------------------
(* Properties.                                                             *)

(* The pages on which a load can be asked for while one is under way, with  *)
(* nothing that puts their answers in order.                                *)
Overlapping == {StatusPage, OwnerTurfListScreen, PlayerProfileScreen, OwnerProfileScreen}

(* On every other page, whatever was superseded, failed or arrived late:    *)
(* what is shown is about the page's subject, and once nothing is in flight *)
(* it was read after the last time it was asked for.  AdminUserDetailPage   *)
(* is held to it until its subject changes under it.                        *)
ShownIsAsked ==
  page.of \notin Overlapping /\ ~page.jumped /\ page.shown # Unloaded =>
    /\ page.shown.subject = page.subject
    /\ Live = {} => page.shown.at >= page.asked

(* A page behind a guard shows only what was loaded for the account that is *)
(* signed in, even if somebody else was signed in on the page before; only  *)
(* once another tab has signed another account in since may it be theirs.   *)
ShownToItsReader ==
  page.shown # Unloaded /\ page.of.roles \subseteq Roles =>
    page.shown.by \in ReadAs(Session, another)

(* Nothing the application offers leads nowhere: no link leads a reader to  *)
(* "You do not have access" (that is met by typing an address, or by        *)
(* signing in with another role where somebody else's session ended), and   *)
(* the accounts are not turned over to a page beyond the last one.          *)
OffersLeadSomewhere ==
  /\ page.view = "closed" /\ Session \in Roles => page.via # "link"
  /\ page.of = AdminUsersPage => page.subject <= changes

(* No page stays at "Loading" or "Checking your session" for ever.          *)
Waiting == page.view = "loading" \/ checking
LoadingEnds == Waiting ~> ~Waiting
=============================================================================
