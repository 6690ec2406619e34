----------------------------- MODULE PagesProofs -----------------------------
(***************************************************************************)
(* A page behind a guard shows only what was loaded for the account that   *)
(* is signed in, or for the one that was signed in since in another tab;   *)
(* what is shown is what was asked for, and no link leads to *)
(* a closed door: for any number of subjects, changes and loads at once.   *)
(***************************************************************************)
EXTENDS Pages, TLAPS

Routes == WebRoutes \cup Screens
Vias   == {"typed", "link", "return"}

(* Only who has signed in may see the page.                                 *)
Guarded(d) == d.roles \subseteq Roles

Data == [subject : Subjects, at : Nat, by : Accounts]

OpenPage == [of : Routes, from : Routes, via : Vias, subject : Subjects,
             shown : Data \cup {Unloaded}, asked : Nat,
             pending : BOOLEAN, jumped : BOOLEAN, view : Views]

(* A page pg with the loads ld fits the session and whom its requests may   *)
(* be read as.  It is open only to who may see it, one that is closed or    *)
(* crashed holds nothing, and behind a guard everything on it and on its    *)
(* way to it is one of the readers'.                                        *)
Fits(pg, ld, session, readers) ==
  /\ pg \in OpenPage /\ ld \in [Ids -> Load \cup {Free}]
  /\ pg.view \notin {"closed", "crashed"} => session \in pg.of.roles
  /\ pg.view \in {"closed", "crashed"} =>
       pg.shown = Unloaded /\ \A i \in Ids : ld[i] = Free
  /\ Guarded(pg.of) =>
       /\ pg.shown # Unloaded => pg.shown.by \in readers
       /\ \A i \in Ids : ld[i] # Free => ld[i].by \in readers

(* Whom a request of the open page is read as.                              *)
Mine == ReadAs(Session, another)

IInv ==
  /\ stored \in Roles \cup {"anonymous"} /\ another \in BOOLEAN
  /\ checking \in BOOLEAN /\ changes \in Nat
  /\ Fits(page, load, Session, Mine)

-----------------------------------------------------------------------------
(* The pages.                                                              *)

WellMade(d) ==
  /\ d.absent \in {"missing", "failed"} /\ d.torn \in {"failed", "crashed"}
  /\ d.stops \in {"nothing", "ignore", "abort"}

(* What every entry of the route table starts from.                         *)
LEMMA RouteMade ==
  ASSUME NEW path, NEW roles, NEW leads
  PROVE  WellMade(Route(path, roles, leads)) /\ WellMade(Reader(path, roles, leads))
  BY DEF Route, Reader, WellMade

LEMMA WebRoutesMade == \A d \in WebRoutes : WellMade(d)
<1>1. WellMade(StatusPage) /\ WellMade(PublicPlayerPage) /\ WellMade(PublicTurfDetailPage)
  BY DEF StatusPage, PublicPlayerPage, PublicTurfDetailPage, Reader, Route, WellMade
<1>2. WellMade(AvailableSlotsList) /\ WellMade(PlayerProfilePage) /\ WellMade(OwnerProfilePage)
  BY DEF AvailableSlotsList, PlayerProfilePage, OwnerProfilePage, Reader, Route, WellMade
<1>3. WellMade(OwnerTurfListPage) /\ WellMade(AdminUsersPage) /\ WellMade(AdminUserDetailPage)
  BY DEF OwnerTurfListPage, AdminUsersPage, AdminUserDetailPage, Reader, Route, WellMade
<1>4. /\ WellMade(HomePage) /\ WellMade(NotFoundPage) /\ WellMade(LoginPage)
      /\ WellMade(RegisterPage) /\ WellMade(PublicTurfListPage) /\ WellMade(AccountPage)
  BY RouteMade DEF HomePage, NotFoundPage, LoginPage, RegisterPage, PublicTurfListPage, AccountPage
<1>5. /\ WellMade(PlayerProfileEditPage) /\ WellMade(OwnerProfileEditPage)
      /\ WellMade(OwnerTurfCreatePage) /\ WellMade(OwnerTurfEditPage)
      /\ WellMade(OwnerTurfAvailabilityPage)
  BY RouteMade DEF PlayerProfileEditPage, OwnerProfileEditPage, OwnerTurfCreatePage,
     OwnerTurfEditPage, OwnerTurfAvailabilityPage
<1>6. /\ WellMade(AdminDashboardPage) /\ WellMade(AdminPendingTurfsPage)
      /\ WellMade(AdminTurfReviewPage)
  BY RouteMade DEF AdminDashboardPage, AdminPendingTurfsPage, AdminTurfReviewPage
<1> QED BY <1>1, <1>2, <1>3, <1>4, <1>5, <1>6 DEF WebRoutes

LEMMA ScreensMade == \A d \in Screens : WellMade(d)
<1>1. \A name, roles : WellMade(Screen(name, roles))
  BY DEF Screen, Reader, Route, WellMade
<1>2. WellMade(LoginScreen) /\ WellMade(TurfListScreen) /\ WellMade(TurfDetailScreen)
  BY DEF LoginScreen, TurfListScreen, TurfDetailScreen, Screen, Reader, Route, WellMade
<1>3. WellMade(PlayerProfileScreen) /\ WellMade(OwnerProfileScreen)
  BY DEF PlayerProfileScreen, OwnerProfileScreen, Screen, Reader, Route, WellMade
<1>4. WellMade(OwnerTurfListScreen) /\ WellMade(NotAvailableScreen)
  BY DEF OwnerTurfListScreen, NotAvailableScreen, Screen, Reader, Route, WellMade
<1>5. WellMade(HomeScreen)
  BY <1>1 DEF HomeScreen
<1> QED BY <1>2, <1>3, <1>4, <1>5 DEF Screens

(* Who signs in does so on a page without a guard.                          *)
LEMMA SignInPages ==
  \A d \in {LoginPage, RegisterPage, LoginScreen} : d \in Routes /\ "anonymous" \in d.roles
<1>1. \A d \in {LoginPage, RegisterPage, LoginScreen} : d \in Routes
  BY DEF Routes, WebRoutes, Screens
<1>2. "anonymous" \in LoginPage.roles /\ "anonymous" \in RegisterPage.roles
  BY DEF LoginPage, RegisterPage, Route
<1>3. "anonymous" \in LoginScreen.roles
  BY DEF LoginScreen, Screen, Reader, Route
<1> QED BY <1>1, <1>2, <1>3

-----------------------------------------------------------------------------
(* A page that is mounted fits the session it is mounted for.              *)

Mounting(pg, reader) ==
  [i \in Ids |-> IF i = 1 /\ pg.view = "loading"
                 THEN Request("mount", pg.subject, reader) ELSE Free]

(* Some reader, and that of a request, are always known.                    *)
LEMMA ReadersKnown ==
  ASSUME NEW session \in Anyone, NEW other
  PROVE  session \in ReadAs(session, other) /\ ReadAs(session, other) \subseteq Accounts
  BY DEF ReadAs, Accounts

LEMMA FreshFits ==
  ASSUME changes \in Nat, NEW d \in Routes, NEW from \in Routes, NEW via \in Vias,
         NEW session \in Anyone, NEW readers \in SUBSET Accounts, NEW reader \in readers
  PROVE  LET pg == Fresh(d, session, from, via) IN
         Fits(pg, Mounting(pg, reader), session, readers) /\ pg.subject = 1
<1> DEFINE pg == Fresh(d, session, from, via)
<1>1. pg \in OpenPage /\ pg.subject = 1
  BY BoundsAssumption DEF Fresh, OpenPage, Views, Subjects
<1>2. /\ pg.shown = Unloaded /\ pg.of = d
      /\ pg.view \in {"closed", "loading", "ready"}
      /\ pg.view # "closed" => session \in d.roles
  BY DEF Fresh
<1>3. Request("mount", pg.subject, reader) \in Load
      /\ Request("mount", pg.subject, reader).by = reader
  BY <1>1 DEF Request, Load, OpenPage
<1> HIDE DEF pg
<1>4. /\ Mounting(pg, reader) \in [Ids -> Load \cup {Free}]
      /\ \A i \in Ids : Mounting(pg, reader)[i] # Free => Mounting(pg, reader)[i].by = reader
      /\ pg.view = "closed" => \A i \in Ids : Mounting(pg, reader)[i] = Free
  BY <1>3 DEF Mounting
<1>5. Fits(pg, Mounting(pg, reader), session, readers)
  BY <1>1, <1>2, <1>4 DEF Fits
<1> QED BY <1>1, <1>5 DEF pg

LEMMA PlacedFits ==
  ASSUME changes \in Nat, NEW d \in Routes, NEW from \in Routes, NEW via \in Vias,
         NEW session \in Anyone, NEW readers \in SUBSET Accounts, NEW reader \in readers
  PROVE  LET pg == Placed(d, session, from, via) IN
         Fits(pg, Mounting(pg, reader), session, readers) /\ pg.subject = 1
<1>1. LoginPage \in Routes /\ AccountPage \in Routes
  BY DEF Routes, WebRoutes
<1>2. \/ Placed(d, session, from, via) = Fresh(from, session, AccountPage, "return")
      \/ Placed(d, session, from, via) = Fresh(AccountPage, session, AccountPage, "return")
      \/ Placed(d, session, from, via) = Fresh(LoginPage, session, d, via)
      \/ Placed(d, session, from, via) = Fresh(d, session, from, via)
  BY DEF Placed
<1>3. "return" \in Vias
  BY DEF Vias
<1> QED BY <1>1, <1>2, <1>3, FreshFits

LEMMA MountFits ==
  ASSUME changes \in Nat, NEW d \in Routes, NEW from \in Routes, NEW via \in Vias,
         NEW session \in Anyone, NEW other,
         \/ Mount(Placed(d, session, from, via), session, other)
         \/ Mount(Fresh(d, session, from, via), session, other)
  PROVE  Fits(page', load', session, ReadAs(session, other))
<1>1. PICK reader \in ReadAs(session, other) : load' = Mounting(page', reader)
  BY DEF Mount, Mounting
<1>2. page' = Placed(d, session, from, via) \/ page' = Fresh(d, session, from, via)
  BY DEF Mount
<1>3. ReadAs(session, other) \in SUBSET Accounts
  BY ReadersKnown
<1> QED BY <1>1, <1>2, <1>3, PlacedFits, FreshFits

LEMMA InitIInv == Init => IInv
<1> SUFFICES ASSUME Init PROVE IInv
  OBVIOUS
<1>1. /\ stored \in Roles \cup {"anonymous"} /\ another \in BOOLEAN
      /\ checking \in BOOLEAN /\ changes \in Nat
  <2>1. stored \in Roles \cup {"anonymous"} /\ checking \in BOOLEAN /\ changes \in Nat
    BY DEF Init
  <2>2. another \in BOOLEAN
    BY DEF Init
  <2> QED BY <2>1, <2>2
<1>2. Session \in Anyone /\ Session \in Mine /\ Mine \in SUBSET Accounts
  BY <1>1, ReadersKnown DEF Session, Anyone, Mine
<1>3. PICK d \in WebRoutes \cup {LoginScreen} :
        LET pg == IF d.app = "web" THEN Placed(d, Session, AccountPage, "typed")
                  ELSE Fresh(d, Session, d, "link") IN
        /\ page = pg
        /\ load = [i \in Ids |-> IF i = 1 /\ pg.view = "loading"
                                 THEN Request("mount", 1, Session) ELSE Free]
  BY DEF Init
<1>4. d \in Routes /\ AccountPage \in Routes /\ {"typed", "link"} \subseteq Vias
  BY DEF Routes, WebRoutes, Screens, Vias
<1>5. Fits(page, Mounting(page, Session), Session, Mine) /\ page.subject = 1
  BY <1>1, <1>2, <1>3, <1>4, PlacedFits, FreshFits
<1>6. load = Mounting(page, Session)
  BY <1>3, <1>5 DEF Mounting
<1> QED BY <1>1, <1>5, <1>6 DEF IInv

-----------------------------------------------------------------------------
(* The session of the open page changes.  What was loaded for the one       *)
(* before survives only on a page without a guard.                          *)
LEMMA BecomesFits ==
  ASSUME IInv, NEW session \in Anyone, NEW other, Becomes(session, other),
         page.view \notin {"closed", "crashed"} /\ session \in page.of.roles
           => ~Guarded(page.of)
  PROVE  Fits(page', load', session, ReadAs(session, other))
<1>1. Fits(page, load, Session, Mine) /\ changes \in Nat
  BY DEF IInv
<1>2. page.of \in Routes /\ page.from \in Routes /\ page.via \in Vias
  BY <1>1 DEF Fits, OpenPage
<1>3. CASE page.view = "crashed" \/ (page.view # "closed" /\ session \in page.of.roles)
  <2>1. page' = page /\ load' = load
    BY <1>3 DEF Becomes
  <2>2. Fits(page, load, session, ReadAs(session, other))
    BY <1>1, <1>3 DEF Fits
  <2> QED BY <2>1, <2>2
<1>4. CASE /\ ~(page.view = "crashed" \/ (page.view # "closed" /\ session \in page.of.roles))
           /\ page.of.app = "web"
  <2>1. Mount(Placed(page.of, session, page.from, page.via), session, other)
    BY <1>4 DEF Becomes
  <2> QED BY <2>1, <1>1, <1>2, MountFits
<1>5. CASE /\ ~(page.view = "crashed" \/ (page.view # "closed" /\ session \in page.of.roles))
           /\ page.of.app # "web"
  <2>1. PICK d \in Screens : Mount(Fresh(d, session, d, "link"), session, other)
    BY <1>5 DEF Becomes
  <2>2. d \in Routes /\ "link" \in Vias
    BY DEF Routes, Vias
  <2> QED BY <2>1, <2>2, <1>1, MountFits
<1> QED BY <1>3, <1>4, <1>5

LEMMA ResolveFits == IInv /\ Resolve => IInv'
<1> SUFFICES ASSUME IInv, Resolve PROVE IInv'
  OBVIOUS
<1>1. /\ checking /\ checking' = FALSE /\ stored' \in Roles \cup {"anonymous"}
      /\ another' \in BOOLEAN
      /\ Becomes(stored', another') /\ changes' = changes /\ changes \in Nat
  BY DEF Resolve, IInv
<1>2. /\ Session = "loading" /\ Session' = stored' /\ stored' \in Anyone
      /\ Mine' = ReadAs(stored', another')
  BY <1>1 DEF Session, Anyone, Mine
<1>3. page.view \notin {"closed", "crashed"} => ~Guarded(page.of)
  BY <1>2 DEF IInv, Fits, Guarded, Roles
<1>4. Fits(page', load', stored', ReadAs(stored', another'))
  BY <1>1, <1>2, <1>3, BecomesFits
<1> QED BY <1>1, <1>2, <1>4 DEF IInv

(* A page that was closed while the check ran, and crashed, holds nothing.  *)
LEMMA BrokenFits == IInv /\ ResolveBroken => IInv'
<1> SUFFICES ASSUME IInv, ResolveBroken PROVE IInv'
  OBVIOUS
<1>1. /\ page.view = "closed" /\ page' = [page EXCEPT !.view = "crashed"] /\ load' = load
      /\ stored' = stored /\ another' = another /\ checking' = FALSE /\ changes' = changes
  BY DEF ResolveBroken
<1>2. /\ page \in OpenPage /\ load \in [Ids -> Load \cup {Free}]
      /\ page.shown = Unloaded /\ \A i \in Ids : load[i] = Free
  BY <1>1 DEF IInv, Fits
<1>3. page' \in OpenPage /\ page'.view = "crashed" /\ page'.shown = Unloaded
  BY <1>1, <1>2 DEF OpenPage, Views
<1>4. Fits(page', load', Session', Mine')
  BY <1>1, <1>2, <1>3 DEF Fits
<1> QED BY <1>1, <1>4 DEF IInv

LEMMA SignInFits == IInv /\ SignIn => IInv'
<1> SUFFICES ASSUME IInv, SignIn PROVE IInv'
  OBVIOUS
<1>1. /\ ~checking /\ checking' = checking /\ stored' \in Roles /\ another' = FALSE
      /\ Becomes(stored', FALSE) /\ changes' = changes /\ changes \in Nat /\ checking \in BOOLEAN
  BY DEF SignIn, IInv
<1>2. Session' = stored' /\ stored' \in Anyone /\ Mine' = ReadAs(stored', FALSE)
  BY <1>1 DEF Session, Anyone, Mine
<1>3. ~Guarded(page.of)
  BY SignInPages DEF SignIn, Guarded, Roles
<1>4. Fits(page', load', stored', ReadAs(stored', FALSE))
  BY <1>1, <1>2, <1>3, BecomesFits
<1> QED BY <1>1, <1>2, <1>4 DEF IInv

LEMMA SessionEndsFits == IInv /\ SessionEnds => IInv'
<1> SUFFICES ASSUME IInv, SessionEnds PROVE IInv'
  OBVIOUS
<1>1. /\ checking = FALSE /\ checking' = checking /\ stored' = "anonymous" /\ another' = FALSE
      /\ Becomes("anonymous", FALSE) /\ changes' = changes /\ changes \in Nat
  BY DEF SessionEnds, IInv
<1>2. /\ Session' = "anonymous" /\ "anonymous" \in Anyone
      /\ Mine' = ReadAs("anonymous", FALSE)
  BY <1>1 DEF Session, Anyone, Mine
<1>3. "anonymous" \in page.of.roles => ~Guarded(page.of)
  BY DEF Guarded, Roles
<1>4. Fits(page', load', "anonymous", ReadAs("anonymous", FALSE))
  BY <1>1, <1>2, <1>3, BecomesFits
<1> QED BY <1>1, <1>2, <1>4 DEF IInv

(* The page keeps its own account among those it may be read as.            *)
LEMMA OtherTabFits == IInv /\ OtherTabSignsIn => IInv'
<1> SUFFICES ASSUME IInv, OtherTabSignsIn PROVE IInv'
  OBVIOUS
<1>1. /\ stored' = stored /\ checking' = checking /\ changes' = changes /\ another' = TRUE
      /\ page' = page /\ load' = load
  BY DEF OtherTabSignsIn
<1>2. Session' = Session /\ Mine \subseteq Mine'
  BY <1>1 DEF Session, Mine, ReadAs
<1>3. Fits(page', load', Session', Mine')
  BY <1>1, <1>2 DEF IInv, Fits
<1> QED BY <1>1, <1>3 DEF IInv

-----------------------------------------------------------------------------
(* Another page is opened.                                                  *)

LEMMA OpenFits == \A d \in WebRoutes : IInv /\ Open(d) => IInv'
<1> SUFFICES ASSUME NEW d \in WebRoutes, IInv, Open(d) PROVE IInv'
  OBVIOUS
<1>1. /\ stored' \in Roles \cup {"anonymous"} /\ checking' \in BOOLEAN
      /\ another' = FALSE /\ changes' = changes /\ changes \in Nat
      /\ Mount(Placed(d, Session', AccountPage, "typed"), Session', FALSE)
  <2>1. stored' \in Roles \cup {"anonymous"}
    BY DEF Open, IInv
  <2>2. checking' = (stored' \in Roles) /\ another' = FALSE
    BY DEF Open
  <2>3. checking' \in BOOLEAN
    BY <2>2
  <2>4. /\ changes' = changes /\ changes \in Nat
        /\ Mount(Placed(d, Session', AccountPage, "typed"), Session', FALSE)
    BY DEF Open, IInv
  <2> QED BY <2>1, <2>2, <2>3, <2>4
<1>2. Session' \in Anyone /\ Mine' = ReadAs(Session', FALSE)
  BY <1>1 DEF Session, Anyone, Mine
<1>3. d \in Routes /\ AccountPage \in Routes /\ "typed" \in Vias
  BY DEF Routes, WebRoutes, Vias
<1>4. Fits(page', load', Session', ReadAs(Session', FALSE))
  BY <1>1, <1>2, <1>3, MountFits
<1> QED BY <1>1, <1>2, <1>4 DEF IInv

LEMMA FollowFits == \A d \in WebRoutes : IInv /\ Follow(d) => IInv'
<1> SUFFICES ASSUME NEW d \in WebRoutes, IInv, Follow(d) PROVE IInv'
  OBVIOUS
<1>1. /\ stored' = stored /\ another' = another /\ checking' = checking /\ changes' = changes
      /\ stored \in Roles \cup {"anonymous"} /\ another \in BOOLEAN
      /\ checking \in BOOLEAN /\ changes \in Nat
      /\ Mount(Placed(d, Session, AccountPage, "link"), Session, another)
  BY DEF Follow, IInv
<1>2. Session' = Session /\ Session \in Anyone /\ Mine' = Mine
  BY <1>1 DEF Session, Anyone, Mine
<1>3. d \in Routes /\ AccountPage \in Routes /\ "link" \in Vias
  BY DEF Routes, WebRoutes, Vias
<1>4. Fits(page', load', Session, Mine)
  BY <1>1, <1>2, <1>3, MountFits DEF Mine
<1> QED BY <1>1, <1>2, <1>4 DEF IInv

-----------------------------------------------------------------------------
(* The other steps leave the session alone.                                 *)

Settled == stored' = stored /\ another' = another /\ checking' = checking

LEMMA SameSession ==
  ASSUME IInv, Settled, changes' \in Nat, Fits(page', load', Session, Mine)
  PROVE  IInv'
<1>1. Session' = Session /\ Mine' = Mine
  BY DEF Settled, Session, Mine
<1> QED BY <1>1 DEF IInv, Settled

(* What stops the loads before only takes requests away or breaks them off. *)
LEMMA StoppedFits ==
  ASSUME IInv, NEW how \in {"nothing", "ignore", "abort"}, NEW left \in Stopped(how)
  PROVE  /\ left \in [Ids -> Load \cup {Free}]
         /\ \A i \in Ids : left[i] # Free =>
              /\ load[i] # Free
              /\ left[i].by = load[i].by /\ left[i].why = load[i].why /\ left[i].at = load[i].at
              /\ how # "nothing" => left[i].state = "torn" \/ left[i].why = "toggle"
<1>1. load \in [Ids -> Load \cup {Free}]
  BY DEF IInv, Fits
<1>2. CASE how = "nothing"
  BY <1>1, <1>2 DEF Stopped
<1>3. CASE how = "ignore"
  BY <1>1, <1>3 DEF Stopped
<1>4. CASE how = "abort"
  <2>1. PICK arriving \in SUBSET {i \in Live : load[i].state \in {"ok", "torn"}} :
          left = [i \in Ids |-> IF load[i] = Free THEN Free
                                ELSE IF load[i].why = "toggle" THEN load[i]
                                ELSE IF i \in arriving THEN [load[i] EXCEPT !.state = "torn"]
                                ELSE Free]
    BY <1>4 DEF Stopped
  <2>2. \A i \in Ids : load[i] # Free =>
          /\ [load[i] EXCEPT !.state = "torn"] \in Load
          /\ [load[i] EXCEPT !.state = "torn"].by = load[i].by
          /\ [load[i] EXCEPT !.state = "torn"].why = load[i].why
          /\ [load[i] EXCEPT !.state = "torn"].at = load[i].at
          /\ [load[i] EXCEPT !.state = "torn"].state = "torn"
    BY <1>1 DEF Load
  <2> QED BY <1>1, <2>1, <2>2
<1> QED BY <1>2, <1>3, <1>4

LEMMA AskFits ==
  ASSUME IInv, NEW i \in Ids, NEW why \in {"subject", "focus", "again"},
         NEW s \in Subjects, Mounted, Ask(i, why, s)
  PROVE  Fits(page', load', Session, Mine)
<1>1. /\ Fits(page, load, Session, Mine) /\ changes \in Nat
      /\ Session \in Anyone /\ Mine \subseteq Accounts
  BY ReadersKnown DEF IInv, Session, Anyone, Mine
<1>2. page \in OpenPage /\ page.of \in Routes /\ page.view \notin {"closed", "crashed"}
  BY <1>1 DEF Fits, OpenPage, Mounted
<1>3. WellMade(page.of)
  BY <1>2, WebRoutesMade, ScreensMade DEF Routes
<1> DEFINE how == IF why = "subject" THEN page.of.stops ELSE "nothing"
           view == IF why \in page.of.blanks THEN "loading" ELSE page.view
           shown == IF why \in page.of.blanks THEN Unloaded ELSE page.shown
           pending == page.pending \/ (why = "again" /\ why \notin page.of.blanks)
           jumped == page.jumped \/ (why = "subject" /\ why \notin page.of.blanks)
<1>4. how \in {"nothing", "ignore", "abort"}
  BY <1>3 DEF WellMade
<1>5. PICK left \in Stopped(how), reader \in Mine :
        /\ load' = [left EXCEPT ![i] = Request(why, s, reader)]
        /\ page' = [page EXCEPT !.subject = s, !.asked = changes, !.view = view,
                      !.shown = shown, !.pending = pending, !.jumped = jumped]
  BY DEF Ask, Mine
<1>6. /\ left \in [Ids -> Load \cup {Free}]
      /\ \A j \in Ids : left[j] # Free => load[j] # Free /\ left[j].by = load[j].by
  BY <1>4, <1>5, StoppedFits
<1>7. /\ view \in Views \ {"closed", "crashed"} /\ shown \in Data \cup {Unloaded}
      /\ shown # Unloaded => shown = page.shown
      /\ pending \in BOOLEAN /\ jumped \in BOOLEAN
  BY <1>2 DEF OpenPage, Views
<1> HIDE DEF how, view, shown, pending, jumped
<1>8. /\ page' \in OpenPage /\ page'.of = page.of /\ page'.view = view /\ page'.shown = shown
  BY <1>1, <1>2, <1>5, <1>7 DEF OpenPage
<1>9. Request(why, s, reader) \in Load /\ Request(why, s, reader).by = reader
  BY <1>1 DEF Request, Load
<1>10. /\ load' \in [Ids -> Load \cup {Free}]
       /\ \A j \in Ids : load'[j] = IF j = i THEN Request(why, s, reader) ELSE left[j]
  BY <1>5, <1>6, <1>9
<1>11. page'.view \notin {"closed", "crashed"} /\ Session \in page'.of.roles
  BY <1>1, <1>2, <1>7, <1>8 DEF Fits
<1>12. Guarded(page'.of) =>
         /\ page'.shown # Unloaded => page'.shown.by \in Mine
         /\ \A j \in Ids : load'[j] # Free => load'[j].by \in Mine
  BY <1>1, <1>6, <1>7, <1>8, <1>9, <1>10 DEF Fits
<1> QED BY <1>8, <1>10, <1>11, <1>12 DEF Fits

(* The three events that start a load.                                      *)
LEMMA LoadsFit == \A i \in Ids : IInv /\ (Change(i) \/ Focus(i) \/ Again(i)) => IInv'
<1> SUFFICES ASSUME NEW i \in Ids, IInv, Change(i) \/ Focus(i) \/ Again(i) PROVE IInv'
  OBVIOUS
<1>1. Settled /\ changes' \in Nat /\ Mounted
  BY DEF Change, Focus, Again, Settled, IInv
<1>2. page.subject \in Subjects /\ Offered \subseteq Subjects
  BY DEF IInv, Fits, OpenPage, Offered
<1>3. \E why \in {"subject", "focus", "again"}, s \in Subjects : Ask(i, why, s)
  BY <1>2 DEF Change, Focus, Again
<1>4. Fits(page', load', Session, Mine)
  BY <1>1, <1>3, AskFits
<1> QED BY <1>1, <1>4, SameSession

LEMMA ToggleFits == \A i \in Ids : IInv /\ ToggleActive(i) => IInv'
<1> SUFFICES ASSUME NEW i \in Ids, IInv, ToggleActive(i) PROVE IInv'
  OBVIOUS
<1>1. Settled /\ changes' \in Nat /\ page.view = "ready"
  BY DEF ToggleActive, Settled, IInv
<1>2. Fits(page, load, Session, Mine) /\ Session \in Anyone /\ Mine \subseteq Accounts
  BY ReadersKnown DEF IInv, Session, Anyone, Mine
<1>3. PICK reader \in Mine :
        /\ page' = [page EXCEPT !.pending = TRUE]
        /\ load' = [load EXCEPT ![i] = Request("toggle", page.subject, reader)]
  BY DEF ToggleActive, Mine
<1>4. /\ page' \in OpenPage /\ page'.of = page.of /\ page'.view = page.view
      /\ page'.shown = page.shown
  BY <1>2, <1>3 DEF Fits, OpenPage
<1>5. /\ Request("toggle", page.subject, reader) \in Load
      /\ Request("toggle", page.subject, reader).by = reader
  BY <1>2 DEF Request, Load, Fits, OpenPage
<1>6. /\ load' \in [Ids -> Load \cup {Free}]
      /\ \A j \in Ids : load'[j] = IF j = i THEN Request("toggle", page.subject, reader)
                                   ELSE load[j]
  BY <1>2, <1>3, <1>5 DEF Fits
<1>7. Fits(page', load', Session, Mine)
  BY <1>1, <1>2, <1>4, <1>5, <1>6 DEF Fits
<1> QED BY <1>1, <1>7, SameSession

-----------------------------------------------------------------------------
(* Answers.                                                                 *)

(* An answered request was read as whom it was sent, or as one of those it  *)
(* may be retried as.                                                       *)
LEMMA AnsweredFits ==
  ASSUME IInv, NEW i \in Ids, load[i] # Free, page' = page,
         NEW k \in Load, k.by \in {load[i].by} \cup Mine, load' = [load EXCEPT ![i] = k]
  PROVE  Fits(page', load', Session, Mine)
<1>1. Fits(page, load, Session, Mine)
  BY DEF IInv
<1>2. /\ load' \in [Ids -> Load \cup {Free}]
      /\ \A j \in Ids : load'[j] = IF j = i THEN k ELSE load[j]
  BY <1>1 DEF Fits
<1> QED BY <1>1, <1>2 DEF Fits

LEMMA ServeBreakFit == \A i \in Ids : IInv /\ (Serve(i) \/ Break(i)) => IInv'
<1> SUFFICES ASSUME NEW i \in Ids, IInv, Serve(i) \/ Break(i) PROVE IInv'
  OBVIOUS
<1>1. Settled /\ changes' \in Nat /\ changes \in Nat /\ page' = page /\ load[i] # Free
  BY DEF Serve, Break, Settled, IInv
<1>2. load[i] \in Load /\ load \in [Ids -> Load \cup {Free}]
  BY <1>1 DEF IInv, Fits
<1> DEFINE served(reader) == [load[i] EXCEPT !.state = "ok", !.at = changes, !.by = reader]
           ended(state) == [load[i] EXCEPT !.state = state]
<1>3. \A reader \in {load[i].by} \cup Mine :
        served(reader) \in Load /\ served(reader).by = reader
  <2>1. Mine \subseteq Accounts
    BY ReadersKnown DEF IInv, Session, Anyone, Mine
  <2> QED BY <1>1, <1>2, <2>1 DEF Load
<1>4. \A state \in {"absent", "failed", "torn"} :
        ended(state) \in Load /\ ended(state).by = load[i].by
  BY <1>2 DEF Load
<1>5. \/ \E reader \in {load[i].by} \cup Mine : load' = [load EXCEPT ![i] = served(reader)]
      \/ \E state \in {"absent", "failed", "torn"} : load' = [load EXCEPT ![i] = ended(state)]
  <2>1. CASE Serve(i)
    <3>1. ASSUME NEW reader \in {load[i].by} \cup Mine,
                 load' = [load EXCEPT ![i].state = "ok", ![i].at = changes, ![i].by = reader]
          PROVE  load' = [load EXCEPT ![i] = served(reader)]
      BY <1>2, <3>1
    <3>2. CASE load' = [load EXCEPT ![i].state = "absent"]
      BY <1>2, <3>2
    <3> QED BY <2>1, <3>1, <3>2 DEF Serve, Mine
  <2>2. CASE Break(i)
    BY <1>2, <2>2 DEF Break
  <2> QED BY <2>1, <2>2
<1> HIDE DEF served, ended
<1>6. \E k \in Load : k.by \in {load[i].by} \cup Mine /\ load' = [load EXCEPT ![i] = k]
  BY <1>3, <1>4, <1>5
<1>7. Fits(page', load', Session, Mine)
  BY <1>1, <1>6, AnsweredFits
<1> QED BY <1>1, <1>7, SameSession

LEMMA SettleFits == \A i \in Ids : IInv /\ Settle(i) => IInv'
<1> SUFFICES ASSUME NEW i \in Ids, IInv, Settle(i) PROVE IInv'
  OBVIOUS
<1>1. Settled /\ changes' \in Nat /\ load[i] # Free /\ load[i].state # "sent"
  BY DEF Settle, Settled, IInv
<1>2. Fits(page, load, Session, Mine)
  BY DEF IInv
<1>3. page \in OpenPage /\ load \in [Ids -> Load \cup {Free}] /\ load[i] \in Load
  BY <1>1, <1>2 DEF Fits
<1>4. WellMade(page.of)
  BY <1>3, WebRoutesMade, ScreensMade DEF OpenPage, Routes
<1> DEFINE view == Outcome(load[i])
           data == [subject |-> load[i].subject, at |-> load[i].at, by |-> load[i].by]
           shown == IF view = "ready" THEN data ELSE Unloaded
           pending == page.pending /\ load[i].why # "again"
<1>5. view \in {"ready", "missing", "failed", "crashed"}
  <2>1. CASE load[i].state = "ok"
    BY <2>1 DEF Outcome
  <2>2. CASE load[i].state = "absent"
    BY <2>2, <1>4 DEF Outcome, WellMade
  <2>3. CASE load[i].state = "torn"
    BY <2>3, <1>4 DEF Outcome, WellMade
  <2>4. CASE load[i].state \notin {"ok", "absent", "torn"}
    BY <2>4 DEF Outcome
  <2> QED BY <2>1, <2>2, <2>3, <2>4
<1>6. /\ page' = [page EXCEPT !.view = view, !.shown = shown, !.pending = pending]
      /\ load' = IF view = "crashed" THEN [j \in Ids |-> Free] ELSE [load EXCEPT ![i] = Free]
  BY DEF Settle
<1>7. data \in Data /\ data.by = load[i].by
  BY <1>3 DEF Data, Load
<1>8. /\ shown \in Data \cup {Unloaded} /\ pending \in BOOLEAN
      /\ shown # Unloaded => view = "ready" /\ shown.by = load[i].by
  BY <1>3, <1>7 DEF OpenPage
<1> HIDE DEF view, shown, pending
<1>9. /\ page' \in OpenPage /\ page'.of = page.of /\ page'.view = view /\ page'.shown = shown
  BY <1>3, <1>5, <1>6, <1>8 DEF OpenPage, Views
<1>10. /\ load' \in [Ids -> Load \cup {Free}]
       /\ \A j \in Ids : load'[j] = Free \/ load'[j] = load[j]
       /\ view = "crashed" => \A j \in Ids : load'[j] = Free
  BY <1>3, <1>6
<1>11. page.view \notin {"closed", "crashed"} /\ Session \in page.of.roles
  BY <1>1, <1>2 DEF Fits
<1>12. Guarded(page'.of) =>
         /\ page'.shown # Unloaded => page'.shown.by \in Mine
         /\ \A j \in Ids : load'[j] # Free => load'[j].by \in Mine
  BY <1>1, <1>2, <1>8, <1>9, <1>10 DEF Fits
<1>13. page'.view \in {"closed", "crashed"} =>
         page'.shown = Unloaded /\ \A j \in Ids : load'[j] = Free
  BY <1>5, <1>8, <1>9, <1>10
<1>14. Fits(page', load', Session, Mine)
  BY <1>9, <1>10, <1>11, <1>12, <1>13 DEF Fits
<1> QED BY <1>1, <1>14, SameSession

LEMMA ToggledFits == \A i \in Ids : IInv /\ Toggled(i) => IInv'
<1> SUFFICES ASSUME NEW i \in Ids, IInv, Toggled(i) PROVE IInv'
  OBVIOUS
<1>1. Settled /\ changes' \in Nat /\ load[i] # Free /\ load' = [load EXCEPT ![i] = Free]
  BY DEF Toggled, Settled, IInv
<1>2. Fits(page, load, Session, Mine)
  BY DEF IInv
<1>3. page \in OpenPage /\ load \in [Ids -> Load \cup {Free}] /\ load[i] \in Load
  BY <1>1, <1>2 DEF Fits
<1>4. page.view \notin {"closed", "crashed"} /\ Session \in page.of.roles
  BY <1>1, <1>2 DEF Fits
<1> DEFINE data == [subject |-> load[i].subject, at |-> load[i].at, by |-> load[i].by]
<1>5. data \in Data /\ data.by = load[i].by
  BY <1>3 DEF Data, Load
<1> HIDE DEF data
<1>6. /\ page' \in OpenPage /\ page'.of = page.of
      /\ page'.view \in {page.view, "failed"}
      /\ page'.shown \in {page.shown, data, Unloaded}
  <2>1. \/ page' = [page EXCEPT !.pending = FALSE, !.shown = data]
        \/ page' = [page EXCEPT !.pending = FALSE, !.view = "failed", !.shown = Unloaded]
        \/ page' = [page EXCEPT !.pending = FALSE]
    BY DEF Toggled, data
  <2>2. CASE page' = [page EXCEPT !.pending = FALSE, !.shown = data]
    BY <1>3, <1>5, <2>2 DEF OpenPage
  <2>3. CASE page' = [page EXCEPT !.pending = FALSE, !.view = "failed", !.shown = Unloaded]
    BY <1>3, <2>3 DEF OpenPage, Views
  <2>4. CASE page' = [page EXCEPT !.pending = FALSE]
    BY <1>3, <2>4 DEF OpenPage
  <2> QED BY <2>1, <2>2, <2>3, <2>4
<1>7. /\ load' \in [Ids -> Load \cup {Free}]
      /\ \A j \in Ids : load'[j] = Free \/ load'[j] = load[j]
  BY <1>1, <1>3
<1>8. Guarded(page'.of) =>
        /\ page'.shown # Unloaded => page'.shown.by \in Mine
        /\ \A j \in Ids : load'[j] # Free => load'[j].by \in Mine
  BY <1>1, <1>2, <1>5, <1>6, <1>7 DEF Fits
<1>9. Fits(page', load', Session, Mine)
  BY <1>4, <1>6, <1>7, <1>8 DEF Fits
<1> QED BY <1>1, <1>9, SameSession

LEMMA ElsewhereFits == IInv /\ Elsewhere => IInv'
<1> SUFFICES ASSUME IInv, Elsewhere PROVE IInv'
  OBVIOUS
<1>1. /\ Settled /\ changes' \in Nat /\ page' = page /\ load' = load
  BY DEF Elsewhere, Settled, IInv
<1>2. Fits(page', load', Session, Mine)
  BY <1>1 DEF IInv
<1> QED BY <1>1, <1>2, SameSession

LEMMA StutterFits == IInv /\ UNCHANGED vars => IInv'
<1> SUFFICES ASSUME IInv, UNCHANGED vars PROVE IInv'
  OBVIOUS
<1>1. Settled /\ changes' \in Nat /\ page' = page /\ load' = load
  BY DEF vars, Settled, IInv
<1>2. Fits(page', load', Session, Mine)
  BY <1>1 DEF IInv
<1> QED BY <1>1, <1>2, SameSession

-----------------------------------------------------------------------------

LEMMA NextIInv == IInv /\ [Next]_vars => IInv'
<1> SUFFICES ASSUME IInv, [Next]_vars PROVE IInv'
  OBVIOUS
<1>1. CASE Resolve \/ ResolveBroken \/ SignIn \/ SessionEnds \/ OtherTabSignsIn \/ Elsewhere
  BY <1>1, ResolveFits, BrokenFits, SignInFits, SessionEndsFits, OtherTabFits, ElsewhereFits
<1>2. CASE \E d \in WebRoutes : Open(d) \/ Follow(d)
  BY <1>2, OpenFits, FollowFits
<1>3. ASSUME NEW i \in Ids, Change(i) \/ Focus(i) \/ Again(i)
      PROVE  IInv'
  BY <1>3, LoadsFit
<1>4. ASSUME NEW i \in Ids, ToggleActive(i) \/ Answer(i)
      PROVE  IInv'
  BY <1>4, ToggleFits, ServeBreakFit, SettleFits, ToggledFits DEF Answer
<1>5. CASE UNCHANGED vars
  BY <1>5, StutterFits
<1> QED BY <1>1, <1>2, <1>3, <1>4, <1>5 DEF Next

(* What is open fits the session, after any navigation, login, logout,      *)
(* expiry, and whatever answers arrive in whatever order.  The requests     *)
(* behind a guard are the session's, or, once another tab has signed        *)
(* another account in, that account's.                                      *)
THEOREM PagesInvariant == Spec => []IInv
<1>1. Init => IInv
  BY InitIInv
<1>2. IInv /\ [Next]_vars => IInv'
  BY NextIInv
<1> QED BY <1>1, <1>2, PTL DEF Spec

(* A page behind a guard shows only what was loaded for the account that is *)
(* signed in, or for the one another tab has signed in since, for any       *)
(* number of subjects, changes, acts and loads at once.  Where the tokens   *)
(* were not replaced under it, nobody else's data is shown.                 *)
THEOREM ShownToReader == Spec => []ShownToItsReader
<1>1. IInv => ShownToItsReader
  BY DEF IInv, Fits, Guarded, ShownToItsReader, Mine
<1> QED BY <1>1, PagesInvariant, PTL

(* Nothing of a session stays behind a guard that the reader may not pass:  *)
(* when the session ends or another begins, a page that is not theirs goes  *)
(* and its requests with it (ProtectedRoute, RootNavigator).                *)
THEOREM GuardHolds ==
  Spec => [](page.view \notin {"closed", "crashed"} => Session \in page.of.roles)
<1>1. IInv => (page.view \notin {"closed", "crashed"} => Session \in page.of.roles)
  BY DEF IInv, Fits
<1> QED BY <1>1, PagesInvariant, PTL

-----------------------------------------------------------------------------
(* What is shown is what was asked for.                                     *)

(* The pages outside Overlapping that ask again about the same subject.     *)
Reasking == {PlayerProfilePage, OwnerProfilePage, TurfListScreen}

(* ShownIsAsked speaks of what is shown; this of what is on its way, too.   *)
(* An answer that still may be shown is about the subject of the page and   *)
(* as recent as the last request; a page that asks again waits for one      *)
(* answer at a time; and a page that waits for a toggle shows what it asked *)
(* for before.                                                              *)
AskedFor(pg, ld, ch) ==
  /\ pg.asked <= ch
  /\ pg.of \in Reasking =>
       \A i, j \in Ids : ld[i] # Free /\ ld[j] # Free =>
                         i = j /\ (pg.view = "loading" \/ pg.pending)
  /\ \A i \in Ids : ld[i] # Free /\ ld[i].why = "toggle" => pg.of = AdminUserDetailPage
  /\ pg.of \notin Overlapping /\ ~pg.jumped =>
       /\ \A i \in Ids : ld[i] # Free /\ ld[i].state # "torn" =>
            ld[i].subject = pg.subject /\ (ld[i].state = "ok" => ld[i].at >= pg.asked)
       /\ pg.shown # Unloaded =>
            /\ pg.shown.subject = pg.subject
            /\ (\A i \in Ids : ld[i] # Free => ld[i].why = "toggle") => pg.shown.at >= pg.asked

(* Which pages start which loads.                                           *)
Orderly(d) ==
  /\ "subject" \in d.starts => d.stops # "nothing"
  /\ "focus" \in d.starts => d \in Overlapping
  /\ d.again # {} => d \in Overlapping \cup Reasking

LEMMA QuietMade ==
  ASSUME NEW path, NEW roles, NEW leads
  PROVE  Orderly(Route(path, roles, leads)) /\ Orderly(Reader(path, roles, leads))
  BY DEF Route, Reader, Orderly

LEMMA RoutesOrderly == \A d \in Routes : Orderly(d)
<1>1. Orderly(StatusPage) /\ Orderly(PublicPlayerPage) /\ Orderly(PublicTurfDetailPage)
  BY DEF StatusPage, PublicPlayerPage, PublicTurfDetailPage, Reader, Route, Orderly, Overlapping
<1>2. Orderly(AvailableSlotsList) /\ Orderly(PlayerProfilePage) /\ Orderly(OwnerProfilePage)
  BY DEF AvailableSlotsList, PlayerProfilePage, OwnerProfilePage, Reader, Route, Orderly, Reasking
<1>3. Orderly(OwnerTurfListPage) /\ Orderly(AdminUsersPage) /\ Orderly(AdminUserDetailPage)
  BY DEF OwnerTurfListPage, AdminUsersPage, AdminUserDetailPage, Reader, Route, Orderly
<1>4. /\ Orderly(HomePage) /\ Orderly(NotFoundPage) /\ Orderly(LoginPage)
      /\ Orderly(RegisterPage) /\ Orderly(PublicTurfListPage) /\ Orderly(AccountPage)
  BY QuietMade DEF HomePage, NotFoundPage, LoginPage, RegisterPage, PublicTurfListPage, AccountPage
<1>5. /\ Orderly(PlayerProfileEditPage) /\ Orderly(OwnerProfileEditPage)
      /\ Orderly(OwnerTurfCreatePage) /\ Orderly(OwnerTurfEditPage)
      /\ Orderly(OwnerTurfAvailabilityPage)
  BY QuietMade DEF PlayerProfileEditPage, OwnerProfileEditPage, OwnerTurfCreatePage,
     OwnerTurfEditPage, OwnerTurfAvailabilityPage
<1>6. /\ Orderly(AdminDashboardPage) /\ Orderly(AdminPendingTurfsPage)
      /\ Orderly(AdminTurfReviewPage)
  BY QuietMade DEF AdminDashboardPage, AdminPendingTurfsPage, AdminTurfReviewPage
<1>7. Orderly(LoginScreen) /\ Orderly(TurfDetailScreen) /\ Orderly(HomeScreen) /\ Orderly(NotAvailableScreen)
  BY DEF LoginScreen, TurfDetailScreen, HomeScreen, NotAvailableScreen, Screen, Reader, Route, Orderly
<1>8. Orderly(PlayerProfileScreen) /\ Orderly(OwnerProfileScreen)
  BY DEF PlayerProfileScreen, OwnerProfileScreen, Screen, Reader, Route, Orderly, Overlapping
<1>9. Orderly(OwnerTurfListScreen) /\ Orderly(TurfListScreen)
  BY DEF OwnerTurfListScreen, TurfListScreen, Screen, Reader, Route, Orderly, Overlapping, Reasking
<1> QED BY <1>1, <1>2, <1>3, <1>4, <1>5, <1>6, <1>7, <1>8, <1>9 DEF Routes, WebRoutes, Screens

(* The pages that ask again do so about one subject and not while they      *)
(* load; AdminUserDetailPage is none of them and never blanks.              *)
LEMMA ReaskingFacts ==
  /\ \A d \in Reasking : "subject" \notin d.starts /\ "focus" \notin d.starts /\ "loading" \notin d.again
  /\ "subject" \in AdminUserDetailPage.starts /\ AdminUserDetailPage.blanks = {}
<1>1. /\ "subject" \notin PlayerProfilePage.starts /\ "focus" \notin PlayerProfilePage.starts
      /\ "loading" \notin PlayerProfilePage.again
  BY DEF PlayerProfilePage, Reader, Route
<1>2. /\ "subject" \notin OwnerProfilePage.starts /\ "focus" \notin OwnerProfilePage.starts
      /\ "loading" \notin OwnerProfilePage.again
  BY DEF OwnerProfilePage, Reader, Route
<1>3. /\ "subject" \notin TurfListScreen.starts /\ "focus" \notin TurfListScreen.starts
      /\ "loading" \notin TurfListScreen.again
  BY DEF TurfListScreen, Screen, Reader, Route
<1>4. "subject" \in AdminUserDetailPage.starts /\ AdminUserDetailPage.blanks = {}
  BY DEF AdminUserDetailPage, Reader, Route
<1> QED BY <1>1, <1>2, <1>3, <1>4 DEF Reasking

(* A page just mounted.                                                     *)
LEMMA FreshAsked ==
  ASSUME changes \in Nat, NEW d, NEW from, NEW via, NEW session, NEW reader
  PROVE  LET pg == Fresh(d, session, from, via) IN AskedFor(pg, Mounting(pg, reader), changes)
<1> DEFINE pg == Fresh(d, session, from, via)
<1>1. pg.asked = changes /\ pg.shown = Unloaded
  BY DEF Fresh
<1>2. ASSUME NEW i \in Ids, Mounting(pg, reader)[i] # Free
      PROVE  /\ i = 1 /\ pg.view = "loading"
             /\ Mounting(pg, reader)[i] = Request("mount", pg.subject, reader)
  BY <1>2 DEF Mounting
<1>3. LET k == Request("mount", pg.subject, reader) IN
        k.why = "mount" /\ k.state = "sent" /\ k.subject = pg.subject
  BY DEF Request
<1> HIDE DEF pg
<1>4. AskedFor(pg, Mounting(pg, reader), changes)
  BY <1>1, <1>2, <1>3 DEF AskedFor
<1> QED BY <1>4 DEF pg

LEMMA PlacedIsFresh ==
  ASSUME NEW d, NEW from, NEW via, NEW session
  PROVE  \E d2, from2, via2 : Placed(d, session, from, via) = Fresh(d2, session, from2, via2)
  BY DEF Placed

LEMMA MountAsked ==
  ASSUME changes \in Nat, NEW d, NEW from, NEW via, NEW session, NEW other,
         \/ Mount(Placed(d, session, from, via), session, other)
         \/ Mount(Fresh(d, session, from, via), session, other)
  PROVE  AskedFor(page', load', changes)
<1>1. PICK d2, from2, via2 : Mount(Fresh(d2, session, from2, via2), session, other)
  BY PlacedIsFresh
<1>2. PICK reader : LET pg == Fresh(d2, session, from2, via2) IN
                    page' = pg /\ load' = Mounting(pg, reader)
  BY <1>1 DEF Mount, Mounting
<1> QED BY <1>2, FreshAsked

LEMMA BecomesAsked ==
  ASSUME changes \in Nat, AskedFor(page, load, changes), NEW session, NEW other,
         Becomes(session, other)
  PROVE  AskedFor(page', load', changes)
<1>1. CASE UNCHANGED <<page, load>>
  BY <1>1
<1>2. CASE ~UNCHANGED <<page, load>>
  BY <1>2, MountAsked DEF Becomes
<1> QED BY <1>1, <1>2

(* A page that crashes while it is closed has nothing under way.            *)
LEMMA BrokenAsked ==
  ASSUME IInv, AskedFor(page, load, changes), ResolveBroken
  PROVE  AskedFor(page', load', changes)
<1>1. page.view = "closed" /\ page' = [page EXCEPT !.view = "crashed"] /\ load' = load
  BY DEF ResolveBroken
<1>2. page \in OpenPage /\ page.shown = Unloaded /\ \A i \in Ids : load[i] = Free
  BY <1>1 DEF IInv, Fits
<1>3. page'.of = page.of /\ page'.asked = page.asked /\ page'.shown = Unloaded
  BY <1>1, <1>2 DEF OpenPage
<1> QED BY <1>1, <1>2, <1>3 DEF AskedFor

LEMMA AskAsked ==
  ASSUME IInv, AskedFor(page, load, changes), NEW i \in Ids,
         NEW why \in {"subject", "focus", "again"}, NEW s \in Subjects, Mounted, Ask(i, why, s),
         why = "again" => page.view \in page.of.again /\ ~page.pending,
         why # "again" => why \in page.of.starts,
         why # "subject" => s = page.subject
  PROVE  AskedFor(page', load', changes)
<1>1. Fits(page, load, Session, Mine) /\ changes \in Nat
  BY DEF IInv
<1>2. page \in OpenPage /\ page.of \in Routes /\ load \in [Ids -> Load \cup {Free}]
  BY <1>1 DEF Fits, OpenPage
<1>3. WellMade(page.of) /\ Orderly(page.of)
  BY <1>2, WebRoutesMade, ScreensMade, RoutesOrderly DEF Routes
<1> DEFINE how == IF why = "subject" THEN page.of.stops ELSE "nothing"
           view == IF why \in page.of.blanks THEN "loading" ELSE page.view
           shown == IF why \in page.of.blanks THEN Unloaded ELSE page.shown
           pending == page.pending \/ (why = "again" /\ why \notin page.of.blanks)
           jumped == page.jumped \/ (why = "subject" /\ why \notin page.of.blanks)
<1>4. how \in {"nothing", "ignore", "abort"} /\ (why = "subject" => how # "nothing")
  BY <1>3 DEF WellMade, Orderly
<1>5. PICK left \in Stopped(how), reader \in Mine :
        /\ left[i] = Free
        /\ load' = [left EXCEPT ![i] = Request(why, s, reader)]
        /\ page' = [page EXCEPT !.subject = s, !.asked = changes, !.view = view,
                      !.shown = shown, !.pending = pending, !.jumped = jumped]
  BY DEF Ask, Mine
<1>6. /\ left \in [Ids -> Load \cup {Free}]
      /\ \A j \in Ids : left[j] # Free =>
           /\ load[j] # Free /\ left[j].why = load[j].why
           /\ how # "nothing" => left[j].state = "torn" \/ left[j].why = "toggle"
  BY <1>4, <1>5, StoppedFits
<1>7. /\ page'.of = page.of /\ page'.subject = s /\ page'.asked = changes /\ page'.view = view
      /\ page'.shown = shown /\ page'.pending = pending /\ page'.jumped = jumped
  BY <1>2, <1>5 DEF OpenPage
<1>8. \A j \in Ids : load'[j] = IF j = i THEN Request(why, s, reader) ELSE left[j]
  BY <1>5, <1>6
<1>9. LET k == Request(why, s, reader) IN k.why = why /\ k.state = "sent" /\ k.subject = s
  BY DEF Request
<1>10. page.of \in Reasking => why = "again"
  BY ReaskingFacts
<1>11. why = "again" /\ page.of \notin Overlapping =>
         page.of \in Reasking /\ \A j \in Ids : load[j] = Free
  <2> SUFFICES ASSUME why = "again", page.of \notin Overlapping
               PROVE  page.of \in Reasking /\ \A j \in Ids : load[j] = Free
    OBVIOUS
  <2>1. page.of \in Reasking
    BY <1>3 DEF Orderly
  <2>2. page.view # "loading" /\ ~page.pending
    BY <2>1, ReaskingFacts
  <2> QED BY <2>1, <2>2 DEF AskedFor
<1>12. \A j \in Ids : load'[j] # Free /\ load'[j].why = "toggle" => page'.of = AdminUserDetailPage
  BY <1>6, <1>7, <1>8, <1>9 DEF AskedFor
<1>13. page'.of \in Reasking =>
         \A j, m \in Ids : load'[j] # Free /\ load'[m] # Free =>
                            j = m /\ (page'.view = "loading" \/ page'.pending)
  <2> SUFFICES ASSUME page.of \in Reasking, NEW j \in Ids, load'[j] # Free
               PROVE  j = i /\ (page'.view = "loading" \/ page'.pending)
    BY <1>7
  <2>1. why = "again" /\ page.view # "loading" /\ ~page.pending
    BY <1>10, ReaskingFacts
  <2>2. load[j] = Free
    BY <2>1 DEF AskedFor
  <2>3. j = i
    BY <2>2, <1>6, <1>8
  <2>4. view = "loading" \/ pending
    BY <2>1
  <2> QED BY <2>3, <2>4, <1>7
<1>14. ASSUME page'.of \notin Overlapping, ~page'.jumped
       PROVE  /\ \A j \in Ids : load'[j] # Free /\ load'[j].state # "torn" =>
                   /\ load'[j].subject = page'.subject
                   /\ load'[j].state = "ok" => load'[j].at >= page'.asked
              /\ page'.shown # Unloaded =>
                   /\ page'.shown.subject = page'.subject
                   /\ (\A j \in Ids : load'[j] # Free => load'[j].why = "toggle")
                        => page'.shown.at >= page'.asked
  <2>1. CASE why = "again"
    <3>1. \A j \in Ids : load'[j] # Free => j = i
      BY <1>6, <1>7, <1>8, <1>11, <1>14, <2>1
    <3>2. load'[i] # Free /\ load'[i].why # "toggle"
      <4>1. Request(why, s, reader) \in Load
        BY ReadersKnown DEF Request, Load, Session, IInv, Anyone, Mine
      <4> QED BY <4>1, <1>8, <1>9, <2>1, FreeAssumption
    <3>3. page'.shown # Unloaded => page'.shown = page.shown /\ page'.subject = page.subject
      BY <1>7, <2>1
    <3>4. page.shown # Unloaded => page.shown.subject = page.subject
      BY <1>7, <1>14, <2>1 DEF AskedFor
    <3> QED BY <1>8, <1>9, <3>1, <3>2, <3>3, <3>4, <1>7
  <2>2. CASE why = "subject"
    <3>1. "subject" \in page.of.blanks /\ page'.shown = Unloaded
      BY <1>7, <1>14, <2>2
    <3>2. page.of # AdminUserDetailPage
      BY <3>1, ReaskingFacts
    <3>3. \A j \in Ids : j # i /\ load'[j] # Free => load'[j].state = "torn"
      BY <1>4, <1>6, <1>7, <1>8, <1>12, <2>2, <3>2
    <3> QED BY <3>1, <3>3, <1>7, <1>8, <1>9
  <2>3. CASE why = "focus"
    BY <1>3, <1>7, <1>14, <2>3 DEF Orderly
  <2> QED BY <2>1, <2>2, <2>3
<1>15. page'.asked <= changes
  BY <1>1, <1>7
<1> QED BY <1>12, <1>13, <1>14, <1>15 DEF AskedFor

LEMMA ToggleAsked ==
  ASSUME IInv, AskedFor(page, load, changes), NEW i \in Ids, ToggleActive(i)
  PROVE  AskedFor(page', load', changes)
<1>1. Fits(page, load, Session, Mine)
  BY DEF IInv
<1>2. page \in OpenPage /\ load \in [Ids -> Load \cup {Free}]
  BY <1>1 DEF Fits
<1>3. PICK reader \in Mine :
        /\ page.of = AdminUserDetailPage /\ load[i] = Free
        /\ page' = [page EXCEPT !.pending = TRUE]
        /\ load' = [load EXCEPT ![i] = Request("toggle", page.subject, reader)]
  BY DEF ToggleActive, Mine
<1>4. /\ page'.of = page.of /\ page'.subject = page.subject /\ page'.asked = page.asked
      /\ page'.view = page.view /\ page'.shown = page.shown /\ page'.jumped = page.jumped
  BY <1>2, <1>3 DEF OpenPage
<1>5. \A j \in Ids : load'[j] = IF j = i THEN Request("toggle", page.subject, reader) ELSE load[j]
  BY <1>2, <1>3
<1>6. LET k == Request("toggle", page.subject, reader) IN
        k.why = "toggle" /\ k.state = "sent" /\ k.subject = page.subject
  BY DEF Request
<1>7. page.of \notin Reasking
  BY <1>3, ReaskingFacts
<1>8. ASSUME page'.of \notin Overlapping, ~page'.jumped
      PROVE  /\ \A j \in Ids : load'[j] # Free /\ load'[j].state # "torn" =>
                  /\ load'[j].subject = page'.subject
                  /\ load'[j].state = "ok" => load'[j].at >= page'.asked
             /\ page'.shown # Unloaded =>
                  /\ page'.shown.subject = page'.subject
                  /\ (\A j \in Ids : load'[j] # Free => load'[j].why = "toggle")
                       => page'.shown.at >= page'.asked
  <2>1. (\A j \in Ids : load'[j] # Free => load'[j].why = "toggle")
          => \A j \in Ids : load[j] # Free => load[j].why = "toggle"
    BY <1>3, <1>5
  <2> QED BY <1>4, <1>5, <1>6, <1>8, <2>1 DEF AskedFor
<1>9. \A j \in Ids : load'[j] # Free /\ load'[j].why = "toggle" => page'.of = AdminUserDetailPage
  BY <1>3, <1>4
<1>10. page'.asked <= changes
  BY <1>4 DEF AskedFor
<1> QED BY <1>4, <1>7, <1>8, <1>9, <1>10 DEF AskedFor

(* One request moves on, for the same reason and about the same subject.    *)
LEMMA AnsweredAsked ==
  ASSUME IInv, AskedFor(page, load, changes), NEW i \in Ids, load[i] # Free, page' = page,
         NEW k \in Load, load' = [load EXCEPT ![i] = k], k.why = load[i].why,
         k.state # "torn" => load[i].state # "torn" /\ k.subject = load[i].subject,
         k.state = "ok" => k.at = changes
  PROVE  AskedFor(page', load', changes)
<1>1. page \in OpenPage /\ load \in [Ids -> Load \cup {Free}] /\ changes \in Nat
  BY DEF IInv, Fits
<1>2. \A j \in Ids : load'[j] = IF j = i THEN k ELSE load[j]
  BY <1>1
<1>3. k # Free
  BY FreeAssumption
<1>4. \A j \in Ids : load'[j] # Free <=> load[j] # Free
  BY <1>2, <1>3
<1>5. \A j \in Ids : load[j] # Free => load'[j].why = load[j].why
  BY <1>2
<1>6. page.asked <= changes
  BY DEF AskedFor
<1>7. page.of \in Reasking =>
        \A j, m \in Ids : load'[j] # Free /\ load'[m] # Free =>
                           j = m /\ (page.view = "loading" \/ page.pending)
  BY <1>4 DEF AskedFor
<1>8. \A j \in Ids : load'[j] # Free /\ load'[j].why = "toggle" => page.of = AdminUserDetailPage
  BY <1>4, <1>5 DEF AskedFor
<1>9. ASSUME page.of \notin Overlapping, ~page.jumped
      PROVE  /\ \A j \in Ids : load'[j] # Free /\ load'[j].state # "torn" =>
                  /\ load'[j].subject = page.subject
                  /\ load'[j].state = "ok" => load'[j].at >= page.asked
             /\ page.shown # Unloaded =>
                  /\ page.shown.subject = page.subject
                  /\ (\A j \in Ids : load'[j] # Free => load'[j].why = "toggle")
                       => page.shown.at >= page.asked
  <2>1. \A j \in Ids : load'[j] # Free /\ load'[j].state # "torn" =>
          /\ load'[j].subject = page.subject
          /\ load'[j].state = "ok" => load'[j].at >= page.asked
    <3>1. load[i].state # "torn" => load[i].subject = page.subject
      BY <1>9 DEF AskedFor
    <3>2. k.state # "torn" => k.subject = page.subject /\ (k.state = "ok" => k.at >= page.asked)
      BY <3>1, <1>1, <1>6 DEF OpenPage
    <3> QED BY <1>2, <1>9, <3>2 DEF AskedFor
  <2>2. page.shown # Unloaded =>
          /\ page.shown.subject = page.subject
          /\ (\A j \in Ids : load[j] # Free => load[j].why = "toggle")
               => page.shown.at >= page.asked
    BY <1>9 DEF AskedFor
  <2> QED BY <1>4, <1>5, <2>1, <2>2
<1> QED BY <1>6, <1>7, <1>8, <1>9 DEF AskedFor

LEMMA ServeBreakAsked ==
  ASSUME IInv, AskedFor(page, load, changes), NEW i \in Ids, Serve(i) \/ Break(i)
  PROVE  AskedFor(page', load', changes)
<1>1. page' = page /\ load[i] # Free /\ changes \in Nat
  BY DEF Serve, Break, IInv
<1>2. load[i] \in Load /\ load \in [Ids -> Load \cup {Free}]
  BY <1>1 DEF IInv, Fits
<1>3. ASSUME NEW reader \in Accounts, load[i].state = "sent",
             load' = [load EXCEPT ![i].state = "ok", ![i].at = changes, ![i].by = reader]
      PROVE  AskedFor(page', load', changes)
  <2> DEFINE k == [load[i] EXCEPT !.state = "ok", !.at = changes, !.by = reader]
  <2>1. /\ k \in Load /\ k.why = load[i].why /\ k.subject = load[i].subject /\ k.at = changes
    BY <1>1, <1>2 DEF Load
  <2>2. load' = [load EXCEPT ![i] = k]
    BY <1>2, <1>3
  <2> HIDE DEF k
  <2> QED BY <1>1, <1>3, <2>1, <2>2, AnsweredAsked
<1>4. ASSUME NEW state \in {"absent", "failed", "torn"}, load[i].state \in {"sent", "ok"},
             load' = [load EXCEPT ![i].state = state]
      PROVE  AskedFor(page', load', changes)
  <2> DEFINE k == [load[i] EXCEPT !.state = state]
  <2>1. /\ k \in Load /\ k.why = load[i].why /\ k.subject = load[i].subject /\ k.state = state
    BY <1>2 DEF Load
  <2>2. load' = [load EXCEPT ![i] = k]
    BY <1>2, <1>4
  <2> HIDE DEF k
  <2> QED BY <1>1, <1>4, <2>1, <2>2, AnsweredAsked
<1>5. {load[i].by} \cup ReadAs(Session, another) \subseteq Accounts
  BY <1>2, ReadersKnown DEF Load, IInv, Session, Anyone
<1> QED BY <1>3, <1>4, <1>5 DEF Serve, Break

(* What a load leaves on the page tells where it came from.                 *)
LEMMA DataOf ==
  ASSUME NEW shown, NEW k, shown = [subject |-> k.subject, at |-> k.at, by |-> k.by]
  PROVE  shown.subject = k.subject /\ shown.at = k.at /\ shown.by = k.by
  OBVIOUS

(* What an answer leaves on the page, and in flight.                        *)
LEMMA SettleFacts ==
  ASSUME IInv, NEW i \in Ids, Settle(i)
  PROVE  /\ load[i] \in Load /\ load[i] # Free /\ load[i].why # "toggle"
         /\ page'.of = page.of /\ page'.subject = page.subject /\ page'.asked = page.asked
         /\ page'.jumped = page.jumped /\ page'.via = page.via
         /\ page'.view = Outcome(load[i])
         /\ page'.view \in {"ready", "missing", "failed", "crashed"}
         /\ page'.view = "ready" =>
              /\ load[i].state = "ok"
              /\ page'.shown = [subject |-> load[i].subject, at |-> load[i].at, by |-> load[i].by]
         /\ page'.view # "ready" => page'.shown = Unloaded
         /\ load'[i] = Free /\ \A j \in Ids : load'[j] = Free \/ load'[j] = load[j]
<1>1. page \in OpenPage /\ load \in [Ids -> Load \cup {Free}] /\ load[i] \in Load /\ load[i] # Free
      /\ load[i].why # "toggle" /\ load[i].state # "sent"
  BY DEF IInv, Fits, Settle
<1>2. WellMade(page.of)
  BY <1>1, WebRoutesMade, ScreensMade DEF OpenPage, Routes
<1> DEFINE view == Outcome(load[i])
<1>3. /\ view \in {"ready", "missing", "failed", "crashed"}
      /\ view = "ready" => load[i].state = "ok"
  <2>1. CASE load[i].state = "ok"
    BY <2>1 DEF Outcome
  <2>2. CASE load[i].state = "absent"
    BY <2>2, <1>2 DEF Outcome, WellMade
  <2>3. CASE load[i].state = "torn"
    BY <2>3, <1>2 DEF Outcome, WellMade
  <2>4. CASE load[i].state \notin {"ok", "absent", "torn"}
    BY <2>4 DEF Outcome
  <2> QED BY <2>1, <2>2, <2>3, <2>4
<1> DEFINE data == [subject |-> load[i].subject, at |-> load[i].at, by |-> load[i].by]
           shown == IF view = "ready" THEN data ELSE Unloaded
           pending == page.pending /\ load[i].why # "again"
<1>4. /\ page' = [page EXCEPT !.view = view, !.shown = shown, !.pending = pending]
      /\ load' = IF view = "crashed" THEN [j \in Ids |-> Free] ELSE [load EXCEPT ![i] = Free]
  BY DEF Settle
<1>5. shown = IF view = "ready" THEN data ELSE Unloaded
  OBVIOUS
<1> HIDE DEF view, shown, pending, data
<1>6. /\ page'.of = page.of /\ page'.subject = page.subject /\ page'.asked = page.asked
      /\ page'.jumped = page.jumped /\ page'.via = page.via
      /\ page'.view = view /\ page'.shown = shown
  BY <1>1, <1>4 DEF OpenPage
<1>7. load'[i] = Free /\ \A j \in Ids : load'[j] = Free \/ load'[j] = load[j]
  BY <1>1, <1>4
<1> QED BY <1>1, <1>3, <1>5, <1>6, <1>7 DEF view, data

LEMMA SettleAsked ==
  ASSUME IInv, AskedFor(page, load, changes), NEW i \in Ids, Settle(i)
  PROVE  AskedFor(page', load', changes)
<1>1. /\ load[i] # Free /\ load[i].why # "toggle"
      /\ page'.of = page.of /\ page'.subject = page.subject /\ page'.asked = page.asked
      /\ page'.jumped = page.jumped
      /\ load'[i] = Free /\ \A j \in Ids : load'[j] = Free \/ load'[j] = load[j]
  BY SettleFacts
<1>2. page'.shown # Unloaded =>
        /\ load[i].state = "ok"
        /\ page'.shown.subject = load[i].subject /\ page'.shown.at = load[i].at
  <2>1. page'.shown # Unloaded =>
          /\ load[i].state = "ok"
          /\ page'.shown = [subject |-> load[i].subject, at |-> load[i].at, by |-> load[i].by]
    BY SettleFacts
  <2> QED BY <2>1, DataOf
<1>3. page'.of \in Reasking =>
        \A j, m \in Ids : load'[j] # Free /\ load'[m] # Free =>
                           j = m /\ (page'.view = "loading" \/ page'.pending)
  <2> SUFFICES ASSUME page.of \in Reasking, NEW j \in Ids, load'[j] # Free PROVE FALSE
    BY <1>1
  <2>1. load[j] # Free /\ j # i
    BY <1>1
  <2> QED BY <2>1, <1>1 DEF AskedFor
<1>4. page'.of \notin Overlapping /\ ~page'.jumped =>
        /\ \A j \in Ids : load'[j] # Free /\ load'[j].state # "torn" =>
             load'[j].subject = page'.subject /\ (load'[j].state = "ok" => load'[j].at >= page'.asked)
        /\ page'.shown # Unloaded =>
             page'.shown.subject = page'.subject /\ page'.shown.at >= page'.asked
  BY <1>1, <1>2 DEF AskedFor
<1>5. \A j \in Ids : load'[j] # Free /\ load'[j].why = "toggle" => page'.of = AdminUserDetailPage
  BY <1>1 DEF AskedFor
<1>6. page'.asked <= changes
  BY <1>1 DEF AskedFor
<1> QED BY <1>3, <1>4, <1>5, <1>6 DEF AskedFor

(* What the answer to a toggle leaves on the page.                          *)
LEMMA ToggledFacts ==
  ASSUME IInv, NEW i \in Ids, Toggled(i)
  PROVE  /\ load[i] \in Load /\ load[i] # Free /\ load[i].why = "toggle"
         /\ page'.of = page.of /\ page'.subject = page.subject /\ page'.asked = page.asked
         /\ page'.jumped = page.jumped /\ page'.via = page.via
         /\ \/ /\ load[i].state = "ok" /\ page'.view = page.view
               /\ page'.shown = [subject |-> load[i].subject, at |-> load[i].at, by |-> load[i].by]
            \/ page'.view = "failed" /\ page'.shown = Unloaded
            \/ page'.view = page.view /\ page'.shown = page.shown
         /\ load'[i] = Free /\ \A j \in Ids : j # i => load'[j] = load[j]
<1>1. page \in OpenPage /\ load \in [Ids -> Load \cup {Free}] /\ load[i] \in Load /\ load[i] # Free
      /\ load[i].why = "toggle" /\ load' = [load EXCEPT ![i] = Free]
  BY DEF IInv, Fits, Toggled
<1> DEFINE data == [subject |-> load[i].subject, at |-> load[i].at, by |-> load[i].by]
<1>2. \/ load[i].state = "ok" /\ page' = [page EXCEPT !.pending = FALSE, !.shown = data]
      \/ page' = [page EXCEPT !.pending = FALSE, !.view = "failed", !.shown = Unloaded]
      \/ page' = [page EXCEPT !.pending = FALSE]
  BY DEF Toggled
<1>3. load'[i] = Free /\ \A j \in Ids : j # i => load'[j] = load[j]
  BY <1>1
<1> HIDE DEF data
<1>4. /\ page'.of = page.of /\ page'.subject = page.subject /\ page'.asked = page.asked
      /\ page'.jumped = page.jumped /\ page'.via = page.via
      /\ \/ load[i].state = "ok" /\ page'.view = page.view /\ page'.shown = data
         \/ page'.view = "failed" /\ page'.shown = Unloaded
         \/ page'.view = page.view /\ page'.shown = page.shown
  <2>1. CASE load[i].state = "ok" /\ page' = [page EXCEPT !.pending = FALSE, !.shown = data]
    BY <1>1, <2>1 DEF OpenPage
  <2>2. CASE page' = [page EXCEPT !.pending = FALSE, !.view = "failed", !.shown = Unloaded]
    BY <1>1, <2>2 DEF OpenPage
  <2>3. CASE page' = [page EXCEPT !.pending = FALSE]
    BY <1>1, <2>3 DEF OpenPage
  <2> QED BY <1>2, <2>1, <2>2, <2>3
<1> QED BY <1>1, <1>3, <1>4 DEF data

LEMMA ToggledAsked ==
  ASSUME IInv, AskedFor(page, load, changes), NEW i \in Ids, Toggled(i)
  PROVE  AskedFor(page', load', changes)
<1>1. /\ load[i] # Free /\ load[i].why = "toggle"
      /\ page'.of = page.of /\ page'.subject = page.subject /\ page'.asked = page.asked
      /\ page'.jumped = page.jumped
      /\ load'[i] = Free /\ \A j \in Ids : j # i => load'[j] = load[j]
  BY ToggledFacts
<1>2. \/ /\ load[i].state = "ok"
         /\ page'.shown.subject = load[i].subject /\ page'.shown.at = load[i].at
      \/ page'.shown = Unloaded
      \/ page'.shown = page.shown
  <2>1. \/ /\ load[i].state = "ok"
           /\ page'.shown = [subject |-> load[i].subject, at |-> load[i].at, by |-> load[i].by]
        \/ page'.shown = Unloaded
        \/ page'.shown = page.shown
    BY ToggledFacts
  <2> QED BY <2>1, DataOf
<1>3. page'.of = AdminUserDetailPage /\ page'.of \notin Reasking
  BY <1>1, ReaskingFacts DEF AskedFor
<1>4. page'.of \notin Overlapping /\ ~page'.jumped =>
        \A j \in Ids : load'[j] # Free /\ load'[j].state # "torn" =>
          load'[j].subject = page'.subject /\ (load'[j].state = "ok" => load'[j].at >= page'.asked)
  BY <1>1 DEF AskedFor
<1>5. ASSUME page'.of \notin Overlapping, ~page'.jumped, page'.shown # Unloaded
      PROVE  /\ page'.shown.subject = page'.subject
             /\ (\A j \in Ids : load'[j] # Free => load'[j].why = "toggle")
                  => page'.shown.at >= page'.asked
  <2>1. CASE /\ load[i].state = "ok"
             /\ page'.shown.subject = load[i].subject /\ page'.shown.at = load[i].at
    BY <1>1, <1>5, <2>1 DEF AskedFor
  <2>2. CASE page'.shown = page.shown
    <3>1. (\A j \in Ids : load'[j] # Free => load'[j].why = "toggle")
            => \A j \in Ids : load[j] # Free => load[j].why = "toggle"
      BY <1>1
    <3> QED BY <1>1, <1>5, <2>2, <3>1 DEF AskedFor
  <2> QED BY <1>2, <1>5, <2>1, <2>2
<1>6. page'.asked <= changes
  BY <1>1 DEF AskedFor
<1> QED BY <1>3, <1>4, <1>5, <1>6 DEF AskedFor

Asked == AskedFor(page, load, changes)

LEMMA NextAsked == IInv /\ Asked /\ [Next]_vars => Asked'
<1> SUFFICES ASSUME IInv, AskedFor(page, load, changes), [Next]_vars
             PROVE  AskedFor(page', load', changes')
  BY DEF Asked
<1>0. changes \in Nat
  BY DEF IInv
<1>1. CASE Resolve \/ SignIn \/ SessionEnds
  <2>1. changes' = changes /\ \E session, other : Becomes(session, other)
    BY <1>1 DEF Resolve, SignIn, SessionEnds
  <2> QED BY <1>0, <2>1, BecomesAsked
<1>2. ASSUME NEW d \in WebRoutes, Open(d) \/ Follow(d) PROVE AskedFor(page', load', changes')
  <2>1. changes' = changes
        /\ \E from, via, session, other : Mount(Placed(d, session, from, via), session, other)
    BY <1>2 DEF Open, Follow
  <2> QED BY <1>0, <2>1, MountAsked
<1>3. ASSUME NEW i \in Ids, Change(i) \/ Focus(i) \/ Again(i) PROVE AskedFor(page', load', changes')
  <2>1. page.subject \in Subjects /\ Offered \subseteq Subjects
    BY DEF IInv, Fits, OpenPage, Offered
  <2>2. changes' = changes /\ Mounted
    BY <1>3 DEF Change, Focus, Again
  <2>3. CASE Change(i)
    BY <2>1, <2>2, <2>3, AskAsked DEF Change
  <2>4. CASE Focus(i)
    BY <2>1, <2>2, <2>4, AskAsked DEF Focus
  <2>5. CASE Again(i)
    BY <2>1, <2>2, <2>5, AskAsked DEF Again
  <2> QED BY <1>3, <2>3, <2>4, <2>5
<1>4. ASSUME NEW i \in Ids, ToggleActive(i) \/ Answer(i) PROVE AskedFor(page', load', changes')
  <2>1. changes' = changes
    BY <1>4 DEF ToggleActive, Answer, Serve, Break, Settle, Toggled
  <2> QED BY <1>4, <2>1, ToggleAsked, ServeBreakAsked, SettleAsked, ToggledAsked DEF Answer
<1>5. CASE Elsewhere
  <2>1. page' = page /\ load' = load /\ changes' = changes + 1 /\ page.asked \in Nat
    BY <1>5 DEF Elsewhere, IInv, Fits, OpenPage
  <2>2. page.asked <= changes + 1
    BY <1>0, <2>1 DEF AskedFor
  <2> QED BY <2>1, <2>2 DEF AskedFor
<1>6. CASE OtherTabSignsIn \/ UNCHANGED vars
  BY <1>6 DEF OtherTabSignsIn, vars
<1>7. CASE ResolveBroken
  BY <1>7, BrokenAsked DEF ResolveBroken
<1> QED BY <1>1, <1>2, <1>3, <1>4, <1>5, <1>6, <1>7 DEF Next

LEMMA InitAsked == Init => Asked
<1> SUFFICES ASSUME Init PROVE AskedFor(page, load, changes)
  BY DEF Asked
<1>1. changes \in Nat
  BY DEF Init
<1>2. PICK d, from, via :
        LET pg == Fresh(d, Session, from, via) IN
        /\ page = pg
        /\ load = [i \in Ids |-> IF i = 1 /\ pg.view = "loading"
                                 THEN Request("mount", 1, Session) ELSE Free]
  BY PlacedIsFresh DEF Init
<1>3. Fresh(d, Session, from, via).subject = 1
  BY DEF Fresh
<1>4. load = Mounting(page, Session)
  BY <1>2, <1>3 DEF Mounting
<1> QED BY <1>1, <1>2, <1>4, FreshAsked

(* Where answers cannot overtake one another, what is shown is about the    *)
(* subject of the page and, with nothing in flight, as recent as the last   *)
(* request: aborted, ignored and superseded loads never show.               *)
THEOREM ShownAsAsked == Spec => []ShownIsAsked
<1>1. Asked => ShownIsAsked
  BY DEF Asked, AskedFor, ShownIsAsked, Live
<1> QED BY <1>1, InitIInv, NextIInv, InitAsked, NextAsked, PTL DEF Spec

-----------------------------------------------------------------------------
(* Where the links lead.  Who may see the page at an address.               *)

PublicPaths == {"/", "*", "/status", "/players/:userId", "/turfs", "/turfs/:turfId",
                "/turfs/:turfId#slots"}
DoorPaths   == {"/login", "/register"}
PlayerPaths == {"/profile", "/profile/edit"}
OwnerPaths  == {"/owner/profile", "/owner/profile/edit", "/owner/turfs", "/owner/turfs/new",
                "/owner/turfs/:turfId/edit", "/owner/turfs/:turfId/availability"}
AdminPaths  == {"/admin", "/admin/turfs", "/admin/turfs/:turfId", "/admin/users",
                "/admin/users/:userId"}

RolesAt(path) ==
  {role \in Anyone :
     \/ path \in PublicPaths
     \/ path \in DoorPaths /\ role \in {"anonymous", "loading"}
     \/ path = "/account" /\ role \in Roles
     \/ path \in PlayerPaths /\ role = "PLAYER"
     \/ path \in OwnerPaths /\ role = "OWNER"
     \/ path \in AdminPaths /\ role = "ADMIN"}

Doors == {LoginPage, RegisterPage}

(* A route opens to those of its address, and every link on it leads to     *)
(* where whoever may see the link may go.                                   *)
WellLinked(d) ==
  /\ d.app = "web"
  /\ d.roles = RolesAt(d.path)
  /\ \A l \in d.leads : d.roles \subseteq RolesAt(l[2])
  /\ d.path \in DoorPaths => d \in Doors

LEMMA RolesOfPaths ==
  /\ \A path \in PublicPaths : RolesAt(path) = Anyone
  /\ \A path \in DoorPaths : RolesAt(path) = {"anonymous", "loading"}
  /\ RolesAt("/account") = Roles
  /\ \A path \in PlayerPaths : RolesAt(path) = {"PLAYER"}
  /\ \A path \in OwnerPaths : RolesAt(path) = {"OWNER"}
  /\ \A path \in AdminPaths : RolesAt(path) = {"ADMIN"}
<1> USE DEF RolesAt, Anyone, Roles, PublicPaths, DoorPaths, PlayerPaths, OwnerPaths, AdminPaths
<1>1. \A path \in PublicPaths : RolesAt(path) = Anyone
  OBVIOUS
<1>2. \A path \in DoorPaths : RolesAt(path) = {"anonymous", "loading"}
  OBVIOUS
<1>3. RolesAt("/account") = Roles
  OBVIOUS
<1>4. \A path \in PlayerPaths : RolesAt(path) = {"PLAYER"}
  OBVIOUS
<1>5. \A path \in OwnerPaths : RolesAt(path) = {"OWNER"}
  OBVIOUS
<1>6. \A path \in AdminPaths : RolesAt(path) = {"ADMIN"}
  OBVIOUS
<1> QED BY <1>1, <1>2, <1>3, <1>4, <1>5, <1>6

(* What an entry of the route table says about addresses.                   *)
Entry(d, paths, roles, to) ==
  /\ d.app = "web" /\ d.path \in paths /\ d.roles = roles
  /\ \A l \in d.leads : l[2] \in to

LEMMA PublicEntries ==
  \A d \in {HomePage, NotFoundPage, StatusPage, PublicPlayerPage, PublicTurfListPage,
            PublicTurfDetailPage, AvailableSlotsList} : Entry(d, PublicPaths, Anyone, PublicPaths)
<1> USE DEF Entry, Reader, Route, PublicPaths, To, From
<1>1. Entry(HomePage, PublicPaths, Anyone, PublicPaths)
  BY DEF HomePage
<1>2. Entry(NotFoundPage, PublicPaths, Anyone, PublicPaths)
  BY DEF NotFoundPage
<1>3. Entry(StatusPage, PublicPaths, Anyone, PublicPaths)
  BY DEF StatusPage
<1>4. Entry(PublicPlayerPage, PublicPaths, Anyone, PublicPaths)
  BY DEF PublicPlayerPage
<1>5. Entry(PublicTurfListPage, PublicPaths, Anyone, PublicPaths)
  BY DEF PublicTurfListPage
<1>6. Entry(PublicTurfDetailPage, PublicPaths, Anyone, PublicPaths)
  BY DEF PublicTurfDetailPage
<1>7. Entry(AvailableSlotsList, PublicPaths, Anyone, PublicPaths)
  BY DEF AvailableSlotsList
<1> HIDE DEF Entry, Reader, Route, PublicPaths, To, From
<1> QED BY <1>1, <1>2, <1>3, <1>4, <1>5, <1>6, <1>7

LEMMA DoorEntries ==
  \A d \in Doors : Entry(d, DoorPaths, {"anonymous", "loading"}, DoorPaths)
<1> USE DEF Entry, Route, DoorPaths, To
<1>1. Entry(LoginPage, DoorPaths, {"anonymous", "loading"}, DoorPaths)
  BY DEF LoginPage
<1>2. Entry(RegisterPage, DoorPaths, {"anonymous", "loading"}, DoorPaths)
  BY DEF RegisterPage
<1> QED BY <1>1, <1>2 DEF Doors

LEMMA PlayerEntries ==
  \A d \in {PlayerProfilePage, PlayerProfileEditPage} :
    Entry(d, PlayerPaths, {"PLAYER"}, PublicPaths \cup PlayerPaths)
<1> USE DEF Entry, Reader, Route, PlayerPaths, PublicPaths, To, From
<1>1. Entry(PlayerProfilePage, PlayerPaths, {"PLAYER"}, PublicPaths \cup PlayerPaths)
  BY DEF PlayerProfilePage
<1>2. Entry(PlayerProfileEditPage, PlayerPaths, {"PLAYER"}, PublicPaths \cup PlayerPaths)
  BY DEF PlayerProfileEditPage
<1> HIDE DEF Entry, Reader, Route, PlayerPaths, PublicPaths, To, From
<1> QED BY <1>1, <1>2

LEMMA OwnerEntries ==
  \A d \in {OwnerProfilePage, OwnerProfileEditPage, OwnerTurfListPage, OwnerTurfCreatePage,
            OwnerTurfEditPage, OwnerTurfAvailabilityPage} :
    Entry(d, OwnerPaths, {"OWNER"}, OwnerPaths)
<1> USE DEF Entry, Reader, Route, OwnerPaths, To, From
<1>1. Entry(OwnerProfilePage, OwnerPaths, {"OWNER"}, OwnerPaths)
  BY DEF OwnerProfilePage
<1>2. Entry(OwnerProfileEditPage, OwnerPaths, {"OWNER"}, OwnerPaths)
  BY DEF OwnerProfileEditPage
<1>3. Entry(OwnerTurfListPage, OwnerPaths, {"OWNER"}, OwnerPaths)
  BY DEF OwnerTurfListPage
<1>4. Entry(OwnerTurfCreatePage, OwnerPaths, {"OWNER"}, OwnerPaths)
  BY DEF OwnerTurfCreatePage
<1>5. Entry(OwnerTurfEditPage, OwnerPaths, {"OWNER"}, OwnerPaths)
  BY DEF OwnerTurfEditPage
<1>6. Entry(OwnerTurfAvailabilityPage, OwnerPaths, {"OWNER"}, OwnerPaths)
  BY DEF OwnerTurfAvailabilityPage
<1> HIDE DEF Entry, Reader, Route, OwnerPaths, To, From
<1> QED BY <1>1, <1>2, <1>3, <1>4, <1>5, <1>6

LEMMA AdminEntries ==
  \A d \in {AdminDashboardPage, AdminPendingTurfsPage, AdminTurfReviewPage, AdminUsersPage,
            AdminUserDetailPage} : Entry(d, AdminPaths, {"ADMIN"}, AdminPaths)
<1> USE DEF Entry, Reader, Route, AdminPaths, To, From
<1>1. Entry(AdminDashboardPage, AdminPaths, {"ADMIN"}, AdminPaths)
  BY DEF AdminDashboardPage
<1>2. Entry(AdminPendingTurfsPage, AdminPaths, {"ADMIN"}, AdminPaths)
  BY DEF AdminPendingTurfsPage
<1>3. Entry(AdminTurfReviewPage, AdminPaths, {"ADMIN"}, AdminPaths)
  BY DEF AdminTurfReviewPage
<1>4. Entry(AdminUsersPage, AdminPaths, {"ADMIN"}, AdminPaths)
  BY DEF AdminUsersPage
<1>5. Entry(AdminUserDetailPage, AdminPaths, {"ADMIN"}, AdminPaths)
  BY DEF AdminUserDetailPage
<1> HIDE DEF Entry, Reader, Route, AdminPaths, To, From
<1> QED BY <1>1, <1>2, <1>3, <1>4, <1>5

LEMMA PathsDisjoint ==
  (PublicPaths \cup {"/account"} \cup PlayerPaths \cup OwnerPaths \cup AdminPaths)
    \cap DoorPaths = {}
  BY DEF PublicPaths, DoorPaths, PlayerPaths, OwnerPaths, AdminPaths

LEMMA RoutesLinked == \A d \in WebRoutes : WellLinked(d)
<1>1. \A d \in {HomePage, NotFoundPage, StatusPage, PublicPlayerPage, PublicTurfListPage,
                PublicTurfDetailPage, AvailableSlotsList} : WellLinked(d)
  BY PublicEntries, RolesOfPaths, PathsDisjoint DEF Entry, WellLinked
<1>2. WellLinked(LoginPage) /\ WellLinked(RegisterPage)
  BY DoorEntries, RolesOfPaths DEF Entry, WellLinked, Doors
<1>3. WellLinked(AccountPage)
  <2>1. /\ AccountPage.app = "web" /\ AccountPage.path = "/account" /\ AccountPage.roles = Roles
        /\ AccountPage.leads = {}
    BY DEF AccountPage, Reader, Route
  <2> QED BY <2>1, RolesOfPaths, PathsDisjoint DEF WellLinked
<1>4. \A d \in {PlayerProfilePage, PlayerProfileEditPage} : WellLinked(d)
  <2>1. "PLAYER" \in Anyone
    BY DEF Anyone, Roles
  <2> QED BY <2>1, PlayerEntries, RolesOfPaths, PathsDisjoint DEF Entry, WellLinked
<1>5. \A d \in {OwnerProfilePage, OwnerProfileEditPage, OwnerTurfListPage, OwnerTurfCreatePage,
                OwnerTurfEditPage, OwnerTurfAvailabilityPage} : WellLinked(d)
  BY OwnerEntries, RolesOfPaths, PathsDisjoint DEF Entry, WellLinked
<1>6. \A d \in {AdminDashboardPage, AdminPendingTurfsPage, AdminTurfReviewPage, AdminUsersPage,
                AdminUserDetailPage} : WellLinked(d)
  BY AdminEntries, RolesOfPaths, PathsDisjoint DEF Entry, WellLinked
<1> QED BY <1>1, <1>2, <1>3, <1>4, <1>5, <1>6 DEF WebRoutes

(* Who is in the client may go where the page they read leads them.         *)
LEMMA LinksAllowed ==
  ASSUME NEW path \in Links, page.of \in WebRoutes, Session \in Anyone,
         page.view \notin {"closed", "crashed"}, Session \in page.of.roles
  PROVE  Session \in RolesAt(path)
<1>1. /\ {"/", "/turfs", "/status"} \subseteq PublicPaths /\ {"/login", "/register"} \subseteq DoorPaths
      /\ {"/profile", "/profile/edit"} \subseteq PlayerPaths
      /\ "/owner/turfs" \in OwnerPaths /\ "/admin" \in AdminPaths
  BY DEF PublicPaths, DoorPaths, PlayerPaths, OwnerPaths, AdminPaths
<1>2. \A l \in page.of.leads : Session \in RolesAt(l[2])
  BY RoutesLinked DEF WellLinked
<1>3. CASE path \in {l[2] : l \in page.of.leads}
  BY <1>2, <1>3
<1>4. CASE path \in Header(Session)
  BY <1>1, <1>4, RolesOfPaths DEF Header
<1>5. CASE page.of = HomePage /\ path \in (IF Session \in Roles THEN {"/account"} ELSE {"/register", "/login"})
  <2>1. CASE Session \in Roles
    BY <1>5, <2>1, RolesOfPaths
  <2>2. CASE Session \notin Roles
    BY <1>1, <1>5, <2>2, RolesOfPaths DEF Anyone
  <2> QED BY <2>1, <2>2
<1>6. CASE Own /\ path = "/profile/edit"
  BY <1>1, <1>6, RolesOfPaths DEF Own
<1> QED BY <1>3, <1>4, <1>5, <1>6 DEF Links

-----------------------------------------------------------------------------
(* No link leads to a closed door.  Who came to a route by a link may see   *)
(* it, who has signed in on the phone may see every screen they reach, and  *)
(* only a page that is not the reader's is closed.                          *)
Linked(pg, session) ==
  /\ pg.of \in WebRoutes => pg.from \in WebRoutes
  /\ pg.view = "closed" => session \notin pg.of.roles
  /\ pg.view # "crashed" /\ pg.of \in WebRoutes /\ pg.via = "link" => session \in pg.of.roles
  /\ pg.view # "crashed" /\ pg.of \in Screens /\ session \in Roles => session \in pg.of.roles

LEMMA ScreensMobile == \A d \in Screens : d.app = "mobile"
<1>1. LoginScreen.app = "mobile" /\ HomeScreen.app = "mobile" /\ TurfListScreen.app = "mobile"
  BY DEF LoginScreen, HomeScreen, TurfListScreen, Screen, Reader, Route
<1>2. TurfDetailScreen.app = "mobile" /\ PlayerProfileScreen.app = "mobile"
  BY DEF TurfDetailScreen, PlayerProfileScreen, Screen, Reader, Route
<1>3. OwnerProfileScreen.app = "mobile" /\ OwnerTurfListScreen.app = "mobile"
  BY DEF OwnerProfileScreen, OwnerTurfListScreen, Screen, Reader, Route
<1>4. NotAvailableScreen.app = "mobile"
  BY DEF NotAvailableScreen, Screen, Reader, Route
<1> QED BY <1>1, <1>2, <1>3, <1>4 DEF Screens

LEMMA WebIsWeb ==
  /\ \A d \in WebRoutes : d.app = "web" /\ d \notin Screens
  /\ \A d \in Screens : d.app # "web" /\ d \notin WebRoutes
  BY ScreensMobile, RoutesLinked DEF WellLinked

(* A route that is open to somebody who has not signed in is open to all,   *)
(* or it is where they sign in.                                             *)
LEMMA OpenToStrangers ==
  ASSUME NEW d \in WebRoutes, NEW session \in {"anonymous", "loading"}, session \in d.roles
  PROVE  d.roles = Anyone \/ d \in Doors
<1>1. session \notin Roles /\ session \in RolesAt(d.path)
  BY RoutesLinked DEF WellLinked, Roles
<1>2. d.path \in PublicPaths \/ d.path \in DoorPaths
  BY <1>1 DEF RolesAt, Roles
<1> QED BY <1>2, RolesOfPaths, RoutesLinked DEF WellLinked

LEMMA FreshLinked ==
  ASSUME NEW d \in Routes, NEW from, NEW via, NEW session,
         d \in WebRoutes => from \in WebRoutes,
         d \in WebRoutes /\ via = "link" => session \in d.roles,
         d \in Screens /\ session \in Roles => session \in d.roles
  PROVE  Linked(Fresh(d, session, from, via), session)
<1> DEFINE pg == Fresh(d, session, from, via)
<1>1. /\ pg.of = d /\ pg.from = from /\ pg.via = via
      /\ pg.view = "closed" => session \notin d.roles
  BY DEF Fresh
<1> HIDE DEF pg
<1>2. Linked(pg, session)
  BY <1>1 DEF Linked
<1> QED BY <1>2 DEF pg

LEMMA PlacedLinked ==
  ASSUME NEW d \in WebRoutes, NEW from \in WebRoutes, NEW via, NEW session \in Anyone,
         via = "link" => session \in d.roles \/ d \in Doors \/ session = "anonymous"
  PROVE  Linked(Placed(d, session, from, via), session)
<1>1. /\ LoginPage \in WebRoutes /\ AccountPage \in WebRoutes /\ WebRoutes \subseteq Routes
      /\ d.app = "web" /\ d \notin Screens /\ from \notin Screens
      /\ LoginPage \notin Screens /\ AccountPage \notin Screens
  BY WebIsWeb DEF WebRoutes, Routes
<1>2. \A p \in Doors : p.roles = {"anonymous", "loading"}
  BY DoorEntries DEF Entry
<1>3. CASE d \in Doors /\ session \in Roles
  <2>1. PICK p \in {from, AccountPage} :
          Placed(d, session, from, via) = Fresh(p, session, AccountPage, "return")
    BY <1>3 DEF Placed, Doors
  <2> QED BY <2>1, <1>1, FreshLinked
<1>4. CASE ~(d \in Doors /\ session \in Roles) /\ session = "anonymous" /\ session \notin d.roles
  <2>1. Placed(d, session, from, via) = Fresh(LoginPage, session, d, via)
    BY <1>1, <1>4 DEF Placed, Doors
  <2>2. session \in LoginPage.roles
    BY <1>2, <1>4 DEF Doors
  <2> QED BY <2>1, <2>2, <1>1, FreshLinked
<1>5. CASE ~(d \in Doors /\ session \in Roles) /\ ~(session = "anonymous" /\ session \notin d.roles)
  <2>1. Placed(d, session, from, via) = Fresh(d, session, from, via)
    BY <1>5 DEF Placed, Doors
  <2>2. via = "link" => session \in d.roles
    BY <1>2, <1>5 DEF Anyone
  <2> QED BY <2>1, <2>2, <1>1, FreshLinked
<1> QED BY <1>3, <1>4, <1>5

LEMMA BecomesLinked ==
  ASSUME IInv, Linked(page, Session), NEW session \in Anyone, NEW other, Becomes(session, other),
         page.view # "crashed" /\ page.of \in WebRoutes /\ page.via = "link" =>
           session \in page.of.roles \/ page.of \in Doors \/ session = "anonymous"
  PROVE  Linked(page', session)
<1>1. page.of \in Routes
  BY DEF IInv, Fits, OpenPage
<1>2. CASE page.view = "crashed" \/ (page.view # "closed" /\ session \in page.of.roles)
  <2>1. page' = page
    BY <1>2 DEF Becomes
  <2>2. Linked(page, session)
    BY <1>2 DEF Linked
  <2> QED BY <2>1, <2>2
<1>3. CASE /\ ~(page.view = "crashed" \/ (page.view # "closed" /\ session \in page.of.roles))
           /\ page.of.app = "web"
  <2>1. page' = Placed(page.of, session, page.from, page.via)
    BY <1>3 DEF Becomes, Mount
  <2>2. page.of \in WebRoutes /\ page.from \in WebRoutes
    BY <1>1, <1>3, WebIsWeb DEF Routes, Linked
  <2> QED BY <2>1, <2>2, <1>3, PlacedLinked
<1>4. CASE /\ ~(page.view = "crashed" \/ (page.view # "closed" /\ session \in page.of.roles))
           /\ page.of.app # "web"
  <2>1. PICK d \in Screens : session \in d.roles /\ page' = Fresh(d, session, d, "link")
    BY <1>4 DEF Becomes, Mount
  <2>2. d \in Routes /\ d \notin WebRoutes
    BY <2>1, WebIsWeb DEF Routes
  <2> QED BY <2>1, <2>2, FreshLinked
<1> QED BY <1>2, <1>3, <1>4

(* Whatever is asked for and answered, the reader stays on the page.        *)
LEMMA KeepsPage ==
  ASSUME IInv, NEW i \in Ids,
         Change(i) \/ Focus(i) \/ Again(i) \/ ToggleActive(i) \/ Answer(i)
  PROVE  \/ page' = page
         \/ /\ page'.of = page.of /\ page'.from = page.from /\ page'.via = page.via
            /\ page.view # "crashed" /\ page'.view # "closed"
<1>1. page \in OpenPage /\ load \in [Ids -> Load \cup {Free}]
      /\ (load[i] # Free => page.view \notin {"closed", "crashed"})
  BY DEF IInv, Fits
<1>2. CASE Change(i) \/ Focus(i) \/ Again(i)
  <2>1. PICK why \in {"subject", "focus", "again"}, s \in {page.subject} \cup Offered :
          Ask(i, why, s) /\ Mounted
    BY <1>2 DEF Change, Focus, Again
  <2>2. page.view \notin {"closed", "crashed"}
    BY <2>1 DEF Mounted
  <2>3. PICK view, shown, pending, jumped :
          /\ page' = [page EXCEPT !.subject = s, !.asked = changes, !.view = view,
                                  !.shown = shown, !.pending = pending, !.jumped = jumped]
          /\ view \in {"loading", page.view}
    <3>1. /\ page' = [page EXCEPT
                !.subject = s, !.asked = changes,
                !.view    = IF why \in page.of.blanks THEN "loading" ELSE page.view,
                !.shown   = IF why \in page.of.blanks THEN Unloaded ELSE page.shown,
                !.pending = page.pending \/ (why = "again" /\ why \notin page.of.blanks),
                !.jumped  = page.jumped \/ (why = "subject" /\ why \notin page.of.blanks)]
      BY <2>1, <1>1 DEF Ask, OpenPage
    <3> QED BY <3>1
  <2> QED BY <2>2, <2>3, <1>1 DEF OpenPage
<1>3. CASE ToggleActive(i)
  <2>1. page' = [page EXCEPT !.pending = TRUE] /\ page.view = "ready"
    BY <1>3 DEF ToggleActive
  <2> QED BY <2>1, <1>1 DEF OpenPage
<1>4. CASE Serve(i) \/ Break(i)
  BY <1>4 DEF Serve, Break
<1>5. CASE Settle(i)
  <2>1. PICK view, shown, pending :
          page' = [page EXCEPT !.view = view, !.shown = shown, !.pending = pending]
    BY <1>5 DEF Settle
  <2>2. page.view # "crashed" /\ page'.view # "closed"
    BY <1>1, <1>5, SettleFacts
  <2> QED BY <2>1, <2>2, <1>1 DEF OpenPage
<1>6. CASE Toggled(i)
  <2>1. \/ page' = [page EXCEPT !.pending = FALSE,
              !.shown = [subject |-> load[i].subject, at |-> load[i].at, by |-> load[i].by]]
        \/ page' = [page EXCEPT !.pending = FALSE, !.view = "failed", !.shown = Unloaded]
        \/ page' = [page EXCEPT !.pending = FALSE]
    BY <1>6 DEF Toggled
  <2>2. page.view \notin {"closed", "crashed"}
    BY <1>1, <1>6 DEF Toggled
  <2> QED BY <2>1, <2>2, <1>1 DEF OpenPage
<1> QED BY <1>2, <1>3, <1>4, <1>5, <1>6 DEF Answer

LEMMA NextLinked == IInv /\ Linked(page, Session) /\ [Next]_vars => Linked(page', Session')
<1> SUFFICES ASSUME IInv, Linked(page, Session), [Next]_vars PROVE Linked(page', Session')
  OBVIOUS
<1>1. /\ stored \in Roles \cup {"anonymous"} /\ checking \in BOOLEAN
      /\ page.of \in Routes /\ Session \in Anyone
      /\ (page.view \notin {"closed", "crashed"} => Session \in page.of.roles)
  BY DEF IInv, Fits, OpenPage, Session, Anyone
<1>2. CASE Resolve
  <2>1. /\ Session = "loading" /\ Session' = stored' /\ Becomes(stored', another')
        /\ stored' \in Roles \cup {"anonymous"}
    BY <1>1, <1>2 DEF Resolve, Session
  <2>2. ASSUME page.view # "crashed", page.of \in WebRoutes, page.via = "link"
        PROVE  stored' \in page.of.roles \/ page.of \in Doors
    <3>1. "loading" \in page.of.roles
      BY <2>1, <2>2 DEF Linked
    <3> QED BY <2>1, <2>2, <3>1, OpenToStrangers DEF Anyone
  <2> QED BY <2>1, <2>2, BecomesLinked DEF Anyone
<1>3. CASE SignIn
  <2>1. Session' = stored' /\ Becomes(stored', FALSE) /\ stored' \in Roles
    BY <1>1, <1>3 DEF SignIn, Session
  <2>2. page.of \in Doors \/ page.of \notin WebRoutes
    BY <1>3, WebIsWeb DEF SignIn, Doors, Screens
  <2> QED BY <2>1, <2>2, BecomesLinked DEF Anyone
<1>4. CASE SessionEnds
  <2>1. Session' = "anonymous" /\ Becomes("anonymous", FALSE) /\ "anonymous" \in Anyone
    BY <1>1, <1>4 DEF SessionEnds, Session, Anyone, Roles
  <2> QED BY <2>1, BecomesLinked
<1>5. CASE OtherTabSignsIn \/ Elsewhere \/ UNCHANGED vars
  BY <1>5 DEF OtherTabSignsIn, Elsewhere, vars, Session
<1>6. ASSUME NEW d \in WebRoutes, Open(d) PROVE Linked(page', Session')
  <2>1. PICK session \in Anyone : session = Session' /\ page' = Placed(d, session, AccountPage, "typed")
    <3>1. stored' \in Roles \cup {"anonymous"} /\ checking' \in BOOLEAN
      BY <1>1, <1>6 DEF Open
    <3>2. Session' \in Anyone
      BY <3>1 DEF Session, Anyone
    <3> QED BY <1>6, <3>2 DEF Open, Mount
  <2> QED BY <2>1, PlacedLinked DEF WebRoutes
<1>7. ASSUME NEW d \in WebRoutes, Follow(d) PROVE Linked(page', Session')
  <2>1. /\ page' = Placed(d, Session, AccountPage, "link") /\ Session' = Session
        /\ d.path \in Links /\ page.of.app = "web" /\ page.view \notin {"closed", "crashed"}
    BY <1>7 DEF Follow, Mount, Session
  <2>2. Session \in RolesAt(d.path)
    BY <2>1, <1>1, LinksAllowed, WebIsWeb DEF Routes
  <2>3. Session \in d.roles /\ AccountPage \in WebRoutes
    BY <2>2, RoutesLinked DEF WellLinked, WebRoutes
  <2> QED BY <2>1, <2>3, <1>1, PlacedLinked
<1>8. ASSUME NEW i \in Ids, Change(i) \/ Focus(i) \/ Again(i) \/ ToggleActive(i) \/ Answer(i)
      PROVE  Linked(page', Session')
  <2>1. Session' = Session
    BY <1>8 DEF Change, Focus, Again, ToggleActive, Answer, Serve, Break, Settle, Toggled, Session
  <2> QED BY <2>1, <1>8, KeepsPage DEF Linked
<1>9. CASE ResolveBroken
  <2>1. page' = [page EXCEPT !.view = "crashed"] /\ page \in OpenPage
    BY <1>9 DEF ResolveBroken, IInv, Fits
  <2>2. page'.of = page.of /\ page'.from = page.from /\ page'.view = "crashed"
    BY <2>1 DEF OpenPage
  <2> QED BY <2>2 DEF Linked
<1> QED BY <1>2, <1>3, <1>4, <1>5, <1>6, <1>7, <1>8, <1>9 DEF Next
-----------------------------------------------------------------------------
(* The accounts are not turned over beyond the last page.  Nothing on the   *)
(* page or on its way to it is of a later change than there was, and what   *)
(* "Next" is offered by is there when it is.                                *)
Paged(pg, ld, ch) ==
  /\ ch >= 1
  /\ pg.of = AdminUsersPage => pg.subject <= ch
  /\ \A i \in Ids : ld[i] # Free => ld[i].at <= ch
  /\ pg.of.loads /\ pg.view = "ready" => pg.shown \in Data /\ pg.shown.at <= ch

LEMMA FreshPaged ==
  ASSUME changes \in Nat, changes >= 1, NEW d, NEW from, NEW via, NEW session, NEW reader
  PROVE  LET pg == Fresh(d, session, from, via) IN Paged(pg, Mounting(pg, reader), changes)
<1> DEFINE pg == Fresh(d, session, from, via)
<1>1. pg.subject = 1 /\ pg.of = d /\ (d.loads => pg.view # "ready")
  BY DEF Fresh
<1>2. \A i \in Ids : Mounting(pg, reader)[i] # Free => Mounting(pg, reader)[i].at = 0
  BY DEF Mounting, Request
<1> HIDE DEF pg
<1>3. Paged(pg, Mounting(pg, reader), changes)
  BY <1>1, <1>2 DEF Paged
<1> QED BY <1>3 DEF pg

LEMMA MountPaged ==
  ASSUME changes \in Nat, changes >= 1, NEW d, NEW from, NEW via, NEW session, NEW other,
         \/ Mount(Placed(d, session, from, via), session, other)
         \/ Mount(Fresh(d, session, from, via), session, other)
  PROVE  Paged(page', load', changes)
<1>1. PICK d2, from2, via2 : Mount(Fresh(d2, session, from2, via2), session, other)
  BY PlacedIsFresh
<1>2. PICK reader : LET pg == Fresh(d2, session, from2, via2) IN
                    page' = pg /\ load' = Mounting(pg, reader)
  BY <1>1 DEF Mount, Mounting
<1> QED BY <1>2, FreshPaged

LEMMA BecomesPaged ==
  ASSUME changes \in Nat, Paged(page, load, changes), NEW session, NEW other,
         Becomes(session, other)
  PROVE  Paged(page', load', changes)
<1>1. CASE UNCHANGED <<page, load>>
  BY <1>1
<1>2. CASE ~UNCHANGED <<page, load>>
  <2>1. changes >= 1
    BY DEF Paged
  <2> QED BY <1>2, <2>1, MountPaged DEF Becomes
<1> QED BY <1>1, <1>2

LEMMA AskPaged ==
  ASSUME IInv, Paged(page, load, changes), NEW i \in Ids,
         NEW why \in {"subject", "focus", "again"}, NEW s \in Subjects, Mounted, Ask(i, why, s),
         page.of = AdminUsersPage => s <= changes
  PROVE  Paged(page', load', changes)
<1>1. page \in OpenPage /\ page.of \in Routes /\ changes \in Nat /\ changes >= 1
  BY DEF IInv, Fits, OpenPage, Paged
<1>2. WellMade(page.of)
  BY <1>1, WebRoutesMade, ScreensMade DEF Routes
<1> DEFINE how == IF why = "subject" THEN page.of.stops ELSE "nothing"
           view == IF why \in page.of.blanks THEN "loading" ELSE page.view
           shown == IF why \in page.of.blanks THEN Unloaded ELSE page.shown
           pending == page.pending \/ (why = "again" /\ why \notin page.of.blanks)
           jumped == page.jumped \/ (why = "subject" /\ why \notin page.of.blanks)
<1>3. how \in {"nothing", "ignore", "abort"}
  BY <1>2 DEF WellMade
<1>4. PICK left \in Stopped(how), reader \in Mine :
        /\ load' = [left EXCEPT ![i] = Request(why, s, reader)]
        /\ page' = [page EXCEPT !.subject = s, !.asked = changes, !.view = view,
                      !.shown = shown, !.pending = pending, !.jumped = jumped]
  BY DEF Ask, Mine
<1>5. /\ left \in [Ids -> Load \cup {Free}]
      /\ \A j \in Ids : left[j] # Free => load[j] # Free /\ left[j].at = load[j].at
  BY <1>3, <1>4, StoppedFits
<1>6. view = "ready" => page.view = "ready" /\ shown = page.shown
  OBVIOUS
<1> HIDE DEF how, view, shown, pending, jumped
<1>7. /\ page'.of = page.of /\ page'.subject = s /\ page'.view = view /\ page'.shown = shown
  BY <1>1, <1>4 DEF OpenPage
<1>8. Request(why, s, reader).at = 0
  BY DEF Request
<1>9. \A j \in Ids : load'[j] = IF j = i THEN Request(why, s, reader) ELSE left[j]
  BY <1>4, <1>5
<1>10. \A j \in Ids : load'[j] # Free => load'[j].at <= changes
  BY <1>1, <1>5, <1>8, <1>9 DEF Paged
<1>11. page'.of.loads /\ page'.view = "ready" => page'.shown \in Data /\ page'.shown.at <= changes
  BY <1>6, <1>7 DEF Paged
<1> QED BY <1>1, <1>7, <1>10, <1>11 DEF Paged

LEMMA ChangePaged ==
  ASSUME IInv, Paged(page, load, changes), NEW i \in Ids, Change(i)
  PROVE  Paged(page', load', changes)
<1>1. PICK s \in Offered : Ask(i, "subject", s) /\ Mounted
  BY DEF Change
<1>2. s \in Subjects
  BY <1>1 DEF Offered
<1>3. page.subject \in Nat /\ s \in Nat /\ changes \in Nat
  BY <1>2 DEF IInv, Fits, OpenPage, Subjects
<1>4. ASSUME page.of = AdminUsersPage PROVE s <= changes
  <2>1. /\ page.view = "ready" /\ page.subject <= changes /\ page.of.loads
        /\ s = page.subject - 1 \/ s <= page.shown.at
    BY <1>1, <1>4 DEF Offered, Paged, Mounted
  <2>2. page.shown.at <= changes /\ page.shown.at \in Nat
    BY <2>1 DEF Paged, Data
  <2> QED BY <1>3, <2>1, <2>2
<1> QED BY <1>1, <1>2, <1>4, AskPaged

LEMMA AnswerPaged ==
  ASSUME IInv, Paged(page, load, changes), NEW i \in Ids, ToggleActive(i) \/ Answer(i)
  PROVE  Paged(page', load', changes)
<1>1. page \in OpenPage /\ load \in [Ids -> Load \cup {Free}] /\ changes \in Nat /\ changes >= 1
  BY DEF IInv, Fits, Paged
<1>2. CASE ToggleActive(i)
  <2>1. PICK reader \in Mine :
          /\ page' = [page EXCEPT !.pending = TRUE]
          /\ load' = [load EXCEPT ![i] = Request("toggle", page.subject, reader)]
    BY <1>2 DEF ToggleActive, Mine
  <2>2. Request("toggle", page.subject, reader).at = 0
    BY DEF Request
  <2>3. page'.of = page.of /\ page'.subject = page.subject /\ page'.view = page.view
        /\ page'.shown = page.shown
    BY <1>1, <2>1 DEF OpenPage
  <2>4. \A j \in Ids : load'[j] # Free => load'[j].at <= changes
    BY <1>1, <2>1, <2>2 DEF Paged
  <2> QED BY <1>1, <2>3, <2>4 DEF Paged
<1>3. CASE Serve(i) \/ Break(i)
  <2>1. /\ page' = page /\ load[i] # Free
        /\ \/ \E reader :
                load' = [load EXCEPT ![i].state = "ok", ![i].at = changes, ![i].by = reader]
           \/ \E state : load' = [load EXCEPT ![i].state = state]
    BY <1>3 DEF Serve, Break
  <2>2. load[i] \in Load
    BY <1>1, <2>1
  <2>3. load'[i].at \in {load[i].at, changes} /\ \A j \in Ids : j # i => load'[j] = load[j]
    BY <1>1, <2>1, <2>2 DEF Load
  <2> QED BY <1>1, <2>1, <2>3 DEF Paged
<1>4. CASE Settle(i)
  <2>1. /\ load[i] \in Load /\ load[i] # Free
        /\ page'.of = page.of /\ page'.subject = page.subject
        /\ \A j \in Ids : load'[j] = Free \/ load'[j] = load[j]
    BY <1>4, SettleFacts
  <2>2. page'.view = "ready" =>
          page'.shown = [subject |-> load[i].subject, at |-> load[i].at, by |-> load[i].by]
    BY <1>4, SettleFacts
  <2>3. [subject |-> load[i].subject, at |-> load[i].at, by |-> load[i].by] \in Data
    BY <2>1 DEF Load, Data
  <2>4. page'.view = "ready" => page'.shown \in Data /\ page'.shown.at = load[i].at
    BY <2>2, <2>3, DataOf
  <2> QED BY <1>1, <2>1, <2>4 DEF Paged
<1>5. CASE Toggled(i)
  <2>1. /\ load[i] \in Load /\ load[i] # Free
        /\ page'.of = page.of /\ page'.subject = page.subject
        /\ load'[i] = Free /\ \A j \in Ids : j # i => load'[j] = load[j]
        /\ \/ page'.shown = [subject |-> load[i].subject, at |-> load[i].at, by |-> load[i].by]
           \/ page'.view = "failed"
           \/ page'.view = page.view /\ page'.shown = page.shown
    BY <1>5, ToggledFacts
  <2>2. [subject |-> load[i].subject, at |-> load[i].at, by |-> load[i].by] \in Data
    BY <2>1 DEF Load, Data
  <2>3. \/ page'.shown \in Data /\ page'.shown.at = load[i].at
        \/ page'.view = "failed"
        \/ page'.view = page.view /\ page'.shown = page.shown
    BY <2>1, <2>2, DataOf
  <2> QED BY <1>1, <2>1, <2>3 DEF Paged
<1> QED BY <1>2, <1>3, <1>4, <1>5 DEF Answer

LEMMA NextPaged == IInv /\ Paged(page, load, changes) /\ [Next]_vars => Paged(page', load', changes')
<1> SUFFICES ASSUME IInv, Paged(page, load, changes), [Next]_vars
             PROVE  Paged(page', load', changes')
  OBVIOUS
<1>0. changes \in Nat /\ changes >= 1
  BY DEF IInv, Paged
<1>1. CASE Resolve \/ SignIn \/ SessionEnds
  <2>1. changes' = changes /\ \E session, other : Becomes(session, other)
    BY <1>1 DEF Resolve, SignIn, SessionEnds
  <2> QED BY <1>0, <2>1, BecomesPaged
<1>2. ASSUME NEW d \in WebRoutes, Open(d) \/ Follow(d) PROVE Paged(page', load', changes')
  <2>1. changes' = changes
        /\ \E from, via, session, other : Mount(Placed(d, session, from, via), session, other)
    BY <1>2 DEF Open, Follow
  <2> QED BY <1>0, <2>1, MountPaged
<1>3. ASSUME NEW i \in Ids, Focus(i) \/ Again(i) PROVE Paged(page', load', changes')
  <2>1. page.subject \in Subjects /\ (page.of = AdminUsersPage => page.subject <= changes)
    BY DEF IInv, Fits, OpenPage, Paged
  <2> QED BY <1>3, <2>1, AskPaged DEF Focus, Again
<1>4. ASSUME NEW i \in Ids, Change(i) PROVE Paged(page', load', changes')
  <2>1. changes' = changes
    BY <1>4 DEF Change
  <2> QED BY <1>4, <2>1, ChangePaged
<1>5. ASSUME NEW i \in Ids, ToggleActive(i) \/ Answer(i) PROVE Paged(page', load', changes')
  <2>1. changes' = changes
    BY <1>5 DEF ToggleActive, Answer, Serve, Break, Settle, Toggled
  <2> QED BY <1>5, <2>1, AnswerPaged
<1>6. CASE Elsewhere
  <2>1. /\ page' = page /\ load' = load /\ changes' = changes + 1 /\ page.subject \in Nat
        /\ \A i \in Ids : load[i] # Free => load[i].at \in Nat
    BY <1>6 DEF Elsewhere, IInv, Fits, OpenPage, Subjects, Load
  <2>2. page.shown \in Data => page.shown.at \in Nat
    BY DEF Data
  <2> QED BY <1>0, <2>1, <2>2 DEF Paged
<1>7. CASE OtherTabSignsIn \/ UNCHANGED vars
  BY <1>7 DEF OtherTabSignsIn, vars
<1>8. CASE ResolveBroken
  <2>1. page' = [page EXCEPT !.view = "crashed"] /\ load' = load /\ changes' = changes
        /\ page \in OpenPage
    BY <1>8 DEF ResolveBroken, IInv, Fits
  <2>2. page'.of = page.of /\ page'.subject = page.subject /\ page'.view = "crashed"
    BY <2>1 DEF OpenPage
  <2> QED BY <2>1, <2>2 DEF Paged
<1> QED BY <1>1, <1>2, <1>3, <1>4, <1>5, <1>6, <1>7, <1>8 DEF Next

LEMMA InitLinkedPaged == Init => Linked(page, Session) /\ Paged(page, load, changes)
<1> SUFFICES ASSUME Init PROVE Linked(page, Session) /\ Paged(page, load, changes)
  OBVIOUS
<1>1. changes = 1 /\ Session \in Anyone /\ Session \notin Roles
  BY DEF Init, Session, Anyone, Roles
<1>2. PICK d \in WebRoutes \cup {LoginScreen} :
        /\ page = IF d.app = "web" THEN Placed(d, Session, AccountPage, "typed")
                  ELSE Fresh(d, Session, d, "link")
        /\ load = [i \in Ids |-> IF i = 1 /\ page.view = "loading"
                                 THEN Request("mount", 1, Session) ELSE Free]
  BY DEF Init
<1>3. Linked(page, Session)
  <2>1. CASE d \in WebRoutes
    <3>1. page = Placed(d, Session, AccountPage, "typed") /\ AccountPage \in WebRoutes
      BY <1>2, <2>1, WebIsWeb DEF WebRoutes
    <3> QED BY <1>1, <2>1, <3>1, PlacedLinked
  <2>2. CASE d \in Screens
    <3>1. page = Fresh(d, Session, d, "link") /\ d \in Routes /\ d \notin WebRoutes
      BY <1>2, <2>2, WebIsWeb DEF Routes
    <3> QED BY <1>1, <3>1, FreshLinked
  <2> QED BY <1>2, <2>1, <2>2 DEF Screens
<1>4. PICK d2, from, via : page = Fresh(d2, Session, from, via)
  BY <1>2, PlacedIsFresh
<1>5. page.subject = 1
  BY <1>4 DEF Fresh
<1>6. load = Mounting(page, Session)
  BY <1>2, <1>5 DEF Mounting
<1> QED BY <1>1, <1>3, <1>4, <1>6, FreshPaged

(* Nothing the application offers leads nowhere: no link, whoever reads it  *)
(* and however the session changes under it, ends at "You do not have       *)
(* access", and "Next" never turns the accounts over beyond the last page.  *)
THEOREM OffersLead == Spec => []OffersLeadSomewhere
<1> DEFINE Inv == IInv /\ Linked(page, Session) /\ Paged(page, load, changes)
<1>1. Init => Inv
  BY InitIInv, InitLinkedPaged
<1>2. Inv /\ [Next]_vars => Inv'
  BY NextIInv, NextLinked, NextPaged
<1>3. Inv => OffersLeadSomewhere
  <2> SUFFICES ASSUME Inv PROVE OffersLeadSomewhere
    OBVIOUS
  <2>1. page.of \in WebRoutes \/ page.of \in Screens
    BY DEF IInv, Fits, OpenPage, Routes
  <2> QED BY <2>1 DEF Linked, Paged, OffersLeadSomewhere
<1> HIDE DEF Inv
<1> QED BY <1>1, <1>2, <1>3, PTL DEF Spec
=============================================================================
