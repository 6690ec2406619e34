# PlayHub: models, checks and proofs

PlayHub is a marketplace for sports turfs: a Go API over PostgreSQL
(`src/backend`), a React client (`src/frontend`) and a React Native client
(`src/mobile`).  This directory holds TLA+ models of the parts whose
correctness depends on the order in which things happen, TLC runs that check
them on small instances, and TLAPS proofs that lift the most important results
to every instance.

## 1. Inventory

| part | state it keeps | operations | what makes it correct |
|---|---|---|---|
| auth sessions (`internal/auth`, admin switch in `internal/admin`) | `users`, `refresh_tokens`, JWTs in clients' hands | register, login, refresh, logout, authenticate, activate and deactivate | a replaced token is dead, no JWT outlives its row, an inactive account starts nothing, somebody can still administer |
| turf listings and moderation (`internal/owners` turf and moderation files) | `turfs`: status, details, reason, moderator | create, edit, delete, submit; approve, reject, suspend, restore; public and pending lists | one decision for each submission, the public sees the details that were reviewed |
| turf review page (web, admin) | the turf as the page loaded it | open, decide, show the answer | what it offers is what the server carries out, for the turf that was looked at |
| turf sports, amenities, images | link rows | attach, remove, cascade | the cap on images, no link without a turf |
| turf create and edit pages (web and mobile) | the turf shown, seven busy flags, requests on their way | load, create, save, submit, delete, attach, remove | an undisturbed page shows what is stored, no control stays dead |
| slots and availability (`internal/owners` slot files) | `turf_slots`, `turf_blocked_dates`, `turf_blocked_time_ranges`, settings on `turfs` | settings, generate, open and block, delete, block and unblock dates and ranges, read | slots never overlap, one grid, safe to retry, no deadlock |
| owner availability page (web) | slots and blocks of the viewed date | switch date, settings, generate, toggle, remove, block, unblock | it shows the date it says or an error, and the reason of what is unavailable |
| web session client (`lib/api.ts`, `lib/tokens.ts`, `AuthProvider`) | token pair in `localStorage`, `inFlightRefresh`, UI status in each tab | load, login, logout, call, refresh, storage event | a page never invalidates its own token, the stored pair is the current one |
| mobile session client (`mobile/services`, `storage`, `hooks`) | two keys in the keystore, status | as on the web, but storage is asynchronous, and the app can be killed | the two keys are of one session, a token is presented once, the splash screen ends |
| player and owner profiles (`internal/players`, owner profile files) and their forms | one profile row per user, preferred sports; what a form was filled with | load, type, replace, patch (read, merge, write), sports list | a field nobody touched survives, the sports shown are stored |
| web pages, routing; mobile screens | the open page, what it shows, its loads; the session | follow a link, load, reload, change the subject, switch an account on or off | what is shown was asked for and was read as whoever the page may be read as, no link leads to a refusal, every load ends |
| server lifecycle (`cmd/api`, `internal/server`, `internal/database`) | pool, listener | connect with retries, serve, drain, close | bounded start and stop: not modelled, see section 8 |
| HTTP plumbing, health, configuration, logging, validation, password hashing | none that outlives a request or a form | | not modelled, see section 8 |

How they interact.  Both clients call the API over HTTP and hold the tokens it
issues; every protected handler first calls `Service.Authenticate`.  The admin
handler calls the auth service (activation) and the owners service
(moderation).  Generation reads the settings the turf service writes.  Go code
shares nothing in memory between requests: handlers meet only in PostgreSQL,
**and no operation of this code opens a transaction**.  Each repository call is
one statement that commits by itself, except the batch of `InsertSlots`, which
is one implicit transaction.  That is what the models take as their grain of
atomicity.  In a browser tab or the app what runs between two waits is atomic;
tabs meet in `localStorage`, and a page goes on with the values its handler was
started with.

Behaviours that are hard here: several statements per operation without a
transaction (rotation, profile patch, image cap, generation); rows that make
other transactions wait (generation); rotating tokens held by clients that
lose answers, reload, are killed, and share storage; pages that act on what
they loaded earlier, send several requests at once, and let each answer replace
what they show.  `PROJECT.json` lists each at its line.

## 2. Modules

| module | models | state, and what it stands for |
|---|---|---|
| `AuthSessions` | the API's session half | `account`, `refresh_tokens` (tables); `held`, `access` (JWTs that reached clients); `req` (what each handler remembers between two statements); `now`, in ticks finer than the seconds of a JWT |
| `TokenServer` | abstract: what rotation promises the clients, and what `WebSession` assumes of the server | `issued`, `live`, `redeeming`, `rotated` |
| `TurfApproval` | abstract: what moderation promises the public | `stage`, `shown` for each turf |
| `TurfLifecycle` | abstract: the steps a turf's status takes, on which `TurfModeration` and the smaller server of `TurfEditor` must agree | `status` |
| `SlotCalendar` | abstract: what the slots promise those who read them | `open`, `closed` places |
| `TurfModeration` | turf rows and every statement on them | `turfs`, with a version number for what is attached; `admins` (accounts that are left); `review` (history: entries, decisions, approved details) |
| `ReviewDesk` | the admin review page composed with `TurfModeration` | `desk`: each administrator's page |
| `TurfEditor` | attachments of a turf, composed with the owner's web page and mobile screen | `status`, `items` (rows); `page` (what each window shows, its busy flags); `call` (requests and how far the server is with each) |
| `TurfSlots` | settings, generation, slots and blocks of one turf | `turf`, `slots`, `blockedDates`, `blockedRanges`; `gen` (each running generation, with the rows its batch has not committed); `configs` (history) |
| `AvailabilityPage` | the owner's availability page against that server, a request a step | `rows`, `blocked`, `configured`; `page`, `call` |
| `WebSession` | API client and `AuthProvider` in several tabs, against a server that rotates | `storage`, `ui`, `refresh` (`inFlightRefresh`), `call`, `notice` (storage events); server: `issued`, `fresh`, `live`, `late` (accepted, but no page waits); the rest is history |
| `MobileSession` | the same on the phone | `keys` and `queue` (keystore); `status`, `login`, `refresh`, `call`; server as above |
| `ProfileEditor` | profile rows and the four forms that edit them | `profile`; `editor` (the open form of each device); `call` |
| `Pages` | routes, guards, links, and the load cycle of every page and screen that reads | `stored`, `checking` (session); `another` (another tab replaced the tokens by another account's); `page`, `load` |
| `MC*` | instances for TLC | |
| `*Proofs` | theorems | |

One action is one SQL statement with the handler's computation up to the next
statement (`AuthSessions`, `TurfModeration`, `TurfSlots`, the server's half of
`TurfEditor` and of patches in `ProfileEditor`), or one turn of the event loop
(the clients).  Actions keep the names of the functions: `RefreshReadRow`,
`RefreshReadUser` and `RefreshRevoke` are the three statements
`Service.Refresh` makes before `issue`, which is `CreateRefreshToken` and
`SignPair`; `GenerateSlots`, `ReadBlockedDates`, `ReadBlockedTimeRanges`,
`InsertSlot`/`SkipSlot` and `Commit` are `Service.GenerateSlots`;
`CountImages` and `Attach` are the two statements of `AddTurfImage`.  A request
may end at any point (`EndRequest`, `Abandon`, `Refuse`): a statement failed,
the client hung up, the process was killed.  What was committed stays, an open
batch is rolled back.

Points where the model follows something other than the Go or TypeScript text:

- `InsertSlot` models PostgreSQL: `ON CONFLICT DO NOTHING` waits for a
  conflicting row that is not committed, skips one that is, and the batch is
  visible to others only after `Commit`.  `WaitsFor` is that wait.
- `Conflicts` is the `&&` of the generated column `minute_range`, with the
  bounds the migration gives it.
- `Generated` in `AuthSessions` is `gen_random_uuid()`.  Row ids are only ever
  compared for equality, so the unused one it hands out is fixed.
- `NumericDate` in `AuthSessions` is `jwt.NewNumericDate`, which cuts a claim to
  whole seconds, while the row keeps the fraction; `RowAgreesWithClaims` says
  what is left of their agreement.
- `DeleteAdmin` in `TurfModeration` is no endpoint: it is what the foreign key of
  `moderated_by` does when an administrator's row in `users` is deleted, which
  the schema provides for and `moderation_repository_test.go:306-337` tests.
- `OtherTabSignsIn` in `Pages` changes nothing on the page: it replaces the
  tokens in `localStorage`, and `AuthProvider` reacts only when none are left.
  From then on a request of the page goes out as its own account or as the
  other (`ReadAs`; a refresh that was under way may put the old tokens back),
  and is answered, or refused, as for that account.
- `WebSession` and `MobileSession` summarise the server by what a client can
  see of `AuthSessions`; a token pair is a number, and that an account was
  deactivated is an answer that is not ok (`FailRefresh`).  Two tabs may
  present one token, so in `WebSession` checking it (`AcceptRefresh`) and
  exchanging it (`ExchangeRefresh`) are two steps, and an exchange may happen
  after the page is gone (`ExchangeLate`).  In `MobileSession` they are one
  step: the app presents a token once at a time, and what the server does for
  an app that was killed since shows only as a token that is no longer usable
  (`Expire`).
- An answer that is lost and an answer that is late are the same to a client:
  `RefreshUnanswered` and `Lose` may happen after the server has acted, and a
  write nobody waits for any more (`Forgotten`, `Abandoned`) may still arrive.
- In `Pages` each page is a record of what its file decides (who is let in,
  where it leads, what starts a load, whether a load blanks the page or stops
  the one before, what a 404 and a broken-off body become), and one action
  stands for the same few lines of each of them.
- `refresh_tokens.parent`, `review`, `configs`, `rotated`, `presented`, `cut`,
  `session`, `overtaken`, and the `past`, `slotsRead`, `listsRead`, `crossed`,
  `stale`, `began` and `touched` parts of pages and calls are history no code
  reads.

## 3. Runs

| run | instance | shows |
|---|---|---|
| `auth` | 2 administrators, 1 player, 3 rows, 2 concurrent requests, clock from the middle of a second to its end, access tokens live a second | a JWT never outlives its row, and the row it by less than a second; `TokenServer` is implemented: a token is exchanged only by a redemption that found it usable, and is dead afterwards; once it is revoked only the redemptions under way bring a replacement, one each; an inactive account passes no check, and what had passed finishes; the last administrator falls only to one who was deactivated first |
| `auth_single_use` | 1 player, otherwise as `auth` | *violation*: two overlapping redemptions both succeed |
| `moderation` | `ReviewDesk`: 1 turf, 2 administrators each with a page, 4 versions of the details, 2 of the attachments, 4 reviews, deletion of administrators | reason and moderator fit the status and the accounts that are left; one decision per submission; the details the public sees are those that were approved; a page offers for a turf's present status what is carried out; `TurfApproval` is implemented |
| `slots` | 1 date of two time steps, two opening times, durations 1 and 2 at different prices, 1 range, 2 generations, 3 configurations | no overlap; the service's and the database's idea of a block agree; retry is safe; no circular wait; every generation ends; `SlotCalendar` is implemented: slots appear a batch at a time, each batch of one configured grid, and keep their place and price |
| `web_session` | 2 tabs, 2 calls and the start-up check in each, 2 token pairs, a token that is accepted from both tabs at once | a page presents a refresh token once; a superseded token is stored only while its replacement is on the way, or after a reload cut that off |
| `web_logout` | 1 tab | *violation*: a refresh that is answered after logout brings the session back |
| `turf_editor` | 1 turf, 1 window (page or screen), a cap of 1 image and 3 images, 2 requests at once, 4 clicks or moderations | a page nobody disturbed shows what is stored; a disabled control waits for something; the cap is exceeded by less than the number of requests; a deleted turf has nothing attached |
| `availability_page` | 2 dates of one slot and the emptied input, opened before or after a generation, 1 block of each kind on the first date, 2 requests at once, 3 acts | a page whose requests did not overlap shows, once idle, the stored slots with the availability present blocks give them, the blocks, and whether slots can be generated, or the error of the load that failed |
| `mobile_session` | 2 calls and the start-up check, 2 token pairs, 2 kills | a running app presents a token once; one kill never mixes the tokens of two sessions; the splash screen ends |
| `profile_editor` | a browser and a phone with all four forms, 2 sports, 2 requests at once, 4 acts | an untouched field survives a save and a patch unless something was written in between or the form began blank; the sports shown are stored; every form settles |
| `profile_blank` | the player's form on the phone | *violation*: a load that fails begins a blank form, and its save clears fields nobody touched |
| `pages` | 2 subjects, 2 changes of what is stored, 2 loads at once, 3 acts of the reader, every page and screen | what is shown was asked for, and read since; pages behind a guard show only their reader's data, or that of the account another tab signed in under them; no link leads to "You do not have access"; every load ends |

Why the bounds are enough.  Two requests, administrators, tabs or devices are
what it takes to interleave; where more could matter (three redemptions of one
token, many adds over the cap, three batches that wait in a circle) the property
is proved for any number.  Three rows are a token, its replacement and one more
of either.  A request that will insert a row starts only while one is left for
it.  A second has two ticks in the `auth` run, and the clock starts between two
seconds, so that an expiry has a fraction to lose; one tick later the access
tokens issued at the start, whose claims lost it, have expired.  The expiry of a
refresh token is not reached there, and the theorems hold for every clock, every
lifetime and every length of a second.  With two requests and three rows a token
cannot have a third replacement in the run; `OnlyOverlapping` is about the
second, which must not come from a redemption that starts after the first, and
`RedemptionBound` proves the count for any number.  That both tabs win the race
for one token needs a third pair; with one call instead of two that is six
million states, which was checked apart from the run, and `WebSessionProofs`
covers any number.  Two time steps with durations 1 and 2 and two openings are
the least that give grids whose slots overlap without starting together, a slot
that meets a block and one that only touches it, a day too short for one slot,
and batches of several rows; several dates, and grids that cut across each other
further, are left to the proofs.  Four versions and reviews let a turf be
approved, edited, and reviewed again, on pages that show an older state of it;
one change of the attachments tells a listing that changed in place from one
that did not.  Three acts on the availability page are a write, a change of the
date and another write, each with its loads.  Three images with a cap of one and
two requests are what it takes to overrun the cap and to have one image left.
Two token pairs are a login and its rotation, or two logins; two kills show that
the first is already excluded from what the property promises.  Two subjects,
dates or sports tell an answer about one from an answer about the other.

`MaxTime`, `MaxConfigs`, `MaxDetails`, `MaxAttachments`, `MaxReviews`,
`MaxPairs`, `MaxKills`, `MaxActs`, `LastChange` and `MaxLoads` bound counters
the code does not bound, in the guards, and `Calls` bounds the requests at once;
at a bound a model may stop, hence `CHECK_DEADLOCK FALSE` where the
configuration has it.  Symmetry is used where only safety is checked.

Each property has a mutant: a variant of one definition that a plausible bug
would produce, kept next to the definition as an operator named after
what it gets wrong, under which TLC finds the property violated.

## 4. Fairness

- `AuthSessions!FairSpec`: weak fairness of `Serve(r)`.  `net/http` runs every
  request in a goroutine of its own, and a statement returns or fails.
  Clients are not obliged to send anything and the clock not to advance.
- `TurfSlots!FairSpec`: strong fairness of `GenStep(r)`.  An `INSERT` that
  waits for another batch is disabled until that batch ends and may be
  disabled again by the next; PostgreSQL queues the waiter on the transaction
  it waits for, so it does not lose for ever.  Owners are not obliged to act,
  and generations not to be abandoned.
- `MobSpec`: weak fairness of the keystore, of the refresh and of each call.
  `send` gives every request a timeout, and the platform's store answers.  The
  person is not obliged to do anything, and may kill the app.
- `ProfileEditor!FairSpec` and `Pages!FairSpec`: weak fairness of what becomes
  of each request and, in `Pages`, of the start-up check, for the same reason:
  a request is answered, breaks off or times out, and JavaScript runs what
  waits for it.  Nothing is assumed of the person, or of others who write.
- Moderation, the review page, the turf editor, the availability page and the
  web session are checked for safety only.

## 5. Proofs

`AuthSessionsProofs`.  `StateInv` = `TypeOK` and `HandlerInv`, which says what a
handler may rely on between two statements: the row it read exists, a token
being replaced is revoked once `issue` starts, and the row to be signed is the
row inserted.  Without it `RowAgreesWithClaims` and `ReplacedIsRevoked` are
not inductive.  `RowsAgree` carries the row's expiry to the moment of signing and
there rests on `NumericDate`, which takes off less than a second and adds
nothing.  `OverlapOnly` is proved by counting: an insert turns one member of
`Redeeming(t)` into one of `Children(t)`, and a revoked token is never found
usable, so that their sum (`Redemptions`) does not grow any more;
`RedemptionBound`, that the sum is never above the number of requests, follows
with it.  The action properties follow action by action.
`LockoutOnlyByCrossing` and the others hold for any accounts and requests.

`RotationImplemented`, in the same module: the handlers implement
`TokenServer`.  A row is a token, `Usable` rows are `live`, a token is
`redeeming` while some request is between its check and the insert, and
`rotated` when it has a replacement.  The revocation is a `Retire`, the insert
an `Exchange` of a token that is dead by then, which is `HandlerInv` again, and
a request that ends a `GiveUp`, unless another still redeems the same token
(`OpenAfter`).  `TokenServer` does not say that a token is exchanged once,
because it is not (section 6).

`ReviewDeskProofs`.  The first part is about the statements of `TurfModeration`.
`ModerationInv` adds that a pulled turf was reviewed and that listed turfs have
details.  `DecisionsRecorded` follows the moderator through the history: the row
names the one who decided last, until `DeleteAdmin` clears it. `RefinesApproval`
shows that every statement is a step of `TurfApproval` or a stutter under the
mapping at the end of `TurfModeration`: at most one turf moves (`OneTurfMoves`),
and how it moves is one of the abstract actions (`StepsRefine`); a change of the
attachments of a public turf is an `Attach`, which is why `TurfApproval`
promises no more than the details.  The pages add nothing the statements do not
allow: `DeskImplementsModeration` shows that the composition, with its pages
hidden, is a behaviour of `TurfModeration`, so its theorems hold of the
composition, which is what the `moderation` run checks.  `DeskKeepsLifecycle`
shows that it keeps to `TurfLifecycle` too: a statement moves one status, and
each move is one of the eight that are listed there.  `OfferedIsAllowed` is the
part of `FreshClickAccepted` that can be said without `ENABLED`: for each
decision offered for a status, the statement behind it expects that status.

`AvailabilityProofs`, first about `TurfSlots`.  `IInv` says that committed and
uncommitted slots of one batch are pairwise apart (`Separate`), that a batch
inserts in ascending order (`Ordered`), and that each row comes from one
configuration (`Configured`). `CandidatesApart` is arithmetic on the grid.
`WaitsAcyclic` needs no bound on the number of batches: a batch waits only for
one that holds a row which is not before the next row of the waiter, and
everything a batch holds is before its own next row, so along a chain of waits
the awaited moments ascend; an ascending chain in a finite set of moments has no
circle.  That rests on the order in which `buildSlotCandidates` builds
candidates, which nothing in the code says is relied upon.

`CalendarKept`: to those who read it the table is a `SlotCalendar`, where an open
or blocked row is an open or closed place.  A reader sees nothing of a batch
until `Commit`, which is one `Publish`: `Gridded` says that what was inserted by
then is of one grid, `Chosen` that this is a grid an owner can have configured,
and `Separate` that it is clear of what others inserted meanwhile.  Every other
statement concerns one row, and no two rows have one place (`OneRowPerPlace`), so
it closes, opens or removes one place.

Two theorems are the part of `GenerationEnds` that needs neither fairness nor
`ENABLED`.  `GenerationsDescend`: whatever changes a running request leaves it
fewer steps (`StepsLeft` counts them).  `SomeGenerationGoesOn`: while requests
run, one of them satisfies `MayGoOn`; that is `WaitsAcyclic` once more, taken at
the end of a chain of waits.  `MayGoOn` writes out the guards of the disjuncts of
`GenStep`; that it is their `ENABLED` is by reading.  The fairness in section 4
does the rest, and TLC checks the whole.

`GenerationAlone` says what a generation comes to.  One that runs while nobody
else changes anything ends with the table it found, `Filled`: with every
candidate that conflicts with no slot, and nothing else.  Such a generation may
still find rows of batches that stand still, and then it does not end; the
theorem is about what it leaves when it does.  `RetryAddsNothing` is the comment
on `GenerateSlots`, "always safe to retry", for every grid and table: `Filled`
twice is `Filled` once.

`AvailabilityProofs`, then about `AvailabilityPage`.  `IdlePageIsCurrent` speaks
of a page that waits for nothing; what it waits for decides whether it will
hold. `InStep` says for a page whose requests did not overlap: the turf is
loaded before anything else; two requests at once are the loads of slots and
blocks that follow (`Alone`); and the list of slots, the two lists of blocks and
the settings are each what is stored, unless a request has yet to read it or was
carried out and brings the change (`SlotsFollow`, `BlocksFollow`,
`SettingsFollow`).  What a write brings is right for one of three reasons: the
handler applies to the list just what the statement did to the table
(`SlotsToggled`, `SlotsRemoved`); the write is about another date than the one
that was viewed when its handler started, and the list of this date is the same
(`SlotsElsewhere`); or the list is loaded again (`Reloads`).  That it is enough
to compare with the date at the start needs `Alone`: a change of the date is a
request too, and would overlap.  Any request may be refused.  A refused write
changes nothing; a load that is refused leaves the old list, and `slotsRead` and
`listsRead` say so: `SlotsFollow` then asks for the error, which only the next
load of the slots clears, and `BlocksFollow` for a list that shows no block that
is gone.

`AvailabilityProofs`, last, about both.  The server of `AvailabilityPage`
generates in one step, `ServeGenerate`.  `GenerationServed` shows that this step
is `Filled`, seen through `RowsOf`, which keeps of a slot its date, its place
and its status. It assumes what that module can express: all slots are on the
grid of one configuration, and `SeenAs`, that the page's blocks cover the slots
that generation would leave out.  With `GenerationAlone` the step is what
`TurfSlots` does when it is not disturbed.  The page promises something only
after requests that did not overlap (`past` is "serial"), so undisturbed is the
case that matters to it.

`WebSessionProofs`.  `PresentedOnce` and `StoredIsCurrent` are not inductive.
`PendingUnseen` says that the pair a refresh is bringing is not stored, not
rotated, and known to no other tab; `PresentedInFlight` says that a page which
has presented the stored token is still waiting for the answer; `LateUnheld`
that what the server may still exchange for a page which is gone is stored only
if a reload cut that page's refresh off, and is not about to be stored.  With
the types they are `IInv`, for any number of tabs, calls and pairs.
`ServerRotates` shows that the server in this module does nothing that
`TokenServer` does not.  That it does everything `TokenServer` may is by reading,
action by action: `Grant` is in `Login`, `Accept` is `AcceptRefresh`, `Exchange`
is `ExchangeRefresh` or `ExchangeLate`, `GiveUp` is `FailRefresh`, and `Retire` is
`RefreshExpires`.  So whatever the handlers do to a token, the tabs were checked
against.

`TurfEditorProofs`.  `IInv` adds to the types that a request and a page are
about a turf unless they are about to create one (`CallsAimed`, `PagesAimed`),
which needs that a new page waits for one creation only.  `NothingOrphaned`
follows because only `Attach` makes the attachments of a turf grow, and its
statement looks at the turf.  `ImagesStayBounded` counts, like the bound on
redemptions: a request that passed the count may turn into one image, and at
most as many pass it as there are requests.  `ControlsRecover` strengthens
`NoDeadControl` by excluding the load, which is no control's request, and shows
it page by page: a step of the page frees the control whose request is over, any
other step leaves its requests in flight.  `PagesShowTheTurf` says of a page
whose requests never overlapped that it has at most one (`InStep`), which brings
the row as it is stored: until the server acted the page shows the row, after
that the answer carries it (`Brings`).  A step of another window on the same
turf ends the history that the property is about.  `PagesKeepLifecycle` holds
the server in this module to `TurfLifecycle`, as `DeskKeepsLifecycle` does the
statements of `TurfModeration`: lost, late and abandoned requests included, it
writes no status that the real statements could not write.

`MobileSessionProofs`.  `RefreshedOnce` counts what was presented, so the
invariant must say that the next token to be presented was not.  It is read from
the keystore when the request for it is done, not when it is made, hence
`Ready`: the keys hold no presented token now, or a write in the queue comes
before the read.  `Orderly` says that every pending read and write has one owner
(the refresh, the login, or calls that wait for just it), `Spare` that a pair
which is still to be written is not stored and not presented, and `Awaited` that
a refresh has somebody who waits for it; that one removes the token if the
refresh is not answered.  A kill loses the queue and everything that refers to
it at once, and the count begins anew.

`OneSessionStored` rests on who may put tokens into the keystore, and when.
`JInv` says who waits for what (`Staged`: a login is outstanding only while nobody
is signed in, a refresh begins when the removals before it are done) and, until
the app is killed or a logout overtakes a refresh, that both keys are of one
pair and that whoever logs in does so behind the removal of what was stored
(`OneSession`).  So a write replaces both tokens by a pair of the same session, or
comes when there are none, and the one kill that the property allows leaves
tokens of one session, or at most one token.

`PagesProofs`.  `ShownToItsReader` speaks of what is shown; what is still on its
way decides whether it stays true.  `Fits` adds that the requests of a guarded
page were made by its reader, or with the tokens another tab has put in their
place (`ReadAs`), that a page which is open is open to its reader,
and that one which is closed or crashed holds nothing.  A change of the session
is the hard step (`BecomesFits`): a page stays mounted only if the new session
may see it, and a guarded page admits neither the anonymous nor a session that
is not resolved, so between two accounts it always goes.  A sign-in in another
tab is no such change: it only lets `ReadAs` grow, until the session ends, begins
or is resolved anew.

`ShownAsAsked` needs `AskedFor`, which says the same of what is on its way: an
answer that still may be shown is about the subject of the page and as recent as
the last request, and a page that asks again waits for one answer at a time.
`OffersLead` has two parts.  `RoutesLinked` goes through the table of routes and
shows that every link on a page leads to where everybody who sees it may go, and
`Linked` carries that over changes of the session, return addresses and
redirects.  `Paged` says that nothing on the page or on its way to it is of a
later change than there was, so "Next" is offered only by a page that exists.

`ProfileEditorProofs`.  `IInv` says of a form, and of each request of it, what it
took from the profile.  `FormFits`: a form that was filled from a profile holds
what is stored in every field its person did not touch, unless the fields were
written since; a save on its way carries such a form (`CallFits`), and a load or a
patch that was read carries the profile.  `LoadsAlone` keeps a load apart from
everything else the form does, `AbsencesFit` says that a 404 on its way is still
true, and `SportsFit` that the one sport being written is answered with the rows
that are stored.  `UntouchedFieldsSurvive` is an action property and follows from
`FormFits` at the moment the statement is executed.  The invariant is false of a
form that began blank over a load that went wrong, which the property therefore
excepts; that is the third finding below.

Assumptions.  The named `ASSUME`s: identifiers are distinct from the values
that stand for their absence, the sets of rows, requests and images are finite,
a refresh token outlives an access token, bounds are natural numbers, midnight
is after every closing time, sports, amenities and images are different things,
a request is not the value that stands for none (`NoneAssumption`,
`FreeAssumption`), and there is something to type into a form.
TLC evaluates them in each run.

Only model-checked: the liveness properties (`DeactivationDrains`,
`GenerationEnds`, `SplashEnds`, `EditorSettles`, `LoadingEnds`), which need
fairness, and `FreshClickAccepted`, which uses `ENABLED`: neither is within
reach of the prover.  Every other property of the passing runs is a theorem.  A
few theorems state what no run checks: `OnOneGrid`, that every slot is of a
configuration the turf has had, is part of `IInv` and follows for published
slots from `KeepsCalendar`; `KeepsLifecycle` and `EditorKeepsLifecycle` are
proved for any turfs and pages.

A proof that failed for a reason changed a model: `Badge` of `AvailabilityPage`
was a `CASE` whose first two guards both hold of a slot that is blocked, which
leaves the result open where `SlotStatusBadge` returns at the first; it is a
nested `IF` now.  And `AuthSessions` could not be shown to implement the
server that `WebSession` had: that one checked and exchanged a token in one
step, so of two tabs one always lost, where the handlers may give both a pair.
The model has both steps now, `StoredIsCurrent` survived, and its invariant
needed `LateUnheld`.

## 6. What the checks found

Each is a run with `expect: violation` and an entry under `findings`.

1. `Service.Refresh` calls its token single use; two overlapping redemptions
   both get a pair, because `RevokeRefreshToken` does not report whether it
   revoked anything.  The number of pairs is bounded by the requests that
   overlap.
2. A refresh that is in flight during logout stores the new tokens afterwards.
3. The player's form on the phone takes every failed load for a profile that
   does not exist, begins blank, and replaces what is stored.

Also seen while modelling, without a run.

In the backend:

- `RestoreTurf` assumes a suspended turf did not change
  (`moderation_repository.go:95-97`); `UpdateTurf` accepts edits of one, and
  they are published unreviewed.  `PublicOnlyAfterReview` counts exactly these.
- The comment on `UpdateTurf` (`turf_repository.go:105-107`) says that "an approved
  listing that could be silently edited after review would make the approval
  meaningless"; the sports, amenities and images of an `APPROVED` turf change at
  once and without review (`turf_repository.go:195`, `245`, `294`).
  `TurfApproval` has this as `Attach`.
- The comment on `RefreshExpiry` (`token.go:65-67`) says the row and the claim
  always agree; the claim loses the fraction of the second that the row keeps
  (`token.go:97`), so the JWT ends up to a second before its row.
- `PendingTurfs` promises oldest submission first
  (`moderation_repository.go:11-12`) and orders by creation.
- An approval names the turf and its status, not the details that were shown;
  an edit of a pending turf in between (`turf_repository.go:105-107`) is
  published unseen.
- The comment on `Service.Logout` (`service.go:145-148`) is about a token that
  may have been rotated since; its replacement stays usable.

In the clients:

- `refreshSession` with nothing stored (`lib/api.ts:151`) leaves its resolved
  promise in `inFlightRefresh`; the tab cannot refresh until it is reloaded.
- The comment in `refreshSession` (`lib/api.ts:175-176`) says tokens are left
  alone when the network fails, but the caller ends the session in that case.
- `toResult` turns a successful answer whose body breaks off into `undefined`
  (`lib/api.ts:191`), although line 19 speaks of "any failed request".  Several
  pages then read a field of it: `PublicPlayerPage`, `PublicTurfDetailPage`,
  `PlayerProfilePage`, `OwnerProfilePage`, `AdminUsersPage`, `StatusPage`.  In
  `Pages` that is the load state "torn".
- The other profile forms begin blank too when a body breaks off; a save is a
  full `PUT`, so of two devices the later one undoes the earlier.  One
  `pendingSport` stands for all rows.
- The mobile edit screen saves without coordinates and so clears them
  (`OwnerTurfEditScreen.tsx:67-68`).
- The comment at `AdminTurfReviewPage.tsx:20-24` says a click the server would
  refuse is never sent; the page works on a snapshot, so it can be.
- `onTokensChanged` is documented as a subscription to "sign-in and sign-out in
  other tabs" (`lib/tokens.ts:43`); `AuthProvider` reacts to the sign-out only
  (`AuthProvider.tsx:56-62`).  After another account has signed in in another
  tab this one goes on under the old name and loads the new account's data with
  the new tokens.  `ShownToItsReader` excepts exactly that.
- A start-up check whose body breaks off leaves `AuthProvider` authenticated
  without a user (`AuthProvider.tsx:36-39`), and a guard with roles throws
  (`ProtectedRoute.tsx:32`; `ResolveBroken` in `Pages`).
- On the availability page a load of slots that fails leaves those of the date
  before under the new one (`OwnerTurfAvailabilityPage.tsx:99-101`), with the
  error, and they can be toggled and removed; emptying the date input is enough
  for it (`slot_handler.go:67-71` refuses the empty date).  The error of a list
  of blocks that was never loaded is cleared by the next block
  (`OwnerTurfAvailabilityPage.tsx:188`, `213`), and the list then looks complete.
- Requests of one page that overlap may leave what is older on it: the
  availability page, whose handlers compare with the date they were started
  with (`OwnerTurfAvailabilityPage.tsx:193`), the edit pages of a turf, where each
  answer replaces the whole turf, and the sports of a profile.  Two patches of a
  profile that overlap may undo one another (`players/service.go:55-63`).  The
  models have these interleavings; `IdlePageIsCurrent`, `ShownIsStored`,
  `ChosenIsStored` and `WritesKeepTheRest` except them.
- `AdminUserDetailPage` keeps the account it shows while the next one loads
  (`jumped` in `Pages`); screens that load on focus do not put their answers in
  order (`Overlapping`).
- The start-up read of the keystore has no catch (`AuthProvider.tsx:30` of the
  app): a store that throws leaves the splash screen.  `MobSpec` assumes it
  answers.

## 7. Plan

What would add most next, in this order:

1. What `AvailabilityPage` may promise while other requests for the turf overlap a
   generation.  `GenerationServed` covers a generation that runs alone, and a
   page with a history of overlaps is promised nothing.
2. Violation runs for the observations above, should any of the three findings
   be repaired.

## 8. Not modelled

- Server lifecycle.  Connecting, signals, draining and closing the pool are a
  few lines around the Go runtime and pgx (`main.go:64`, `postgres.go:82`);
  a model would consist of assumptions about those.
- HTTP plumbing, health, configuration, logging, validation and password
  hashing are functions of one request or of the environment.
- The navigator of the app is reduced to one open screen: its stack, gestures
  and animations are the platform's.

Within the modelled parts: names, coordinates and free text are data no rule
depends on and are a version number, present or absent, or left out. Ownership
is assumed: each statement carries the owner's id in its `WHERE`, so an action
is that of the turf's owner.  Accounts are deleted by no endpoint.
`TurfModeration` has the deletion of an administrator, whose decisions stay;
that of an owner cascades to the turfs, as `DeleteTurf` does; in `AuthSessions`,
where it would take the rows of the account along, it is left out.  Requests for
rows that do not exist change nothing and are left out where no page shows their
answer.  The order of the pending queue and the user list (two statements that
only a page displays) change nothing.  `PublicSlotsForDate`, which reads the
slots and then the turf, is one read in `Pages`, and so is a public turf, whose
row and attachments are read by four statements.  `AvailabilityPage` and
`TurfEditor` treat a broken-off body as no answer; `Pages` and `ProfileEditor`
show what it does. The two lists of blocks are loaded by one request in
`AvailabilityPage`, which brings both, one or none of them.  After a start-up
check whose body breaks off, a web page that is open to all, or to every role,
would go on without an account: `Pages` stops at the guards that throw. React's
double mount in StrictMode is a development aid and left out. Rate limits,
backups and replication do not exist in this code.
