# A verification project for the Editorial Content API

TLA+ models of the Go service in `src/`, TLC configurations that check them on
small instances, and TLAPS proofs that hold for every instance. Every
definition is translated from the code; `PROJECT.json` says for each one which
lines it stands for. (There are no tests in the repository; its documentation
is `README.md` and the comments.)

Contents: 1 inventory · 2 modules and the code · 3 runs · 4 bounds and fairness ·
5 proofs · 6 where the code and its documentation disagree · 7 what is not
modelled · 8 plan

## 1. Inventory

The service is one process. Every HTTP request runs in a goroutine of its own
and shares nothing with the others in memory except the rate limiter's map;
what they share is in MySQL (`refresh_tokens`, `users`, `posts`) and in an S3
store. No code opens a transaction over two statements, and every call takes
the request's context, so it can fail, or take effect and have its answer lost,
at any point. One more goroutine, the janitor, deletes expired refresh tokens.

| component | state | operations | correct when |
|---|---|---|---|
| refresh token table (`mysql/refresh_token_repository.go`, `domain/refresh_token.go`) | rows: user, expiry, revoked_at, replaced_by | Create, FindByHash, Revoke, RevokeAllForUser, DeleteExpired | a secret is issued once, revoked for good, linked at most once to a successor that is remembered as long as it is, forgotten only when dead |
| AuthService (`service/auth_service.go`) | the handlers' local variables | Login, Refresh, Logout, Cleanup, VerifyAccessToken | rotation leaves one good token per chain and a revoked one is refused; a disabled account loses access; logout revokes |
| auth handlers, cookie (`http/handlers.go`, `middleware.go`) | the browser's cookie | login, refresh, logout, requireAdmin | the client ends with the token the table considers current |
| janitor (`cmd/server/main.go`) | a timer, set for the process's first minute and then for six hours after each sweep | sweep, give up after a minute, end with ctx | the table does not grow without bound and nothing alive is swept |
| PostService (`service/post_service.go`, `mysql/post_repository.go`) | rows of `posts`; two objects per article | SaveDraft, Publish, GetPublicBySlug | a row has its objects; the page matches the source; publishing is neither undone nor done by a save; the date is that of the first publication |
| renderer (`markdown/`) | none | Render | a function of the text |
| object store (`storage/`) | objects | Put, Get, Delete (never called) | external |
| revalidator (`http/revalidator.go`) | the blog's cache (external) | Revalidate | the blog shows what is published |
| rate limiter (`http/middleware.go`) | admitted times per address, in memory, under a mutex | allow | at most the limit in any window, no undue refusal |
| images (`service/image_service.go`, `http/handlers.go`) | the upload under way; objects | Upload | only whole images are stored, "created" can be relied on, and no image within the limit is refused |
| configuration (`config/config.go`) | read once, at the start | Load | what the other components assume of it is checked |
| start and shutdown (`cmd/server/main.go`) | where main is; the signal | open, migrate, listen, shut down | a signal ends the process, however slow its handlers are |
| list and pagination (`post_service.go`, `post_repository.go`, `router.go`) | `posts` ordered by `updated_at` | List | a client that walks to the end has been shown what was there all the while |
| routing, CORS, logging, JSON shapes | – | – | see section 7 |

Interactions: handlers call services, services call repositories and the store,
one statement or object at a time; Publish calls the blog after its row is
written and ignores the outcome; the janitor and an operator's SQL (the only
thing that changes `users.is_active`) act on the same tables at any time.

What is hard: the interleavings of requests between any two statements, a
verdict on a row that has changed since it was read, a sequence of writes of
which some happened (error, lost answer, crash), rows that point to one another
while they are being deleted, and the boundaries of time comparisons.
`PROJECT.json` lists each such hazard at its line under `hazards`.

## 2. Modules and the code

| module | models |
|---|---|
| `RefreshTokenTable` | the table's rows and its statements, as operators from a table to a table |
| `RotationLedger` | the abstract promise of that table: secrets are issued, rotated, retired, purged |
| `AuthService` | the auth service, the handlers' answers, sweeps at any moment, operator, time, crashes |
| `RefreshTokenCleanup` | `runRefreshTokenCleanup` beside `AuthService`: when a sweep comes, what follows it, ctx, restarts; `auth_live.cfg` |
| `MCAuth` | symmetry for TLC; the `auth_*.cfg` but `auth_live` |
| `AuthServiceProofs`, `AuthRefinementProofs` | proofs of the invariants, that AuthService implements RotationLedger, and that the janitor on its timer is one AuthService allows |
| `AuthPatientProofs` | proofs of what holds when clients wait for their answers, or the database answers |
| `AdminSession`, `MCSession` | composes `AuthService` with the administrators' browsers: the cookie handlers, lost answers |
| `AdminSessionProofs` | proofs of all its properties, on top of those of `AuthService` |
| `PostService` | saves, publishes and public reads over the posts table and the store |
| `MCPosts` | symmetry for TLC; `posts_*.cfg` |
| `PostServiceProofs`, `PostPatientProofs` | proofs of its invariants, and of what patient editors can count on |
| `PostListing` | `List` as a walk from page to page, over a table that is written to meanwhile |
| `ImageUpload` | the two limits of an upload, what may fail before the store, its verdicts and its answer: operators on one record |
| `Configuration` | `config.Load`: fallbacks and checks, as operators on an environment |
| `ContentServer`, `MCContent` | composes the three with `main`: start, signal, drain, deadline, exits, crashes; its instance |
| `ContentServerProofs` | the proofs about uploads and about walks through the list |
| `LoginRateLimiter`, `MCLimiter`, `LoginRateLimiterProofs` | the sliding window, its instance, its proofs |

**A handler is a sequence of actions, one for each statement or object call**,
because that is where other requests can come in. `req[r].pc` names the call
that comes next, the other fields are the handler's local variables, and a slot
goes back to `Idle` when the handler has answered. What a handler computes
between two calls belongs to one of them.

| handler | actions |
|---|---|
| Login | `LoginFindByEmail` → `LoginVerify` (bcrypt, then `time.Now`) → `LoginStamp` → `IssueTokens` → `Reply` |
| Refresh | `RefreshFindByHash` → `RefreshCheck` (`time.Now`, revoked, expired) → `RefreshFindByID` → `IssueTokens` → `RefreshRotate` → `Reply`; or `RefreshRevokeAll` after a replay or for a disabled account |
| Logout | `LogoutFindByHash` → `LogoutRevoke` → `Reply` (204 whatever happened) |
| janitor | `Fire` (the timer; `time.Now`) → `Sweep` (`CleanupExpiredRefreshTokens(o, before)`, and the timer is set again) or `Return`; in `AuthService`, a sweep at any moment with any earlier `before` |
| SaveDraft | `SaveDraft` → `PutSource` → `PutRendered` → `CreatePost`, or `FindExisting` → `UpdatePost` |
| Publish | `Publish` (FindByID and the checks) → `UpdateStatus` → `PublishReread` → `Revalidate` |
| GetPublicBySlug | `FindPublishedBySlug` → `GetRendered` |
| allow | `Allow`: one action, it holds the mutex throughout |
| SaveDraft, Publish, as the list sees them (`PostListing`) | `CreatePost`, or `FindExisting` (the status) → `UpdatePost` (the time), or `UpdateStatus`; then `EndWrite` or `FailWrite` |
| List | `CountPosts` → `FindPosts`; a client starts with `BeginWalk`, adds the limit it is told to its offset, and ends at the total |
| handleUploadImage | `Upload` (everything up to the store, with what failed on the way) → `Put` (its outcome, and the answer) |
| main | `Start` (Load) → `OpenDatabase` → `Listen` (ping, migrate, listener) → `Shutdown` → `Drained` or `DeadlineExceeded`; `ExitOnError`, `Crash` |

A statement has an outcome: `ok`, `refused` (no effect, an error) or `lostAck`
(the effect, and an error). `Applied` and `Succeeded` tell the two sides apart.
An error where the code ignores it (`AfterRotate`, `LogoutRevoke`,
`RefreshRevokeAll`) leads where the code goes on.

**The browsers.** `AdminSession` adds to `AuthService` who waits for the answer
of a slot (`caller`) and what is in each browser's cookie. A request presents
the cookie; when its handler ends, `CookieAfter` is what `handleLogin`,
`handleRefresh` or `handleLogout` writes: the new token, nothing after any
logout and any refresh that failed, and no change after a login that failed. A
browser may give up waiting (`GoAway`) or lose its answer with the server
(`ServerCrash`), and the handler's effects stay. A browser has one request
under way, as the documentation tells the page to see to (`src/README.md:429`),
and may log in at any time, with a cookie or without: a page whose refresh has
failed goes to `/login` (`src/README.md:419`), and while a refresh that reached
its handler has cleared the cookie then, a 429, which is sent before the handler
and is a stutter here, has not. A login over an old cookie leaves the row of
that good (no code revokes it); it belongs to the session before. Accounts are not
disabled here (`AuthService` has that). Time is counted in seconds at least:
`Max-Age` is the rest of the row's life cut down to whole ones.

**The list.** `updated_at` is GORM's `autoUpdateTime`: it takes the clock before
the statement is sent. `newer` holds these times by their order only: for each
time, the set of those that are later. A statement under way has its time
already, known by its editor until the row takes it over; only the relative
order of rows matters, so there is no clock. A row's place in the list
(`Place`) is the number of selected rows with later times. Two times are never
equal here; the column has microseconds, and rows that do tie may come in any order, which no offset can survive. An
article's status is carried from the read to the write, so that a stale save
may take an article off the list, as in `PostService`: `FindExisting` reads it,
and only `UpdatePost`, a statement later, takes the time.

**The janitor.** `RefreshTokenCleanup` counts minutes for the timer and for the
sweep's deadline (`Minute`), beside the clock of `AuthService`, whose unit is
that of the lifetimes. The timer is part of the process: `Restart` is the
`Crash` of `AuthService` with a timer set for its first delay. A signal ends the
janitor when it next waits (`Return`), and the process some time later.

**Uploads.** `Faults` is what may go wrong before the store is called. An error
in the multipart form that is not the limit's is answered "image file is
required" whether there was a file or not, as the handler does; the reading of
the file and the drawing of an id end in a 500.

**main.** `Listen` stands for everything between the open database and the
listener: ping and migration take a context that ends with the signal and a
deadline of their own, but a signal after them is not noticed before the
listener is there, so `Listen` does not ask for it. `End` is every way in which
the process ends: all handlers go, and a statement that had been sent has taken
effect before, or never will.

Abstractions. A token's secret, its hash and its id are one value. `revoked_at`
is a boolean: only its being null is tested. `user_agent`, `ip_address` and
`created_at` are never read. `is_active` stands for the role as well. A JWT is
the grant that it was signed from. All of an article's columns an editor fills
in, except the slug, are one value, `meta`. The optional inheritance of
`author_id` and `archived` (a status no code writes) are left out. History
variables, which no action reads to decide anything: `issued` (which grant made
which row), `users[u].since`, and the limiter's `admitted`, of which the code
keeps the part `hits` names; `trail`, `smooth` and `lossless` of the browsers
(what was issued to one since its login, whether its statements worked and its
answers came); `missing` of a walk (what it should still come to see); `limit`, `fault`
and `stored` of an upload; `lived` of a process (how long it has been up).

The operators marked "Seeded fault" are what a plausible bug would have made of
the definition that follows them. No specification uses them; putting one in
the place of its neighbour must make the property it belongs to fail
(`mutants` in `PROJECT.json`).

## 3. Runs

| run | shows | instance |
|---|---|---|
| `auth_concurrent` | `ReplacedByIntact`: a row that names a successor is revoked and the successor is there; `IssuedBacked`: no secret loses its row early; `RefinesLedger` | 2 requests, 3 tokens, all outcomes, crashes |
| `auth_patient` | `RotationLinks`, `RevokedNeverAccepted`, `LogoutRevokes`, `DisabledUserLosesAccess`: what holds when an account's requests do not overlap and the database answers | 2 requests, 3 tokens, 2 users (one managed by an operator), crashes, `PatientSpec` |
| `auth_live` | `RequestsFinish`: no handler goes round or waits for ever; `ExpiredEventuallyPurged`: every dead row goes, through failing sweeps, signals and restarts, if again and again a process lives to its first sweep | 1 request, 2 tokens, 1 user who may be disabled, first delay 1, interval 2, timeout 1, all outcomes, restarts at any time, fairness |
| `posts_concurrent` | `RowsHaveObjects`, `DatedIffPublished` | 2 editors, 1 reader, 2 articles, 2 slugs, 2 texts, all outcomes, crashes |
| `posts_patient` | `ObjectsAgree`, `PublishedStaysPublished`, `PublishedAtStable` | 2 editors, 1 reader, 2 articles, 2 slugs, 2 texts, `PatientSpec` |
| `admin_session` | `CookieStaysGood`: no browser at rest holds a token that would be taken for a replay, while no answer is lost; `OneLiveToken`: nothing of a session is good but the cookie; `StaysLoggedIn`: nobody else's request ends a session | 2 browsers, 2 requests, 1 account, 3 tokens, all outcomes, crashes |
| `content_server` | `WalkComplete`: a walk to the end has shown every article that was there and untouched, unless one it had passed slipped back or one joined between count and read; `UploadsJudgedRight`: only whole images are stored, "created" means stored, and no image whose request is within the limit and arrives is refused; `ShutdownEnds` | 2 articles, 2 editors, filters all, draft and published, limits 1 and 2, 64-bit integers cut to 4 bits, 3 kinds of file, 3 sizes, 3 faults or none, 5 environments (2 of which start), restarts |
| `limiter` | `WindowBound`, `NoUndueRefusal`; the memory bound is in `TypeOK` | 2 addresses, limit 2, window 3, restarts |
| `auth_revoked_accepted`, `auth_logout`, `posts_lost_publish`, `posts_draft_leak` | a statement of the documentation that the code violates (section 6) | smallest that shows it |

`PatientSpec` is the specification with one more condition, about clients: an
account (`AuthService`) or an article (`PostService`) has at most one request
under way (`OneAtATime`), however many there are of others. That is what the
documentation tells the frontend to see to, and no more than one page with one
pair of hands does.

The pairs matter: `RevokedNeverAccepted` holds for patient clients and fails for
two requests of one account, `LogoutRevokes` holds while the database answers
and fails when it does not, `PublishedStaysPublished` holds for patient editors
and fails for two requests about one article.
The passing run says under which condition the code keeps what its
documentation says. `OneLiveToken` and `CookieStaysGood` are the same pair turned
round: `RevokedNeverAccepted` and `LogoutRevokes` fail for some clients, and
these two say what a client that keeps to one request at a time sees of it. A
logout or a rotation whose statement failed leaves a good token behind
(`smooth` excludes it), but never in a cookie, and never one that will later
bring the replay branch down on the account. A lost answer does: the cookie is
then the old token, its next refresh is a replay, and all sessions of the
account end (`lossless` is needed, TLC shows it at once without). The frontend
is told to refresh one at a time (`src/README.md:429`), so the condition of the
first pair is one a client may well meet.

## 4. Bounds and fairness

* `Tokens`: three secrets are a login's token and two rotations of it that
  race, the shortest history in which a chain forks. `SecretsLeft` keeps a
  request from starting when it might find no secret left; the real supply is
  unlimited.
* `Requests`, `Editors`: two, for every hazard listed is a race of two handlers,
  or of a handler with the janitor, the operator or a crash, which come for free.
* `AccessTTL` = 1, `RefreshTTL` = 2, `MaxTime` = 3: the smallest lifetimes the
  configuration accepts, and the first instant at which a row is swept.
  `admin_session` stops at 2, when cookies and rows have expired but none is
  swept yet: what a browser meets after a sweep is left to the proof, which
  has no bound. TLC identifies states that differ only in what no action and no
  property of the run looks at (`View`: the link to a successor, the parent of a
  grant, the time of the last login).
* `FirstDelay` = 1, `Interval` = 2, `SweepTimeout` = 1: that the interval is
  longer than the first delay is all that matters of them; a process may end
  before, in and after its first minute.
* The proofs need none of these bounds.
* `Browsers`: two, of one account, which is what "nobody else's request" needs.
* `Posts`: two articles, and pages of one or two, are enough for a row to move
  from one page to another in both directions; the proof is for any number.
* `MaxInt` = 7 and `Overhead` = 1: limits of 3 and 7, and files of 0 to 3 bytes,
  lie on both sides of every comparison (0, 2 and 3 are tried), and `limit + 1`
  wraps at 7. The proof is for every width.
* The environments are one with the defaults, one with the largest upload limit,
  and three that `Load` refuses; a restart may choose another.
* Symmetry is used for safety runs only, over values compared for equality.
* Lifetimes are constants of a run. They may differ between two deployments of
  the service; the order of expiries on which `ReplacedByIntact` rests is then
  no longer given by the code.
* Deadlock is checked everywhere; the auth and limiter models can always sweep
  or restart, the posts models always save, and a process that has ended can be
  started again.

Fairness of `auth_live`: weak fairness of each request's next step
(`AuthService!Fairness`). It assumes that every statement returns, with
whatever outcome: the code leaves that to the database and its driver, for the
requests' contexts have no deadline of their own. Of the janitor
(`CleanupFairness`): the runtime fires timers and time passes (weak), and a
database that is asked again and again by processes nobody has told to end does
not refuse every time (strong, because between two sweeps there is none to
answer). How long a process lives is not a matter of fairness: that one lives
to its first sweep again and again is the antecedent of
`ExpiredEventuallyPurged`, and a server that is restarted every minute does
not sweep. That a failed sweep is followed by another, that a restart sets the
timer anew and that a signal does not lose a later process its sweeps is what
the run shows of the loop. Fairness of `content_server`
(`MainFairness`): main goes on by itself from the migration to the listener or
to its exit, from the signal to `Shutdown`, and from there to its end after ten
seconds, because each of these waits has a deadline in the code. None is
assumed of `gorm.Open`, which has none, nor of handlers: that the process ends
although they may never is what `ShutdownEnds` says. Everywhere, no fairness is
assumed of clients, the operator, crashes or `AuthService`'s clock.

## 5. Proofs

All are for any finite or infinite sets of the constants and any number of
requests; the assumptions are `NullAssumption` (NULL is not a token, user, or
number), `LifetimeAssumption` (what `config.Load` checks), `BoundAssumption`,
`TimerAssumption` (the janitor's delays are positive), `HTMLAssumption` and
`LimitAssumption`.

**AuthService.** `TypeCorrect`, `ReplacedByStaysIntact`, `IssuedStaysBacked`
and `DisabledUsersLoseAccess` come from one inductive invariant, `IInv`
(`AuthServiceProofs`). The argument: a row is what its grant made it
(`RowsIssued`); a chain of grants belongs to one user and goes forward in time
(`GrantsOrdered`), because a refresh reads "now" after it has read the old row
(`Knows` keeps this fact through the handler's steps, however stale the row is
by then); so rows expire in the order of their chain and the sweep, which takes
all rows before a time, forgets a chain from its old end (`ForgottenInOrder`);
and since the insert precedes the revocation that names it (`Linked`), a named
successor is a row, and stays one. `GrantsBeforeDisabling` is the part about
accounts: a refresh reads the time before it reads the account, so its tokens
are never dated later than the moment the account was disabled.

`ImplementsLedger` (`AuthRefinementProofs`) is `Spec => RefinesLedger`, by the
mapping `LedgerEntry`: every step is a ledger step or a stutter, given `IInv`.
Refresh's Revoke is the interesting one: it is `Rotate` when the old row is
still active, and otherwise nothing, which is due to "revoked_at is null".
`TimedJanitorIsAllowed` is `CleanupSpec => Spec`: the janitor with its timer,
its timeouts and its signal does nothing that `AuthService` does not allow it,
so all of this holds under the code's own schedule. It needs that a sweep goes
by no time to come (`TimerTypesCorrect`), and that the clock does not go back.

**PostService.** `RowsKeepTheirObjects` and `DatesStayCoherent`, from an
invariant that says what each request still knows about its article: the store
never loses an object, the row comes last, and the pair of status and date a
request carries is coherent, whether it was read from one row or made by
Publish. So concurrent saves and publishes may lose each other's updates but
never mix them.

**Patient clients and editors** (`AuthPatientProofs`, `PostPatientProofs`). What
holds only under a condition is proved under it, and under no more of it than
is needed:

| theorem | requests | database and store |
|---|---|---|
| `RevokedIsNeverAccepted` | one of an account at a time | any outcome, crashes |
| `LogoutsRevoke` | any | answers; crashes |
| `RotationsAreLinked` | one of an account at a time | answers; crashes |
| `PublishedArticlesStay`, `DatesStay` | one about an article at a time | any outcome, crashes |
| `PagesMatchSources` | one about an article at a time | answers, no crashes |

A handler acts on a verdict about a row it has read earlier. The verdict lasts
because every step that could change the row is a step of some request of the
same account (or article), and there is no other: `Minds` states that of each
step, `Current` and `Keeps` state of a request's local variables that they are
still true of the row, and `OthersCurrent` and `OthersKeep` derive that they
stay so from `Minds` alone, without looking at the steps again. `LogoutsRevoke`
needs no such condition: a revoked row is never made good again
(`RevokedForGood`), whoever does what to it.

`BrowsersArePatient` (`AdminSessionProofs`) ties the condition to the clients
there are: browsers that keep to one request at a time satisfy `PatientSpec`
while none of their answers is given up or lost and no two of them use an
account at the same moment. Both conditions are needed: a handler whose page
is gone runs on beside the next request, and a replay by one browser revokes
the rows of all that use the account, in the middle of what they do.

**LoginRateLimiter.** `RateBounded`, `RefusalsJustified`, `MemoryBounded`. The
property speaks of all requests ever admitted; the bridge is that what the
limiter has forgotten had left the window (`Remembered`) and that admissions
are in order (`InOrder`). A request admitted against `WindowBound` would find
Limit earlier ones between it and the first, all remembered, and be refused.

**AdminSession.** `SessionsUseAuth` is `SessionSpec => Spec`: each step of a
browser is a step of `AuthService` or leaves it alone, so `IInv` is inherited.
`CookiesStayGood`, `LiveTokenUnique` and `NobodyIsLoggedOut` rest on two more
parts. `SInv` holds whatever happens: a browser waits for at most one request
(`Waiting`), which presents its cookie (`Presents`); what a refresh has read of
a row stays true of it (`ReadsRow`); and of the tokens issued to a browser since
its login only those that its request still has in hand are good (`Sessions`,
`Keeps`). `Lossless` holds while no answer has been lost: cookies differ, no
replay is under way, a new token is good and nobody's yet, and a cookie that is
revoked is about to be replaced by the request that revoked it. The step of a
handler is proved in two halves: `Local` is what it does to its own request and
what it leaves of everything else, proved for each of the nine steps of
`AuthService`; `Fades` is what no step at all can undo (a token that is dead
stays dead); the browsers' invariants follow from these two without looking at
the steps again.

**ContentServer.** `UploadsAreJudgedRight`: a file that fits in a body that fits
is smaller than the limit, so the service reads all of it and its own "too
large" can never be the answer (`ReadWhole`, `ServiceVerdict`); what it calls an
image is then one, what it stores is all of it, and what it refuses is none. The
exception is the limit at which `limit + 1` wraps around, and it is in the
property.

`WalksAreComplete`: for any number of articles, editors and pages, what a walk
still owes its client is never among the rows the client has counted past
(`WalkInv`). The proof orders the times (`Ordered`, kept by each way in which
times come, are taken over and go) and counts rows with the theorems on finite
sets. Its heart is `KeepsPlace`: a write to p lets another article q move up by
one only if p was before q and no longer is. If the client had not counted p,
then q was beyond the first place not counted, and still is not counted; if it
had, either p has slipped off behind the client (which the property excepts),
or p is still counted and q, now before p, would be too, which cannot be. A page is
the last when the total says so, and the total was counted before the rows were
read; what joins in between is the property's other exception. The
theorem also needs that the limit the client adds is the one the repository
applies: `ContentTypes` has it, for whatever was asked for.

Assumptions on the constants of these: `BrowserAssumption` (NULL is no browser),
`WidthAssumption`, `KindAssumption`, `ListingAssumption` and
`EnvironmentAssumption` (a limit in the environment is an int64).

So every safety property a passing run checks is also a theorem. Model-checked
only is liveness (`RequestsFinish`, `ExpiredEventuallyPurged`, `ShutdownEnds`),
which is out of the prover's reach together with fairness and ENABLED.

## 6. Where the code and its documentation disagree

* `auth_revoked_accepted`: of two concurrent refreshes of one token, the second
  is answered with new tokens after the first has revoked it; the comment says
  a revoked token must never be accepted (`auth_service.go:164`). Both
  successors stay good, one of them unlinked.
* `auth_logout`: a logout whose statement fails is answered 204 with the row
  still good; `README.md:484` says the row has a `revoked_at` then.
* `posts_lost_publish`: a save that read the row before a publish puts the old
  status and date back after it.
* `posts_draft_leak`: saving an article that is published changes the public
  page at once; the comment says "without publishing it" (`post_service.go:75`).

Without a run of their own:

* at `IMAGE_UPLOAD_MAX_BYTES` = 9223372036854775807 every image is answered
  "invalid image": `maxBytes + 1` wraps around and nothing is read
  (`image_service.go:95`); the comment keeps that answer for what is not an image
  (`image_service.go:19`). `UploadsJudgedRight` names the exception.
* an image that is within the limit is told "image is too large" when the form
  around it is not: the comment speaks of an upload that exceeds the limit
  (`image_service.go:17`), and the handler counts the whole body.
* any error in the form but the limit's is answered "image file is required",
  a file that was cut off by `ReadTimeout` (`main.go:101`) included.
* a server that is never up for a whole minute never sweeps, although the table
  is not to "grow unbounded" (`main.go:126`).
* the comment at `config.go:37` says that with `SameSite=none` the cookie is
  always sent with `Secure`, whatever the setting; `Load` refuses that
  combination instead (`config.go:117`).
* the checks that `REFRESH_COOKIE_NAME` and `S3_BUCKET` are not empty can never
  fail: `getenv` falls back for an empty variable. A number or duration that
  cannot be parsed falls back silently as well.
* `gorm.Open` connects without a context, and `NotifyContext` has taken the
  signal: while the database hangs, neither a first nor a second signal ends
  the process (`ShutdownEnds` excludes that phase).

## 7. What is not modelled

* Routing, JSON shapes (`dto.go`), CORS, logging, request ids, `splitCSV`,
  hashing and JWT cryptography: stateless, and no property is about them.
* How the limiter's key is taken from headers (`clientIP`): a conversion of text,
  and whether a header can be believed is a question for the deployment.
  The growth of its map with the number of addresses has no bound to check.
* The S3 client, GORM, goldmark, bluemonday, `net/http`'s content sniffing and
  multipart parsing are external; they appear as the outcomes of calls.
* The blog and its cache are another program: what it shows after a lost or
  missing revalidation would be a property of an invention.
* Settings that no check and no component depends on (addresses, pool sizes,
  credentials).
* Deployment files: no behaviour of this program.

## 8. Plan

Written, in this order: `RefreshTokenTable`, `AuthService`, `RotationLedger`,
their proofs; `PostService` and its proofs; `LoginRateLimiter` and its proofs;
`AdminSession` and its proofs; `PostListing`, `ImageUpload`, `Configuration`,
`ContentServer` and the proof about uploads; the proofs for patient clients and
editors, and those about the list; `RefreshTokenCleanup` and its proof.

Left, in order of worth: an abstract session (logged in, logged out) that
`AdminSession` implements; a second page of the same browser, which shares the
cookie and not the promise; `PostService` and `PostListing` as one system, over
one table.
