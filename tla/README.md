# Verification of tools-api

TLA+ models of the Go service in `src/`, the TLC runs that check them on small
instances, and proofs of their main properties for every instance.
`PROJECT.json` lists components, runs, mutants, findings, hazards and theorems,
and says for every definition which lines of the source it models.

## 1. The system

One Go process serves HTTP.  It keeps nothing in memory between requests: all
state is in PostgreSQL (users, bins, hits, visitors), in Valkey (rate-limit
counters, the keys of bins, the markers of visitors), or in cookies of the
browser.  Valkey runs without persistence (`docker-compose.yml`), so a restart
forgets everything it had.  Every request runs in a goroutine of its own; the
only other goroutines are those of `TrackAsync`.  So everything that is hard
about this program lies between two commands to the stores: other requests
run, a command or its answer is lost, a context times out, the process or
Valkey restarts.

| Component | Source | State | Operations | Talks to |
|---|---|---|---|---|
| rate limiter | `internal/ratelimit` | keys `rl:*` in Valkey: a counter and its expiry | `Allow` | Valkey; called by the handlers of SMTP, bins, hooks, visits |
| webhook bins | `internal/webhook/store.go` | rows of `webhook_bins`; keys `bin:*` in Valkey | `Create`, `List`, `Get`, `Delete`, `PublicExists`, `pruneExpired` | PostgreSQL, Valkey |
| webhook hits | `internal/webhook/store.go` | rows of `webhook_hits`; `hit_count`, `last_hit_at` of the bin | `Ingest`, `ClearHits`, `ListHits`, `GetHit` | PostgreSQL |
| visitor log | `internal/visitor`, `internal/httpapi/visitor.go` | rows of `visitors`; keys `visitor:fp:*` in Valkey | `TrackAsync` | PostgreSQL, Valkey |
| accounts and sessions | `internal/auth`, `internal/user` | rows of `users`; a session cookie (a signed JWT), two short cookies of a sign-in | `Begin`, `Callback`, `Me`, `Logout`, `RequireUser`, `RequireActiveUser` | Google, PostgreSQL, browser |
| SMTP tester | `internal/smtp`, `internal/httpapi/smtp.go` | none; a connection for the length of a request | `CheckAuth`, `RunTest` | a mail server of the user's choice |
| webhook handlers | `internal/httpapi/webhook.go` | none | one handler for each operation on bins and hits | limiter, bins, hits |
| server lifecycle | `cmd/server/main.go`, `docker-compose.yml` | the listener, the clients of the two stores | start, signals, shutdown, restart | all |
| pure functions | several files | none | `sanitizeNext`, `redactHeaders`, `looksLikeBinID`, `clientIP`, truncation | |
| middleware, configuration, migrations, deployment | | none, or fixed at start | | |

What makes each of them correct:

- *Rate limiter.*  A window grants at most `limit` calls; a window ends, and
  not before its time, nor much later; a caller who waits as told finds a fresh
  window.
- *Bins.*  A user has a bounded number of bins; a bin that is alive is removed
  by its owner only; a key in Valkey does not outlive its bin; a confirmation
  that a bin exists is true; nobody is refused because of bins that expired.
- *Hits.*  A bin keeps its newest hits, a bounded number; `hit_count` is their
  number; no hit outlives its bin; every request is answered.
- *Visitor log.*  A visit that was tracked left a row; the first visit stays
  the first; a user once known stays while there is the account; times do not jump
  back.
- *Accounts.*  A session in a browser comes from a sign-in that began in that
  browser; a sign-in ends where it was meant to; a banned account gets neither
  a session nor service; only an operator lifts a ban.
- *Webhook handlers.*  What a window stores is bounded although requests are
  counted before they store; an expired bin is 404; only bins have counters; a
  walk through the hits of a bin misses none that stayed, and lists none twice.
- *Server lifecycle.*  A clean exit breaks off no handler and no statement of a
  visit; no handler meets a closed client; a stop ends.
- *SMTP tester.*  "Accepted" is reported only of an accepted message, and a
  failure of an accepted one only when its acknowledgement was what failed;
  credentials travel as protected as the user asked; a test ends.

The hazards, each at its line and with the properties that would catch it, are
in `PROJECT.json`.

## 2. Modules

    FixedWindow                                 what a limiter promises
      ^ refinement               ^ used, and kept
    RateLimiter                  |              Allow
    OwnedBins                    |              what the store promises of bins
      ^ refinement               |
    WebhookBins  <--extends--  HookIngest       bins and their keys; the public address
    CappedBin                                   what it promises of the hits of a bin
      ^ refinement
    WebhookHits  <--extends--  HitReads         the hits of a bin; the owner's reading
    VisitorLog                                  what is promised of the rows of visitors
      ^ refinement
    VisitorTracker                              TrackAsync
    Members                                     what sign-in and bans promise
      ^ refinement
    Accounts                                    Begin, Callback, Logout, RequireActiveUser
    SmtpSession                                 CheckAuth, RunTest
    ServerLifecycle                             main

Each of them but the abstract ones, `FixedWindow`, `OwnedBins`, `CappedBin`,
`VisitorLog` and `Members`, has an `MC` module, configurations and a `Proofs`
module; that of `HookIngest` extends that of `WebhookBins`, and
`WebhookHitsProofs` is also that of `HitReads`.

An `MC` module declares the model values of an instance, and its symmetry.  A
`Proofs` module extends the module of its component.  A definition whose
comment says "Mutant of X" is a plausible mistake in the code that `X` models;
it stands just before `X` and nothing uses it.  `PROJECT.json` names, for each
property, the mutant that breaks it.

The two stores are external code.  They are modelled by what the code relies
on: a statement of PostgreSQL, or a command of Valkey, is one atomic step that
is applied or not; its answer may be lost after it was applied; a statement is
applied only while the context of its call lasts; go-redis sends a command
again when it got no answer.

### FixedWindow and RateLimiter (`internal/ratelimit/ratelimit.go`)

`count[k]` and `ttl[k]` are the counter `rl:k` and its expiry.  `caller[c].pc`
says which of INCR, EXPIRE and TTL goroutine `c` sends next, or that it was refused,
and `caller[c].left` what is left of its context, or of the wait it was told; `Incr`,
`Expire` and `ReadTTL` are those commands, with the branch that `Allow` takes on the
answer.  `IncrFails`, `IncrAnswerLost`, `ExpireFails` and `ExpireAnswerLost` are their
errors: `Allow` refuses on an error of INCR and ignores one of EXPIRE.  A command whose
answer is lost may be sent again while its context lasts; a second INCR counts twice,
and a second EXPIRE prolongs the window.  A `Second` has several ticks, because TTL
answers whole seconds (`Rounded`: the nearest), to which the handlers add one
(`RetryAfter`).  `Tick` moves the clock of the server and ends counters, `ValkeyRestart` empties it, `ApiCrash` removes
all callers.  `granted`, `elapsed` and `recent` are history variables; `recent[k][a]`
is what was granted in this tick and in the `a` before it, so `BurstBounded` reads
off what any `Window` ticks in a row let through, however the windows lie.

`FixedWindow` has only windows, calls granted and their age.  `FixedWindowSpec`
says that `Allow` implements it: a window is forgotten only when it is old
enough or when the store is lost, and lets `Limit` calls through.

### WebhookBins (`internal/webhook/store.go`)

`owner`, `exp` and `created` are the rows of `webhook_bins` (an id without a row
has the owner `Nobody`), `cache[b]` is the instant at which the key `bin:b`
expires.  Each worker is a request goroutine in a call of the store; `pc` names
the next command.  `Start` is the call by a handler, and every command is an
action: `Prune` and `UncacheNext` (`pruneExpired`), `Count`, `Insert`, `CacheNew`
(`Create`), `Owned`, `DropExpired` (`getOwned`), `Delete`, `UncacheOne`, `Probe`,
`Select`, `Fill` (`PublicExists`, and the first statement of `Ingest`).  The
`...Fails` and `...AnswerLost` actions are errors, the latter and failing DELs
only if `Faults`; `Abandon` is an error of a statement the call cannot do without,
or the end of its context.  The calls of `handleHookIngest` have no user: theirs is
`Nobody`.  What a call
returns after an error (`GivenUp`, `AfterPruneError`) is what the code returns:
`Create` gives up if pruning fails, the others go on.

`OwnedBins` says the same without workers or statements: `Add` under a limit that
has some slack, with an id never used before and a life fixed then; `Sweep` of
expired bins; `Withdraw` of a bin whose owner has asked for it (`Ask`), however late;
and a cache that forgets anything at any time (`Forget`) and remembers a bin, even
one that is gone, no longer than `Timeout` past its life (`Remember`).  The mapping
takes the calls that are about to send their DELETE for what was asked.
`OwnedBinsSpec` says that the store implements it, with the number of workers less
one as the slack.

### WebhookHits (`internal/webhook/store.go`)

The transactions of `Ingest` and `ClearHits` and the deletion of one bin, at
READ COMMITTED: a statement sees what was committed when it began (`Visible`),
and waits for locks.  `Begin` takes a connection of the pool, and the request holds it
through all its waits until it ends; `MaxConns` is the pool
(`internal/db/postgres.go`, 10).  A DELETE is many actions: `SelectSurplus`,
`SelectAll` and `LockBin` take the snapshot (`todo`), and `DeleteRow` deletes one of its
rows, in any order (`del`).  Where another transaction has deleted the row it waits,
keeping those it has, and skips the row if that one commits; `EndDelete` is the end of
the statement.  `Insert` takes KEY SHARE on the bin by the foreign key, `UpdateBin` and
`LockBin` conflict with each other, `LockBin` with everybody.  `Commit` makes the changes
visible at once and `Fail` undoes them.

`Waits` is who waits for whom.  Trims, `ClearHits` and `Delete` that go through the
same rows in different orders may wait in a circle of any length (`OnCycle`), and
`DeadlockAbort` is the server aborting one of it.  Waiters of one row stand in a line,
which is left out: any of them may get the lock first.  A circle that leads through the
line is covered by `LineAbort`, which may end any wait as long as another request waits
too; it may happen more often than in PostgreSQL, and liveness does not rely on it.

`CappedBin` is the bin without transactions: `Store` puts a hit in at once and
pushes out only hits that `MaxHits` newer ones were stored beside; `Clear` removes
the hits that it found when it began, those that others have not removed since;
`Drop` takes all hits, and nothing is stored after it.  `CappedBinSpec` says that the
transactions implement it, with the connections of the pool less one as the slack
of the cap.  A hit that outlives its bin, or a clear that takes a hit it has
not seen, would be a step of no action of it.

### HookIngest (`internal/httpapi/webhook.go`)

`handleHookIngest` composes three components, and so does the module.  It extends
`WebhookBins`: `Ask` and `Ingest` are `Start`s of the store's calls, whose commands
(`Command`) run between the steps of the handler, next to the calls of the owner
(`UserCalls`).  The limiter is there by its promise: `Grant` is a step of
`FixedWindow`, `Time` and `Restart` are steps of both, because the keys of bins and
the counters are in one Valkey with one clock.  The transaction of `Ingest` is one
step, `Store`, that needs the bin's row, as `WebhookHits` shows (`CappedBinSpec`).
`step[w]` is the line of the handler that waits; `target`, `since` and `reply` are
the request; `live` and `stores` are history variables.  A refusal of the limiter
may have been counted all the same, and `Store` may lose its answer.

### HitReads (`internal/httpapi/webhook.go`, `internal/webhook/store.go`)

Extends `WebhookHits` by the owner, who walks through the pages of a bin.
`handleGetBin` and `handleListHits` read the bin and its hits in different
statements, outside of any transaction: `Get`, `Owned`, `QueryFirst` and `QueryNext`
are those statements, and between any two of them the transactions of `WebhookHits`
go on (`ReadNext`).  `Before` is the comparison with the cursor in SQL, which is
NULL when the hit of the cursor is gone.  `Deliver` is the loop over `rows`: it may
break off, and `ListHits` does not ask `rows.Err`.  `there`, `early`, `lost` and
`cut` are the history that says what a walk may miss; `Watch` keeps it.

### ServerLifecycle (`cmd/server/main.go`)

`phase` is where main is, `clients` the open clients of the stores, `running` the
handlers, `between` and `busy` the goroutines that visits leave behind, in a
statement or not.  `Connect`, `Notify`, `Drained`, `ClosePool` and `Return` are main
and its deferred calls in their order; `BootFails`, `ListenFails` and
`ShutdownTimesOut` are the calls of `os.Exit`, which run no deferred call.
`Terminate` is SIGTERM, which ends the process when it comes before
`signal.Notify`; `Kill` and `Restart` are Docker's.  The handlers are those of the other
modules, of which only the end matters here; `Slow` are those that need not end.

### VisitorTracker (`internal/visitor/store.go`, `internal/httpapi/visitor.go`)

`marker` is the set of fingerprints that have a key in Valkey, `row[f]` the row
of the fingerprint.  `Arrive` is the handler, which has answered by then;
`SetNX`, `Insert` and `Update` are the commands of `track`, and `ReadClock` is
`time.Now()`, which the code reads before it sends a statement.  An insert that
fails goes on with an update, as the code does; an update that finds no row
ends without an error.  `users` are the accounts that have a row: an operator may
remove one (`RemoveAccount`), which clears it from all rows (`REFERENCES users ON DELETE
SET NULL`), and from then on the foreign key refuses it (`Insertable`, `Updatable`), until
the user signs in again (`SignInAgain`); sessions outlive the account.  `ApiStops` ends the goroutines under way: `Shutdown`
waits for handlers, and they are over.

`VisitorLog` has neither commands nor markers.  A visit that is tracked opens the
row of its fingerprint, if there is none, or is seen, which is its last act; it
writes the time of a moment between its beginning and now, and nothing after its
timeout, and a user only who has an account; or it leaves without a trace.
`VisitorLogSpec` says that the goroutines
implement it, so that what becomes of the rows depends on the markers only in
whether they are made at all.

### Accounts (`internal/auth`, `internal/user/store.go`, `internal/httpapi/visitor.go`)

`status[u]` is the row of an account in `users`.  `jar[b]` holds the three cookies
of browser `b`: `oauth_state` (`"state"`), `oauth_next` (`"next"`) and the session.
A flow is one call of `Begin`; a cookie is represented by the flow it comes from,
because that is all the code compares or copies.  A call is one HTTP request: it
takes the cookies of its browser when it is sent (`request`), and its response
(`reply`, the cookies that it sets or clears) changes the jar when it arrives, in
any order with others, or not at all.

`Begin`, `Callback`, `Exchange`, `Upsert` and `Logout` are the handlers of
`google.go`, with a step for each call to Google or to the database; `Enter`,
`Check` and `Serve` are `RequireUser`, the ban check of `RequireActiveUser` and the
handler behind it.  `ExchangeAnswerLost`, `UpsertAnswerLost` and `Fail` are the
errors.  `Choose` (the account chooser of Google), `Arrive` and `Expire` (the
browser) and `Administer` (an operator of the database: no handler bans) are
external.  `unbanned[c]` is a history variable.  Left out: the signature of the
session (a cookie is what the server issued, or nothing), names and pictures, and
`next` as a string: a destination too long for a cookie, which `Begin` does not
refuse and a browser drops, would leave that of an earlier sign-in in place.

`Members` has neither cookies nor requests: Google vouches for an account at a
browser (`Vouch`), which may then be admitted while it is not banned (`Admit`), get a
ticket by that and sign in with it (`SignIn`), or lose it; whoever is vouched for and
not banned may be served (`Enter`, `Leave`).  A session may end at any time (`SignOut`),
and the operator changes accounts as before.  A ticket is a response with a session
that is under way, so two sign-ins of one account may leave one behind.
`MembersSpec` says that the handlers implement it.

### SmtpSession (`internal/smtp/test.go`, `internal/httpapi/smtp.go`)

`test` is what the user asked for and what the server is: which extensions it
offers in the clear and over TLS, and whether it is localhost (`PlainAuth` of
`net/smtp` sends credentials in the clear to nobody else).  `pc` is the command
whose reply is awaited.  `Reply` is a positive one, and `AfterReply` says where each
of the six functions `auth...` and `send...` goes on; `Refuse`, `Break` and
`ReplyLost` are a negative reply, and a connection that breaks before and after
the server handled the command; `GreetingFails` is `NewClient` failing, which closes the
connection itself; `Stall` is a server that stops answering.  `accepted`, `oks`,
`late` and `exposed` are history variables.  `end` stands for the body and its final
dot.  The validation of the input answers before anything is dialled.

## 3. Runs

| Run | Instance | Shows |
|---|---|---|
| `RateLimiter` | 3 callers, 1 key, limit 2, window of 3 ticks, a second of 3, context of 1, count up to 3, 1 fault, 1 restart | What windows and callers may rely on, when windows end, `FixedWindowSpec`, and that refusals end. |
| `RateLimiter_lost` | 2 callers, limit 1, window of 2 ticks, 1 fault | A counter without an expiry (finding). |
| `WebhookHits` | 3 Ingests, 1 ClearHits, 1 Delete, cap 1, 3 connections, one instant, 1 failure | When `hit_count` is right, that every step is one of `CappedBin`, and that every request is answered, those in a deadlock included. |
| `HitReads` | 3 Ingests, 1 ClearHits, cap 1, 2 connections, clock 0..2, no failed transaction, and the owner's walk | How far the cap is exceeded, what the trim removes, what a walk may miss, and that it lists nothing twice. |
| `WebhookBins` | 2 workers, 2 users, 2 ids, limit 1, life 1, timeout 1, time 0..2, any number of faults | Keys end with their bins, only owners remove live bins, refusals are justified, and every step is one of `OwnedBins`. |
| `HookIngest` | 2 workers, 1 user, 1 id, limit of 1 request in a window of 1, time 0..2, any number of faults, 1 restart | What a window stores, which ids have counters, and that expired bins are 404. |
| `HookIngest_head` | the same, without lost answers and restarts | A bin that is gone is confirmed (finding). |
| `VisitorTracker` | 3 visits, 1 fingerprint, 2 users, timeout 1, time 0..2, 1 fault or account removed | Rows without faults, the first visit kept, how far `last_seen_at` goes back, and that every step is one of `VisitorLog`. |
| `VisitorTracker_marker` | time 0..1, 1 fault | A marker without a row (finding). |
| `Accounts` | 2 accounts, 2 browsers, 2 sign-ins, 2 requests at a time | Sessions and destinations of the right sign-in, nothing for banned accounts, bans kept, and every step is one of `Members`. |
| `SmtpSession` | 2 tests, all kinds of tests and servers | What is reported of a message, how credentials travel, and when a test ends. |
| `ServerLifecycle` | 2 visits, a request, a request that need not end, 3 starts | That a clean exit breaks off no handler and no statement, open clients for handlers, and that a stop ends. |

*Why the bounds are enough.*  Counters, keys, bins' keys and fingerprints do not
influence each other, so one or two of each show everything.  Overlaps in this
code are between two calls; the third caller, Ingest or visit is the one that
meets what the first two have left.  Limits of 1 and 2 are the smallest that a
call can reach and exceed; in `HitReads` three Ingests are one more than cap plus overshoot
allow.  In `WebhookHits` the third Ingest trims two hits, those of the others, so
its DELETE, the `ClearHits` and the `Delete` come to the same two rows in either order;
there the order of `received_at` does not matter, and the clock stands still.  In
`RateLimiter` a second of three ticks is the shortest that TTL rounds up and down, and a
context of one tick is enough for an EXPIRE that comes late.  The two ids of `WebhookBins` are a bin
and the one that is refused or exceeds the limit; that the limit is exceeded by fewer
bins than there are calls needs a third, and is proved (`OvershootBounded`).  In `HookIngest` the one id is at first no bin, then a bin, and
then gone, which is all that an id can be; a second one would meet neither its rows
nor its window.  In `HitReads` a page of one hit makes a walk of two pages with
hits and an empty one, and a cursor that is trimmed or cleared between any two of them.
In `Accounts` two sign-ins and two requests are two
tabs of one browser, or two browsers; requests are used again, so a session is
followed by any number of them.  `SmtpSession` keeps nothing from one test to the
next, and the second one is the repetition after a failure.  A life, window or timeout of one or two ticks
makes commands fall before, at and after each end, and the last tick leaves room
for a bin to live, expire and be forgotten.  `MaxCount`, `MaxTime`, `MaxClock`,
`MaxFaults`, `MaxFails`, `MaxRestarts` and `MaxStarts` bound the model only; one fault is
enough for every finding, and `WebhookBins` and `HookIngest` have any number of them.
The invariants that are proved do not depend on any of it.  The type invariants are
proved (`TypeCorrect`); only those of `WebhookHits` and `WebhookBins`, which also say
who holds the locks and which ids are used, are in a run besides.

*Deadlock* is checked except in the runs of `VisitorTracker`, `SmtpSession` and
`ServerLifecycle`, where every visit, test or process ends and then nothing is left
to do.

*Fairness.*  `RateLimiter` has weak fairness of `Tick` and of the steps of each
caller: every command of `Allow` ends within the 2 s of its context, with an
answer or an error, and the clock of Valkey goes on.  Nobody has to call.
`WebhookHits` has weak fairness of all statements together: as long as one can run,
one does, and PostgreSQL aborts one transaction of a deadlock (after
`deadlock_timeout`, 1 s, well within the 8 s of the context).  Since every request runs
once and has finitely many statements, no fairness among them is needed; that a single
one is not passed over for ever by new ones is left to the context.  No request has to
arrive.  `SmtpSession` has weak fairness of the dial, which ends
by its timeout of 15 s, and of `Reply`: a server that has not stopped answers in
the end.  It has none of `Break`: the connection to a silent server need never
break, because the code sets no deadline on it.  `AllAnswered` does not use the timeout of
the context, which would end every wait by itself.  `ServerLifecycle` has weak
fairness of main, of the timeout of `Shutdown`, of the end of a statement (its
context has 5 s) and of the end of a handler that is not one of `Slow`; nobody has to
send a request, a signal or a restart, and `Slow` need not end: `StopEnds` holds
because of the 10 s of `Shutdown`, and its mutant without them breaks it.

## 4. What the runs found

- A lost EXPIRE, or a lost answer of the INCR that creates a counter, leaves a
  counter without an expiry.  Over its limit it refuses until Valkey restarts
  (`CounterHasWindow`; `WindowUnlessFault` and `RefusalEnds` hold without faults).  An
  EXPIRE that go-redis sends again prolongs a window, by no more than the 2 s of the
  context (`EndsOnTime`).
- Ingests that run at the same time leave more than 100 hits, by no more than
  the number of connections less one: `OvershootBounded` holds, and its mutants
  show that the bound is met.
- Calls of `Create` that run at the same time leave more than 3 bins, by fewer
  than there are calls (`OwnedBinsSpec`, and `BinOvershootBounded` with it).
- `Create` and `PublicExists` set the key of a bin after their statement on its
  row.  A `Delete` in between leaves a key without a bin for up to 72 hours, and
  `PublicExists` trusts it: a HEAD request, which "just confirms the bin exists", is
  answered 200 (`HeadConfirmsExisting`; `CacheEndsWithBin` and `ExpiredIsGone` bound
  it by the life of the bin).
- The marker of a fingerprint is set for ever before its row exists.  One failure
  in between, and no later visit makes the row (`Recorded`; without faults
  `RecordedUnlessFault` holds).

Reading the code for the models also showed the following.  A page whose cursor was
trimmed in between is empty, as if the end were reached, and so is a page whose rows
break off before the first one, because `ListHits` does not ask `rows.Err`: the owner
sees a complete list where there is none (`WalkComplete` says when that happens).  A
request to a hook is counted in the window in which it is let through and may
store its hit in a later one (`StoresBounded` says how many).  An exit by
`ShutdownTimesOut` cuts handlers short and runs no deferred call, and has status 1; a
clean exit may still end goroutines of visits between two statements, or in a
command of Valkey (`CleanExitDrains` does not speak of them; `RecordedUnlessFault` counts that as a fault).

`hit_count` may be wrong after overlapping transactions, until the next one
(`CountExactUnlessOvertaken` says exactly when it is right), and `last_seen_at` may
go back by up to the timeout of `track` (`LastSeenNearby`).  A message that a server has taken is
reported as failed when QUIT fails, and repeating the test sends it twice
(`AcceptedAccounted` says that this happens there, and at a lost acknowledgement,
and nowhere else); a test whose server stops answering after the dial never ends
(`TestEnds` excepts exactly that).  A second sign-in in a browser makes the first one
fail with "invalid oauth state", which is what keeps them apart
(`SessionOfOwnSignIn`, `NextOfSameSignIn`).  A request that passed the ban check
before a ban goes on (`NothingForBanned` speaks of bans from before the request),
and the 403 of a banned session clears whatever session the browser has by then.

## 5. Proofs

TLAPS proves, for every value of the constants that the `ASSUME`s of the modules
allow:

| Theorem | Module | Says |
|---|---|---|
| `TypeCorrect` | all `Proofs` modules but that of `HookIngest` | `Spec => []TypeOK` |
| `GrantsSafe`, `WindowSafe`, `RetryAfterSafe` | `RateLimiterProofs` | `[]GrantsBounded`, `[]WindowUnlessFault`, `[]RetryAfterHolds` |
| `BurstSafe` | `RateLimiterProofs` | `[]BurstBounded`, for windows of any length |
| `WindowsEnd` | `RateLimiterProofs` | `[]EndsOnTime`: a window is prolonged by a context of `Allow` at most |
| `Refinement` | `RateLimiterProofs` | `Spec => FixedWindowSpec` |
| `BinCapped` | `WebhookHitsProofs` | `Spec => CappedBinSpec` |
| `CountExact`, `NewestSafe` | `WebhookHitsProofs` | `[]CountExactUnlessOvertaken`, `[]NewestKept` |
| `NoOrphans` | `WebhookHitsProofs` | no hit is visible after its bin is gone |
| `Unstuck`, `Progress` | `WebhookHitsProofs` | somebody can go on or waits in a circle that the server breaks; every statement is progress |
| `OvershootSafe` | `WebhookHitsProofs` | `[]OvershootBounded` |
| `ReadTypeCorrect`, `WalksComplete`, `NeverTwice` | `WebhookHitsProofs` | `[]ReadTypeOK`, `[]WalkComplete`, `NoHitTwice` of `HitReads` |
| `BinsOwned` | `WebhookBinsProofs` | `Spec => OwnedBinsSpec` |
| `OvershootBounded`, `CacheEnds` | `WebhookBinsProofs` | `[]BinOvershootBounded`, `[]CacheEndsWithBin` |
| `RemovedByOwner`, `LimitIsReal` | `WebhookBinsProofs` | the two action properties of bins |
| `StoresSafe`, `CountersSafe`, `ExpirySeen` | `HookIngestProofs` | `[]StoresBounded`, `[]CountersOnlyForBins`, `[]ExpiredIsGone` |
| `BinsKept` | `HookIngestProofs` | `HookSpec => OwnedBinsSpec`: under the handlers bins are as promised |
| `OwnSessions`, `OwnDestination` | `AccountsProofs` | `[]SessionOfOwnSignIn`, `[]NextOfSameSignIn` |
| `BannedGetNothing`, `BansStay` | `AccountsProofs` | `[]NothingForBanned`, `BansKept` |
| `SessionsAreMembers` | `AccountsProofs` | `Spec => MembersSpec` |
| `Accounted`, `Encrypted` | `SmtpSessionProofs` | `[]AcceptedAccounted`, `[]EncryptedAsAsked` |
| `SentOnce`, `Progress` | `SmtpSessionProofs` | a test sends at most one message; every step ends a test or takes it further, or the server has stopped |
| `LogKept` | `VisitorTrackerProofs` | `Spec => VisitorLogSpec` |
| `RowsKept`, `OriginSafe`, `LastSeenSafe` | `VisitorTrackerProofs` | `[]RecordedUnlessFault`, `OriginKept`, `LastSeenNearby` |
| `CleanExits`, `ClientsOpen` | `ServerLifecycleProofs` | `[]CleanExitDrains`, `[]HandlersHaveClients` |
| `Progress` | `ServerLifecycleProofs` | after SIGTERM main only goes on, and nothing is begun that it waits for |

None of the properties is inductive by itself; each `Proofs` module defines an
inductive invariant `IInv`, proves `Init => IInv` and one step per action, and
derives the properties.

- *RateLimiter.*  `IInv` adds what ties the history to the counter: a counter
  has granted no more than it has counted, and no more than `Limit`; a key
  without a counter has no expiry; and an expiry plus the age of the counter
  reaches at least `Window`, without which a step of `Tick` that ends a counter
  could not be mapped to `Elapse`.  Without faults, a counter without an expiry has a caller
  about to set it (`Expected`).  That windows end in time is `Punctual`: whoever is to
  send EXPIRE called `Allow` before the counter was made, so the context of the call ends
  within `Timeout` of that (`ExpireSoon`); hence
  `EndsOnTime`; and a caller was told at least what was left of the window proper
  (`ToldEnough`, with `RetryAfterCovers` for the rounding).  The three give
  `RetryAfterHolds` with its delay, and without faults and restarts, when EXPIRE is sent
  once, the wait runs down with the counter (`Paced`).
  `BurstCovered` is the invariant behind `BurstBounded`: what this tick and the `a`
  before it have let through is at most what the present counter has granted, a
  window's worth for the counter before it, unless that ended earlier, and one for
  each restart.  A second window cannot end within the same `Window` ticks, because only a
  restart ends a counter that is younger (`elapsed`).
- *WebhookHits.*  `IInv` says which rows a transaction may have deleted or be about
  to (`Aim`) at each of its statements, that whoever deletes the bin aims at all its hits, and for each hit
  that was or is to be trimmed that `MaxHits` newer ones were stored.  The last is
  the reason the trim is right although it works on a snapshot: commits only add
  to the hits stored.  For `hit_count`, what a transaction is about to write is
  the number of hits unless it is in `stale`.  `Roomy` bounds the overshoot: whichever
  of the transactions that have chosen their surplus commit now, in any combination,
  they leave at most `MaxHits + MaxConns - 1` hits.  It is the combinations that make
  it inductive: who chooses leaves `MaxHits` and whatever those add that chose before
  it, and they all hold connections.

  The refinement (`BinCapped`) maps `Read` to `Receive`, `SelectAll` to `BeginClear`,
  `Commit` to the `Store`, `Clear` or `Drop` of its request, a failure to `GiveUp`, and
  every other statement to a stutter: nobody sees what is not committed.  What a
  clear found is its `todo` and `del`, and of that what is still there (`Doomed`), since
  others may have found the same hit.  `OvershootBounded'` and `NewestKept` discharge the
  guards of `Store`.

  `Unstuck` is the argument about waits.  Whoever is blocked waits for a connection,
  or for somebody who holds a lock and so is in a transaction.  If nobody could go on,
  every transaction would wait for one, and following the waits leads back: among finitely
  many requests there is a smallest set that is closed under them (`SomeCircle`), whose
  members are all on a circle, which `DeadlockAbort` breaks.  Nobody in a transaction
  waits for a connection, so no circle leads through the pool, which the server knows
  nothing of.  `Progress` ranks the statements of a request: each one raises its rank, or
  takes its DELETE past a row, and no step of another undoes that.  Together they are
  `AllAnswered` but for the fairness and for the choice of a surplus, whose existence
  would need induction over finite sets.
- *HitReads.*  `ReadInv` says that the cursor is the oldest hit listed, that what was
  there all along and is not listed is older (`Swept`), and that a request which chose
  its rows during the walk removes no hit without those that are older
  (`OldestFirst`).  So a cursor that vanishes takes everything below it along, or
  one of the `early` requests took it, which is the exception in `WalkComplete`
  (`Sound`).
- *VisitorTracker.*  `Covered`: while nothing fails, once a fingerprint has a marker
  or a visit past it, it has a row or somebody is about to insert it; that the foreign key
  does not refuse is `AllHere`, no account is gone while nothing has failed.  `Dated`: a row
  is not of the future; and since whoever writes it is within its timeout, its time
  is at most a timeout old.  The refinement (`LogKept`) maps an INSERT that makes a row to
  `Open`, also when its answer is lost and the visit goes on; an UPDATE that finds one to
  `See`; what ends a goroutine otherwise to `Leave`; and the rest to no step.  It needs of
  `TypeOK` that no statement carries a time from before its visit.
- *WebhookBins.*  `IInv` has `Settled` (what each command may assume of its call),
  `Kept` (keys, and the times to live about to be set, against the expiry of the
  row), `Distinct` (no two calls create one id) and `Room`: a user's bins, plus
  the calls of `Create` about to insert, exceed the limit by fewer than there are
  workers.  `Room` is what makes the bound hold for any number of calls, because a
  call counts before it inserts.  `CacheEnds` and `RemovedByOwner` need
  `TimesAssumption`, a timeout no longer than the life of a bin.  The refinement
  (`BinsOwned`) maps each command to one step of `OwnedBins` or to none: the INSERT to
  `Add`, whose bound is `Room`; what is deleted by `Prune` and `DropExpired` to `Sweep`,
  because `Settled` remembers that an expired bin stays expired; the DELETE to
  `Withdraw`, although by then the row may be gone; the two commands that set a key to
  `Remember`, by `Kept`.  Beyond `IInv` it needs that an expiry about to be inserted is
  no more than a life ahead (`AllReady`).
- *HookIngest.*  `HookInv` has a `Budget` for every bin: the hits stored, plus the
  requests let through that may still store (`Admitted`), are at most the grants of
  the window and the other workers; a window that opens finds at most the other
  workers admitted, and a window that ends leaves no more than the limit and they.
  The lemma `StoreKept`, that its steps on bins are those of `WebhookBins`, makes the
  invariant of that module available.
  `Known` then follows the answer of `PublicExists`: it says yes only of a bin in its
  life or shortly after (`ExistsAnswer`, from `Kept` for a key and from `Settled` for a
  row), and since rows keep their expiry and ids stay created, the handler may
  rely on it at every later step, whatever has happened to the bin.
- *ServerLifecycle.*  `Phases` says what main has done by where it is: which clients
  are open, and that nothing runs in a process that has not listened or has ended.
  `Progress` is an action property: from `draining` main only goes on, handlers only
  end, and after `ClosePool` connections only come back.
- *Accounts.*  `IInv` follows the cookies on their way: those of a jar (`JarInv`),
  of a request under way (`RequestInv`) and of a response under way (`ReplyInv`)
  come from sign-ins of the same browser, and the two short ones from the same
  sign-in, because every response sets or clears both.  `Stage` says what a request
  may assume at each step, `Watched` that until it has asked the database an account
  that is not banned has left its trace.  A lemma (`CallFrame`) shows that what one
  request does cannot harm another: sign-ins only grow, and an upsert keeps bans.
  The refinement (`SessionsAreMembers`) maps the exchange of a code to `Vouch`, an upsert
  that finds no ban to `Admit`, the arrival of a response with a session to `SignIn`, one
  that clears it, or its expiry, to `SignOut`, a check that finds no ban to `Enter`, and
  the other steps of handlers to stutters or to the end of a ticket or a service.  That
  `Admit` and `Enter` are allowed is `JarInv`, `RequestInv` and `Stage`; that a step leaves
  what it is not about is that `chosen` and `begun` of an exchanged code are final
  (`Grows`, `UsedBegun`).
- *SmtpSession.*  `IInv` adds that only a test with a message reaches the commands
  that send one, and where on each path the connection must be encrypted already
  (`Secured`): without it the step at `AUTH` could not be proved.  `Spared` counts
  the test under way as one whose message has not been taken, which makes `SentOnce`
  inductive; `Position` orders the commands, and only `Stall` leaves a test where it is.

Only model-checked: `RefusalEnds`, `AllAnswered`, `TestEnds` and `StopEnds`, liveness
under fairness, which this prover does not reach.  Of each, the part that is safety is
proved: `WindowsEnd` with `WindowSafe`, `Unstuck` with the `Progress` of
`WebhookHitsProofs`, and the `Progress` of `SmtpSessionProofs` and of
`ServerLifecycleProofs`.  What is missing is the induction over the rank, and that an
action which is not blocked is ENABLED.  What a recursive definition computes for every
input is out of the prover's reach, too; there is none in these modules.

## 6. Not modelled, and the plan

- *Left out of the models:* names, contents and headers of hits, `last_hit_at`,
  the text of a fingerprint, wording of errors, logging.  `GetHit` only reads one
  row.  Ids are never drawn twice (8 random bytes and more).
- *Pure functions* (`sanitizeNext`, `redactHeaders`, `looksLikeBinID`, `clientIP`,
  truncation): their results are strings, of which no property here depends on more
  than the models say.
- *Middleware, routing, configuration, migrations, deployment:* stateless, fixed
  at start, or not code.  Their constraints (keys, `ON DELETE CASCADE`, pool size,
  timeouts) are in the models, the routes are the calls that `Next` allows, and
  `withRecover` is why a panic ends a handler like an answer.  Readiness is two pings.

The plan, in order:

1. done: `FixedWindow`, `RateLimiter`, `WebhookHits`, `WebhookBins`,
   `VisitorTracker`, `Accounts`, `SmtpSession`, `HookIngest`, `HitReads`,
   `ServerLifecycle`, with proofs of their safety properties.
2. done: refinements of `OwnedBins`, `CappedBin`, `VisitorLog` and `Members`, and the
   safety parts of the liveness properties.
3. `PureOps`: `sanitizeNext` with what `http.SetCookie` makes of its result,
   `redactHeaders`, `looksLikeBinID`, truncation, against reference definitions
   over small inputs.
