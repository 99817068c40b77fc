# A TLA+ model of Mousehole and its PIA side-car

Mousehole keeps a MyAnonamouse (MAM) session cookie valid for the IP address a
seedbox has now: it contacts MAM on an interval, stores the cookie that MAM
rotates to, and shows the result on a dashboard. `pia-gluetun/` is a side-car
that keeps the VPN underneath alive. Both are small programs whose difficulty is
in what happens between their steps: awaits, timers, signals, crashes, lost
answers. These modules state what must hold there, TLC checks it on small
instances, and TLAPS proves the safety of every part for all of them.

Paths below are relative to the repository; `contact.ts` is
`src/backend/contact.ts`, and so on.

## 1. Inventory

| component | state | operations | talks to |
|---|---|---|---|
| contact scheduler (`contact.ts`, `mutex.ts`) | mutex chain, `stopped`, the background task | `start`, timer, `POST /updates`, `PUT /cookie`, `stop` | state store, MAM, host-info service, SSE registry |
| state store (`state/*.ts`) | `state.json`, `state.json.tmp` | `readIfExists` (with migration), `write` | the file system |
| process life (`index.ts`, `server.ts`) | running or not | boot, SIGINT/SIGTERM, exit, being killed | scheduler |
| sessions (`session.ts`) | Map of sessions, one timer each | create, validate (prunes), delete | SSE registry through `onSessionDeleted` |
| server-sent events (`sse.ts`) | Set of clients | register, cancel, notify, closeSessionStreams | browsers |
| configuration and boundary (`config.ts`, `app.ts`, `http-boundary.ts`) | the configuration of this process | start, login, logout, the checks in front of every route | all of the above |
| dashboard, login and logout (`src/frontend/hooks`, `app.tsx`, `dashboard.tsx`, `login-form.tsx`) | query cache, event source, mutations, the browser's session cookie | invalidate, fetch and retry, mutate, log in, log out | `GET /state`, `/events`, `POST /updates`, `PUT /cookie`, `POST /login`, `POST /logout` |
| `pia-wg register` (`main.go`, `internal/pia`, `internal/state`) | `state.json`, `token.json` | list, pick, token, addKey, save | PIA |
| PIA boot and recovery (`pia-entrypoint.sh`, `pia-recover.sh`) | `register.env`, `piaportforward.json`, counters | register, probe, apply, restart | `pia-wg`, gluetun |
| supervisor (end of `pia-entrypoint.sh`) | `gluetun_pid`, `shutdown`, `restart` | start, wait, traps | gluetun, recovery loop |

What is hard, and what makes each part correct:

* **Scheduler and store.** A contact reads the file, waits for MAM for up to the
  request's time-out, and writes. Other contacts, a new cookie, a stop or a
  crash can come at each await. Correct means: no update is lost, the file is
  never torn, an unreadable file is never overwritten, a cookie is dropped only
  where the code says so, the loop survives every failure and ends when told to.
* **Sessions and streams.** Sessions end in three ways under two clocks, and a
  stream must end with its session and be told everything until then.
* **Boundary.** Which checks a request meets depends on its route and on how it
  was authenticated, and a handler acts some time after it was let through.
  Correct means: no handler runs without a credential of the process that let it
  through, and no foreign page changes anything on the browser's session.
* **Dashboard.** Signals carry nothing and can be lost; fetches overlap commits,
  logins, logouts and each other, and answers come late. Correct means: the
  dashboard ends up showing what is stored, a logout closes it, a login opens it,
  and no rejection keeps the page on its spinner.
* **PIA.** PIA keeps one key per server, three files and a process name the
  server, and every remote step can fail after it took effect. Correct means: the
  copies agree, the port signature belongs to the server, servers are changed
  only as documented, and a running container gets healthy again.
* **Register.** PIA replaces a key before it answers and before anything is
  saved, and the token cache trusts the host's clock. Correct means: what was
  reported as saved is what PIA holds, and no state of the cache is a dead end.
* **Supervisor.** A POSIX shell with traps: signals arrive between any two
  commands and end a `wait`.

The components with their status, and every hazard at its line with the
properties aimed at it (or why there is none), are in `PROJECT.json`.

## 2. Modules

| module | models | grain |
|---|---|---|
| `ContactState` | the data: stored state, file contents, parse, migrate, serialise, MAM's answers, the result of a contact | pure operators |
| `Contact` | scheduler, mutex, timer, file writes, process | one action per stretch between two awaits |
| `AtomicContact` | the abstract specification: a contact is one atomic read-modify-write | refined by `Contact` |
| `ContactProofs` | theorems about `Contact` | see section 5 |
| `Sessions` | sessions, streams, registry, and the routes that touch them | one action per handler |
| `AtomicSessions` | the abstract specification: sessions that begin and end, and streams that end with them | refined by `Sessions`, `Boundary` and `Dashboard` |
| `SessionsProofs` | theorems about `Sessions` | see section 5 |
| `Boundary` | configuration, the checks of a request, login, restarts | one action per way a request is answered |
| `BoundaryProofs` | theorems about `Boundary` | see section 5 |
| `Dashboard` | one page: query cache, stream, mutations, login and logout, and the server as they see it | one action per callback, request or answer |
| `DashboardProofs` | theorems about `Dashboard` | see section 5 |
| `PiaRecovery` | boot, recovery loop, registration, gluetun and PIA around them | one action per registration, branch or apply |
| `PiaRecoveryProofs` | theorems about `PiaRecovery` | see section 5 |
| `PiaRegister` | one `pia-wg register`, step by step | one action per step and per failure |
| `AtomicRegister` | the abstract specification: a register changes `state.json` at one instant | refined by `PiaRegister` |
| `PiaRegisterProofs` | theorems about `PiaRegister` | see section 5 |
| `Supervisor` | the supervising shell | one action per command, two for the traps |
| `AtomicSupervisor` | the abstract specification: one gluetun, restarts at one instant, an end with its status | refined by `Supervisor` |
| `SupervisorProofs` | theorems about `Supervisor` | see section 5 |
| `MC*` | instances for TLC | |

Operators whose comment begins with "Mutant" are altered forms of their
neighbour, kept so that each property can be shown to notice a plausible bug;
`PROJECT.json` says which property notices which. No action uses them.

### Contact

`call[c]` holds the locals of one `commitContact`. Its `pc` names the await it
is suspended at: `waiting` (mutex), `contacting` (MAM), `writing`, `renaming`,
`persisted` (renamed, the promise not resolved yet). `chain` is the mutex: the
code chains promises, so the callers form a queue and the head holds the lock.
A call that stops the process takes the mutex for good, so `Exit` needs a
stopper at the head. `task` keeps apart `armed` from `fired`, since
`scheduleNext` clears a timer that is spent just as one that is pending.

Handler bodies with no await in between are one action: `Settle` is the whole
`finally` block. `Crash` is possible everywhere and leaves a file that was being
written old, torn or whole. `Boot` starts with any file that the previous
process, version 1, or nobody left behind.

Of valid JSON that is not of the current version, a `legacy` file holds its cookie
under `currentCookie`, as version 1 did; a `foreign` one - of a later version, or
without one - holds it elsewhere, where `findCookie` does not look. A cookie may be
the empty string (`EmptyCookie`): nothing checks the value that a `Set-Cookie:
mam_id=` of MAM sets (`mam.ts:69-73`), `contact.ts:126` stores it, and the next
contact takes it for no cookie (`contact.ts:89`). `CookieIsKept` names these two as
the only ways in which a stored cookie is lost.

`WriteFails` stands for a failing `mkdir` and for a `writeFile` that fails before
or after it wrote something. The host-info service and MAM are modelled by their
outcomes: looked up, updated with or without a new cookie, refused, unreachable.

### Sessions

`sessions` and `timers` are the Map, split into what the wall clock decides
(`expiry`) and what the event loop decides (`expiryTimeoutId`). `wall` may be
set to anything at any time; a timer's `ran` counts real ticks and it may fire
late. `Delay` is what `setTimeout` makes of a delay it cannot represent. A
stream's controller moves from `open` to `closed` by the server, or to `left`
and then `cancelled` by the client. A stream opened with a Bearer token carries
the session id of the cookie that came along, valid or not, as the code does.

Which requests pass the checks is `Boundary`'s subject; here a request presents a
session, a valid token, or neither.

### Boundary

The process starts with any environment: plain secrets, secret files (which win
even when they are empty), the opt-out, allowlists that are unset, wildcards, or
lists that may come out empty. `BuildConfig`, `Invalid` and `Secured` are
`config.ts` and `validateRuntimeSecurityConfig`. `Stack` says which checks stand
in front of which route, `Precedence` in which order they answer, `Authenticate`
is the ladder of `checkAuthentication`. Secrets are sequences of UTF-16 code
units, as `safeEqual` compares lengths in units and contents by `codePointAt`;
hosts and origins are records whose port `new URL` drops when it is the
scheme's own.

A request that has got to its handler is `Reached`. A handler that waits is
`acting` until it ends; sessions may end and the process may be restarted under
another configuration before it does. One that answers in the step it is let
through - `POST /logout`, and `POST /login` where there is no password - leaves the
exchange `handled`.
`live` is a history variable: whether the request's cookie named a live session when
it came in. `Entitled` speaks of that moment, as the code does not look at the
session again. `CrossSite` names the routes it is about itself, and does not take
them from `Stack`: so it notices a route that loses its origin check (the mutant
`StackLogoutOpen` opens `POST /logout`) as well as a check in the wrong order.

Left out: the redirect of `/`, the static files, the JSON 404, all without
effect; a request without a Host header, whose host is then taken from its URL.

### Dashboard

`shown`, `error` and `fetch` are the cache entry of the one query; `View` is what
`App` makes of it: spinner, login form, error or dashboard. `Render` follows each
change of it: the dashboard's event source is opened when the dashboard comes up
and closed when it goes. `Invalidate` is what `invalidateQueries` does - cancel
the fetch in flight and send another if there are data, join it if there are
none - and `SetData` what `setQueryData` does: write, and cancel nothing.
`Retry` is the query's own: neither a 401 nor another rejection is retried.

The server is what the page can tell of it: `state`, the number of contacts
committed and the number of times the next one was scheduled, and the sessions it
knows. `GET /state` reads the one, awaits, and then looks up the other
(`ServerReads`, `ServerAnswers`). A request is admitted with the cookie it was
*sent* with, and a mutation that was admitted goes on after a logout. The answer
of a login or logout sets the cookie and pulls again; it may be late or never
come. A session may end at any time - by expiry, in another tab, or because the
process restarted and forgot all of them - and its stream ends with it; an event
source that is answered with anything but 200 gives up.

Two history variables state the two exceptions the code makes. `from` is what
wrote the data last: the answer of a mutation is written whenever it arrives,
over newer data of a refetch and over the 401 of a logout. `joined` says that an
invalidation joined a fetch that was already under way with the cookie from
before.

External: TanStack Query and `EventSource`, as the hooks use them. The page's
buttons are pressed one at a time: one login and one logout are under way at most,
as each form disables itself.

### PiaRecovery

A registration is `[cn, valid]`: PIA forgets a key when the same account
registers another one with that server. `saved`, `env` and `gluetun` are the
three copies - `state.json`, `register.env`, the running gluetun - and `pf` is
the server to which the stored port signature is bound. `loop` names the branch
of `pia-recover.sh` that is under way. `Register` is the whole of a successful
`pia-wg register`; `RegisterFails` allows the failure to come after PIA has
already replaced the key, and `RegisterCut` is `pia-wg` killed after its save: then
`state.json` is ahead of `register.env` and gluetun until a later registration is
activated, which the history variable `cut` remembers and `CopiesAgree` and
`ServerChangesAreSpaced` name. `age` is the age of the last change by `state.json`,
`known` by `register.env`, which is what the branches look at; `since`, a history
variable, is what both ought to be. `PiaRegister` takes a
registration apart, and is shown to implement it.

One abstraction of time: gluetun restarts within the grace period
(`ProbeUnhealthy` waits for `~restart`). A dead tunnel may come up at any time, in
the middle of a round too: between the `rm` of the signature and the apply the old
gluetun can then write the old server's signature again. The code has nothing
against that, so `late`, a history variable, remembers it: `ChangeDropsSignature`
names it as the one way in which a round leaves a foreign signature, and `Recovers`
asks that it does not happen for ever. Without either exception TLC finds the race.

### PiaRegister

`pc` names the next step of `cmdRegister`: `list`, `token`, `key`, `save`,
`print`. The server list is a random sample of the region, so `Pick` is a set of
answers. `held` is what PIA holds, `saved` is `state.json`; a failure or a kill
may come at each step, and a failed `addKey` may have replaced the key.
`GenerateKeypair` is the fresh key that `AddKey` sends. Keys are labels, and a
fresh one is any that PIA and `state.json` do not remember.

`token.json` keeps two clocks: `expires` is what is left until the `expires_at`
it names, by the host's clock, which may be set; `life` is what is left of the
token at PIA, which may revoke it. A write of it that is cut leaves a file that
does not parse. The temporary file of `state.json` is read by nobody and left
out: `Save` is the rename.

### Supervisor

`pc` is the next command. A trap may run at each of them and moves a `wait` to
the `kill -0` that follows it. Starting is two commands, `Fork` and `Assign`, for
the child exists before `gluetun_pid` names it. `kill -0` succeeds for a child
that has ended and has not been waited for. `LoopDies` is the end of the recovery
loop by `set -e` or `set -u`, which the supervisor does not notice.

## 3. Runs

| run | instance | what it shows |
|---|---|---|
| `contact` | 2 calls, 2 stops, 2 cookies | all safety of the core, that it implements `AtomicContact`, that calls are answered, a stop ends the process, and contacts recur |
| `sessions` | 2 sessions, 2 streams, duration 2 | safety of sessions and streams, that they implement `AtomicSessions`, and that sessions end |
| `sessions_overflow` | duration above `MaxDelay` | finding: the timer overflows |
| `pia` | one region of 3 servers of which one may die; kills and edits everywhere | copies, the signature through every server change, spacing, and that a container that stays up recovers |
| `pia_region` | regions of 2 servers and of 1, with edits by the operator | finding: the signature outlives a region change |
| `pia_hold` | the same regions, without edits | finding: a held server that is gone is not left |
| `supervisor` | 3 registrations | one gluetun, its exit status, the newest settings, that the shell implements `AtomicSupervisor`, an end |
| `supervisor_term` | the same | finding: a SIGTERM during a start is lost |
| `dashboard` | 1 mutation, 1 commit, 1 failed contact, 2 sessions | nothing is missed, a logout closes the dashboard, a login opens it, the spinner ends, the dashboard catches up |
| `boundary` | 2 texts, one a prefix of the other; 1 session; hosts and origins that differ by port or scheme | no request gets to a handler that it is not entitled to |
| `register` | 2 servers, a token good for one tick, one thing that goes wrong | a saved key is held by PIA; the steps implement `AtomicRegister`; registers succeed again and again |
| `dashboard_end` | no mutation, 1 session that ends | finding: the dashboard stays up |

Why the bounds are enough:

* `contact`: with two callers one contact is in flight and one queued, before a stop
  or behind it, and with two stoppers SIGINT and SIGTERM may both come. Slots are
  reused, so the number of contacts in a run is not bounded. Two cookies suffice to
  tell kept from replaced; the empty one stands beside them. No symmetry, as
  liveness is checked.
* Sessions: two, so that one request prunes somebody else's session, and two
  streams, so that one is closed or left while the other stays. `EndOfTime` is
  above the duration, so that a clock set back can revive an expiry.
* `pia`: thresholds and attempts are 2, each small but above one. `LiveServers`
  bounds how many servers die (1,010,202 states): with one left, `Recovers` is
  false, because a signature of a foreign server can only be left by moving to a
  third; so two of the three stay alive. The two findings take a region that can
  roll (two servers), one that cannot (one server), and an interval of 2.
* `boundary`: requests follow one another, and what one leaves behind is the
  session store; one session id, used up by a login, shows what a restart or an
  expiry does to it. The texts hold a surrogate pair; `BadHost` stands for
  everything that does not parse. Nothing is counted, so nothing else is bounded.
* `register`: two servers, so that a saved registration and the next one may be
  of different servers; four keys, one more than can be remembered; `Lifetime`
  and `Safety` such that a cached token is usable, then not. `MaxUpsets` bounds
  kills, revocations and set clocks together; failures are not bounded.
* `Supervisor`: one registration served, one asked for, one under way.
* `dashboard`: the one commit is the mutation's, or another contact's that the
  page is told of; a contact may fail before or after it. Two sessions are one of
  an earlier visit and one of a login, or those of two logins; once they are used
  up a login is only refused. Fetches, retries, focus events, losses of the stream,
  logouts and refused logins are not bounded. That is 746,109 states; one more
  commit or mutation takes the run beyond minutes, and the proofs of its safety
  properties have no bound.
* `dashboard_end` needs no contact: without one nothing else makes the page pull.

`TypeOK` is in no run: it is proved for all seven state machines, and the runs
spend their time on the rest.

`Supervisor` really stops when the container ends, so its runs do not check for
deadlock; the other runs do.

### Fairness

* Contact: every await ends - file operations complete and the MAM request has a
  time-out (`fetch.ts`) - and an armed timer fires. Nobody has to send requests,
  to stop or to boot.
* Sessions: time passes and due timers run.
* Dashboard (all weak): `EventSource` reconnects on its own and delivers its
  events, and every `GET /state` is read, answered and received, or fails. Nobody
  has to press a button, to look at the page, to contact MAM or to end a session;
  `CatchesUp` asks that the stream holds in the end and the user stops logging out.
* PiaRecovery: the scripts run on (weak). A registration with a live server that is
  tried again and again is granted some day, and a sound registration given again
  and again connects between two rounds (strong); nothing is assumed about a single
  try. A roll that is tried again and again picks a server other than the present
  one some day, as PIA lists a random sample.
* PiaRegister: the caller calls again and again, also without a pin, and time
  passes. A list that is fetched again and again names each server some day;
  requests to a live server and writes that are tried again and again get
  through some day (strong). PIA takes a good token on a live server.
* Supervisor: the shell runs on, and a gluetun that got SIGTERM ends.

## 4. Findings

1. **A long session duration ends sessions at once** (`sessions_overflow`).
   `session.ts:48` passes the duration as one `setTimeout` delay; above
   2^31 - 1 ms it becomes 1 ms. `config.ts` accepts any positive number. The
   contact interval (`contact.ts:152`) has the same overflow.
2. **A SIGTERM during a start is lost** (`supervisor_term`). While gluetun is
   being started, `gluetun_pid` is empty or names its predecessor. The trap
   reaches nobody, the new gluetun runs, and the shell waits for it. A SIGUSR1
   in that window likewise leaves `restart` set, with a gluetun on the settings
   exported before. `TermIsHeardBetweenStarts` proves that this window, from the
   decision to start to the assignment of the pid, is the only one: no gluetun
   outlasts a SIGTERM that comes at any other time.
3. **The port signature survives a server change at boot** (`pia_region`), when
   `PIA_REGION` changed or `state.json` was deleted: `old_cn` is empty then and the
   file is kept. With `KilledAnywhere = TRUE` a container killed between a recovery
   round's save of `state.json` and its `rm` has the same effect. `SignatureIsRight`
   proves that with neither, and with no `late` signature, there is no other way to
   a foreign one.
4. **A held server that is gone is not left** (`pia_hold`). The hold branch
   treats exit status 3 like any other failure. `GoneIsLeftUnlessHeld` proves that
   this branch alone is at fault, and `GoneIsLeftWithoutInterval` that it is never
   taken when `PIA_MIN_SERVER_CHANGE_INTERVAL` is 0.
5. **The dashboard outlives its session** (`dashboard_end`). The server closes the
   stream of a session that ends so that the page re-pulls and lands on the login
   form. But the event source reconnects to `GET /events`, is refused, and gives up
   without an event that `server-events.ts` listens to, so that nothing pulls
   until the window is focused or the user logs out.

Each is quoted with the line it contradicts in `PROJECT.json`. Three more
disagreements came up, which no run shows as a violation:

* **A cookie that is not looked for.** `store.ts:33-38` says that only a missing file
  reads as a fresh install, lest the next contact write a cookieless state over the
  real one, and `migrate.ts:31` that the cookie survives across versions. But
  `findCookie` (`migrate.ts:20-28`) knows `currentCookie` alone: the file of a later
  version after a downgrade, or a document `{"cookie": ...}` without a version,
  reads as a state without a cookie, and the next contact writes that.
* **An empty rotation.** `mam.ts:69-73` returns the value of `mam_id` as it is, and
  `contact.ts:126` prefers any string to the cookie it sent: an empty one replaces the
  stored cookie, and from then on `contact.ts:89` looks up the host instead.
  `NeverDropped` proves that these two are the only ways to lose a stored cookie.
* **An answer that is never sent.** `docs/API.md:92` lists `auth-not-configured`
  among the answers. `NeverNotConfigured` shows that no running server sends it: one
  without credentials or opt-out refuses to start.

## 5. Proofs

### Contact

`ContactProofs` proves, for any number of callers, stoppers and cookies, with
`NoCookie` and `EmptyCookie` no cookies and callers and stoppers disjoint as the only
assumptions:

| theorem | states |
|---|---|
| `InitIsInductive`, `NextIsInductive` | `IInv` holds initially and each step preserves it |
| `TypeCorrect` | `Spec => []TypeOK` |
| `Serialised`, `NothingIsLost`, `QueueIsTheCalls` | mutual exclusion, no lost update, an exact queue |
| `LoopStaysAlive`, `StopHolds`, `ExitDrains` | the loop lives until it is stopped, stopping is final, an exit drains |
| `NeverTorn`, `NeverOverwritten`, `NeverDropped` | the three action properties of `state.json` |
| `ToldIsStored` | a client is told what `state.json` holds at that moment, the cookie it put included |
| `FirstComeFirstServed`, `NobodyWaitsForNobody` | the mutex serves in the order of arrival, and while anybody waits the head of the queue can go on |
| `Refinement` | `Spec => AtomicSpec` |

**The inductive invariant.** `NoLostUpdate` says that what a call holds was
computed from what is on disk *now*. It is not inductive alone: another call's
rename would break it, so it needs `MutualExclusion`. That in turn follows from
the chain only if nobody is in it twice and everybody who waits is in it
(`QueueIsExact`): otherwise a release could promote a call that is already past
its read. `CallsAreSound` adds that a call past its read saw a readable file and
holds an answer that MAM can give to it; `DiskIsSound` that an unreadable or missing
file parses to no state. `IInv` is their conjunction with the lifecycle
invariants.

**The argument.** `AcquireLemma` and `ReleaseLemma` say what the two operations
on the mutex do to a duplicate-free sequence. `HolderLemma` covers all actions by
which the holder moves on while the queue stays. There is one lemma per kind of
action, and `NextIsInductive` is the case split. `DiskStep` says that only a rename
changes `state.json`; `StoreStep` uses `IInv` for it, and `ResultKeepsCookie`,
that a contact's result keeps a cookie unless MAM rotates it to nothing: a lookup,
whose result has none, is only made where there was none to lose.

**The refinement.** A contact takes effect at its rename: before, it is
`pending`; after, `committed` with the state it wrote. The rename is `Commit`,
which needs `NoLostUpdate` and `CallsAreSound` to see that what is renamed is
the result of an answer to the *present* state. All other steps are a request,
a reply, a failure, a restart, or a stutter.

`FirstComeFirstServed` and `NobodyWaitsForNobody` are what liveness rests on:
with them, `CallsAreAnswered` needs of fairness only that each holder's own awaits
end.

### Sessions

`SessionsProofs` proves every safety property of `Sessions`, for any sessions and
streams, any duration, any limit of `setTimeout`, and a wall clock that is set as
it likes.

`Inv` is the type invariant with `TimersMatchSessions`, `StreamsEndWithSession`,
`RegistryIsExact` and `DelaysAreExact`: each timer was armed with the delay
`setTimeout` makes of the duration. Each needs the others: a stream ends with its
session only because `closeSessionStreams` finds it in the registry, and the
registry is exact only while every way out of `open` takes the stream out of it.
`DeleteInv` and `EventsInv` carry that through `onSessionDeleted` and
`GET /events`, which also prunes.

`NoneExpiredIsAdmitted` is about the pair of the prune and the lookup.
`SessionsLast` has the one condition the code does not check, that the duration
is no more than `MaxDelay`: `DelaysAreExact` then makes a timer's end an end by
real time. Without it `sessions_overflow` is the counterexample.

`Refinement` proves that the store implements `AtomicSessions`: clocks, timers,
pruning and the registry are seen from outside only as sessions that end and take
their streams along. A prune inside `GET /events` ends sessions and opens a stream
in one step, which is why `Open` may end some. `Boundary` and `Dashboard`, which
model sessions as a set and an end at any time, are proved to implement the *same*
specification (`SessionsAsPromised`, `ServerAsPromised`): each uses sessions only as
the store is proved to keep them.

### Dashboard

`DashboardProofs` proves `TypeOK`, `NothingIsMissed`, `LogoutCloses` and
`LoginOpens` for any number of mutations, contacts, failing contacts and sessions.

`Inv` says of each phase of a fetch what the property says of its end.
`ReadIsCurrent`: with the stream open and no event left, what was read is the
newest version, for a later commit would have left an event, and that event
cancels the fetch. `LoggedOut`: a page without a cookie has no fetch under way
that could succeed. `LoggedIn`: a page with a live session has none that could be
answered 401, but for one it joined. `Answers` says that an answer that is used is
there. `InvalidateLemma` and `RenderLemma` state what the two operators shared by
most actions do; then there is one lemma per group of actions.

`DataMoveForward` says that from one answer of `GET /state` to the next the data
shown never go back. `AnswerIsOld` is its invariant: an answer under way is no newer
than the server, and `Forward`, no older than the data of the query it is to
replace. The exception, that the answer of a mutation is written whenever it comes,
is in the property.

`ServerAsPromised` proves that the page's server implements `AtomicSessions`, with
one stream: every way a session ends here - `DeleteSession`, at a logout, an expiry
or a restart - closes the page's stream in the same step, as `Sessions` is proved
to do.

### Boundary

`BoundaryProofs` proves `TypeOK`, `NeverNotConfigured`, `Entitled` and
`CrossSite` for any set of non-empty secrets, any hosts, ports, origins and
allowlists and any number of sessions. The assumptions say that the values that
stand for "none" are none of the others, that explicit ports are numbers, and
that the default allowlist is not empty.

`SafeEqualIsEquality` is the lemma that carries the rest: for any two strings,
lone surrogates included, `safeEqual` is equality. `codePointAt` at a high
surrogate looks at the next unit too, so equal code points have to be taken
apart again (`PairTellsHigh`, `CodePointTellsUnit`). `StackLemma` says once what
every request that gets past the checks has passed, and `ReachedInv` keeps that for
as long as its handler has it, or has just answered.

`Inv` adds `Held` to the properties: a running server is `Secured`, and a live
session implies a running server that has a password. Without it,
`Entitled` is not inductive, as a request could come in on a session that no
password ever opened. There is one step per action; a restart resets the
sessions and the exchange together, which is why nothing of an old
configuration survives it.

`AccessIsExact` gives the outcome of the checks in both directions: a request gets
to its handler if and only if `Permitted` holds, a formula that names no order of
checks. `SessionsTakeThePassword` is the way back from a session: it was opened by
a login with the password that the running process is configured with.
`SessionsAsPromised` is the tie to `Sessions`, see there.

### PiaRegister

`RegisterIsSafe` proves `TypeOK` and `SavedKeyIsHeld` for any finite region, any
token lifetime and any number of upsets, with more keys than PIA and `state.json`
can remember (`FreshKeyExists` counts them). `Inv` adds what the property needs
between the steps: PIA holds the key about to be saved (`pc = "save"`) and the
one just saved (`pc = "print"`), and what was reported names a server.
`QuietStep` covers all steps that change neither PIA nor `state.json`,
`WorldStep` those around a register.

`Refinement` proves that the steps implement `AtomicRegister`, whose registrations
are those of `PiaRecovery`: a server, and whether PIA still holds the key. The
abstract register takes effect at `Save`; `AddKey`, long before, only outdates what
is saved for that server (`ReplacedKey`, which needs that the new key is fresh), and
a failure at any step is a `Fail`. `Replace` and `Commit` with the same server make
`PiaRecovery`'s `Register`; a `Fail` before the `Commit` its `RegisterFails`, one
after it its `RegisterCut`.

### PiaRecovery

`PiaRecoveryProofs` proves `TypeOK`, `CopiesAgree`, `ChangeDropsSignature` and
`ServerChangesAreSpaced`, for any regions, thresholds, attempts and intervals, with
kills in the middle of a step, edits between boots and dying servers.

`CopiesAgree` speaks of the time between rounds only. `Copies` is what holds in
between: which of `state.json`, the candidate, `register.env` and gluetun name one
server at which point of a boot or a round - and that where gluetun's may differ,
the signature is gone or came `late`. That last conjunct is `ChangeDropsSignature`
waiting to happen. `Rounds` is what each branch has established of the counters and
the interval when it is taken, which is what a roll rests on. `Ages` says that the
two records of the last change, in `state.json` and in `register.env`, are right:
equal to `since`, the time since another server was really saved, unless a register
was cut. `Phases` ties the loop and gluetun to the container. `RegisterLemma`,
`RegisterFailsLemma` and `RegisterErrsLemma` say what a registration may touch:
never the server that gluetun or `register.env` names. `UncutLemma` is why the
condition `~KilledAnywhere` of `SignatureIsRight` keeps `state.json` out of it.

Three theorems are about the two properties that the code violates, and say under
which condition they hold (section 4). The conditions are ones that executions do
meet: an interval of 0, a container that nobody edits or kills in the middle of a
round, a loop that never gets to a hold.

### Supervisor

`SupervisorProofs` proves `TypeOK`, `StatusIsGluetuns`, `RunsNewest` and
`OneGluetun` for any number of registrations, restarts and signals.

`ReapedAfterWait` says what the shell knows of gluetun at each command: it gets
past `wait` and `kill -0` only by a gluetun that it has reaped, whose status is
then in `rc`. `TrapLemma` is why a signal that ends a `wait` early does not break
it. `NewestOrPending` says that a registration newer than gluetun's is still being
applied, has a `restart` still to come, or is about to be read; the `restart=0`
of `Reset` keeps it only because the file is sourced after it.

`Refinement` proves that the shell implements `AtomicSupervisor`, which has neither
commands nor traps. A restart takes place when the registration's file is
sourced (`Source`), for that settles which settings the next gluetun has; the
container's end when `Decide` takes it. Between the decision to restart and
`Source` the restart counts as owed still, and what is signalled then is heard
after it: that is all the nondeterminism the abstract `Restart` needs. So
`PiaRecovery` may take `GluetunRestarts` for one step.

### Model-checked only

Liveness, as fairness is out of the prover's reach: `CallsAreAnswered`,
`StopTerminates`, `ContactsRecur`, `SessionsEnd`, `CatchesUp`, `SpinnerEnds`,
`Recovers`, `Resumes` and `StopsOnceHeard`. Every safety property that a passing
run checks is proved. The theorems that state more than a run checks
(`AccessIsExact`, `OnlyThePassword`, `NeverBackwards`, `AnswersAreStored`,
`NobodyOvertakes`, `SomebodyHasIt`, the two uses of `AtomicSessions`, and those of
section 4) were confirmed by TLC on the instances of section 3 before they were
proved.

## 6. What is not modelled

* The time-constant side of `safeEqual`, the drawing of session ids, the cookie's
  attributes; durations, paths and log levels in the configuration parser.
* The health endpoint, which reads `state.json`, answers with the kind of its last
  contact (`handlers/health.ts:14-16`) and changes nothing, and the helpers that
  format times and name the build.
* Rendering, the countdown, formatting, logging and error texts: functions of what
  `Dashboard` keeps, without a state that anything else reads. That an error is
  thrown, and what it unwinds, is part of each action.
* `pia-wg`'s wire code, which field of an answer or of a state file does not
  validate, shell quoting, the DNS bypass. Their failures are outcomes of a
  registration. Of the shell library, the clamping of settings, the firewall rule
  and the control server's auth file.
* The demo server and the generator of the forum post, which are no part of the
  running system, and the build.
* Real time beyond the ticks of `Sessions`, the token clocks of `PiaRegister` and
  the server-change interval of `PiaRecovery`; so no rate of contacts and no
  length of a shutdown.
* The listener: a port that is taken, connections that are open at an exit.

Five hazards have no property:

* an operator who deletes `state.json` of a running process;
* a connected client that does not read, whose queue grows (`sse.ts:18`): the
  queue is not modelled;
* a request that was admitted by a session and acts after that session has ended:
  the code never looks again, so `Entitled` and `Dashboard` take it as it is;
* the answer of a mutation, which is written whenever it arrives, over newer data
  and over the 401 of a logout: `NothingIsMissed`, `LogoutCloses` and `CatchesUp`
  speak of data that `GET /state` wrote last;
* a recovery loop that dies alone: `Supervisor` keeps its promises after it, but
  nothing in the code restarts the loop, and `PiaRecovery` takes it to run on.

Nor is it modelled which cookies MAM still takes: a rotation whose write fails leaves
the cookie from before, for which the code has no remedy.

## 7. Plan

Done: a model of each component with state of its own, checked, with its safety
properties proved for all values of the constants; `Contact` as an implementation
of `AtomicContact`, `PiaRegister` of `AtomicRegister`, `Supervisor` of
`AtomicSupervisor`, and `Sessions`, `Boundary` and `Dashboard` of the one
`AtomicSessions`. What is left, in this order:

1. An abstract specification of the page - a register that is read some time after
   it was written, while logged in - refined by `Dashboard`, which would contain
   `DataMoveForward`.
2. Two tabs that share a cookie: `Dashboard` lets the other tab end a session, but
   not log in again.
3. The death of the recovery loop in `PiaRecovery`, and what remains of `Recovers`
   after it.
