# Daily Set in TLA+

Daily Set is a daily puzzle: everybody gets the same board of the card game Set, finds the sets on it, and the server keeps sessions, times and a leaderboard. A FastAPI server (`app/`) owns the data; a Go gateway (`realtime/`) passes messages from NATS to browsers; a React client (`frontend/`) plays.

This directory holds models of the server's core and of the web client, the configurations that model-check them with TLC, and proofs that TLAPS checks. Paths below are relative to the root of the repository; `PROJECT.json` says which lines each definition models.

    tlc -config GameSession_free.cfg MCGameSession      # any run of PROJECT.json
    tlapm GameSession_proofs.tla                        # or another *_proofs.tla

## 1. Inventory

### The server

Handlers of the server that are plain `def`s run in the threads of a pool, with a database session each; the `async` ones share one event loop. Two plain handlers can thus be between any two of their statements at once, and the database (SQLite or Postgres, its default isolation) only orders single statements and commits. No handler locks a row, no table has a unique constraint on what the handlers look up first, and a commit checks no version. Most of what is hard in this code follows from that.

| Component | State | Operations | Should hold |
|---|---|---|---|
| Game rules (`app/game.py`) | none | `is_set`, `find_sets`, `daily_board` (deterministic per date, retried until the board has a set) | two cards determine the third; a day's board has a set and is the same for everybody |
| Play (`app/main.py:665-1144`, `app/crud.py`, `app/models.py`) | tables `Player`, `GameSession` (start and finish time, board), `FoundSet`, `Completion` | `start_session`, `get_current_session`, `submit_set`, `complete_daily` | boards stay legal; nobody is stranded; finished sessions stay finished; every set is counted once; one unfinished session and one time per player and day; no play after completion |
| Player registration (`create_player`, `_create_player_and_set_cookie`) | `Player` | look up a username, insert | a username names one player |
| Tokens (`crud.make_session_token`, `verify_session_token`, `rotate_session`) | `session_token_secret` of `Player` | sign, verify, rotate | a rotated token is refused |
| Rate limiting (`app/main.py:28-63`) | `_RATE_LIMIT_STORE`: one list of request times per address | `check_rate_limit` | declared limits hold; nobody is refused without cause |
| Leaderboard and cache (`app/main.py:575-602`, `app/cache.py`, `crud.get_leaderboard`) | `MemoryCache`: entries with an expiry | get, set, delete; `record_time` invalidates | answers count every completion, and are for the limit asked for; staleness ends |
| Ranking and status (`crud.get_leaderboard`, `crud.get_daily_status`) | none | effective times, bonus for sets found, order, placement | a best time per player; the placement agrees with the leaderboard |
| WebSocket broadcast (`app/main.py:66-146`) | `_WS_CONNECTIONS`, with `last_sent` | connect, receive, broadcast, drop the dead | every client gets the last event; a socket that comes or goes does not stop a broadcast |
| Realtime publisher (`app/realtime_publisher.py`) | one NATS connection | connect when first needed, publish | one connection; publishing never fails a request |
| Migrations (`app/migrations.py`) | `schema_version` rows | run what is not recorded | each migration's effect once, after a crash too |

### Gateway and client

| Component | State | Operations | Should hold |
|---|---|---|---|
| Gateway (`realtime/main.go`) | rooms with their connections, a NATS subscription per connection | join, leave, forward, ping | a message reaches each client once; subscriptions end with connections; nobody waits for a stalled peer |
| Game state (`frontend/src/lib/game.ts`, `lib/api.ts`, `App.tsx`) | board, selection, session, found sets, clock; the snapshot in `localStorage`; requests under way | mount and restore, start, select, submit, finish, reload; requests that fail or time out | the indices sent name the cards the player sees; no set is counted that the session has not got; the game comes back after a reload; the leaderboard opens when the game has ended |
| Leaderboard on the page (`components/Leaderboard.tsx`, `LeaderboardPanel.tsx`) | data, two timers, a socket, a retry delay, the sets of a player | fetch, refetch on an event, connect and retry, clean up, click a player | an event is shown in the end; one line, also with late closes; the panel shows the player it names |
| Realtime client (`lib/realtime.ts`) | socket, attempts, closed, timers | connect, reconnect, close, send | one line; closed stays closed; the open line has its room |
| Presentation, static pages, logging, headers, build | none another part depends on | | not modelled |

### How they interact

* Client to server: HTTP requests, which a client may repeat, overlap, or give up waiting for.
* Handlers to each other: only through the tables, `MemoryCache`, `_RATE_LIMIT_STORE` and `_WS_CONNECTIONS`.
* `crud.record_time` commits a completion and then invalidates the cached leaderboard: the one call that couples play and leaderboard.
* A completion is meant to be broadcast to sockets of the server. The handlers that record one are plain `def`s, and `asyncio.get_running_loop()` raises in the thread they run in: the `except RuntimeError` around it then skips the broadcast. Events of the gateway come from NATS. So as the handlers are declared, a completion is told of to nobody. A client that is told nothing shows what it fetched last; `LeaderboardView` has completions with and without an event, so that what it shows is there for handlers that do tell.
* The client to itself: the effects of React run after the render that follows a change of state, in the order they are declared, those of `useGame` before those of `App`.

### What is hard

The list with lines is "hazards" in `PROJECT.json`. In short: statements of handlers that interleave (check and insert, load and write back, filter and append, query and fill); two commits of one handler with a death between them; stale copies of rows that are committed later; a cache whose key leaves out a parameter; sets that share cards, so that the end of the game is not the end of the cards; windows of different lengths over one list. In the client: an effect that submits again when anything it depends on changes, answers that are applied to the board that is there by then, a snapshot that one effect saves and another restores, answers that are lost after the server has acted. The other asynchronous parts add registries that change across an `await`, locks held while sending, answers out of order and requests whose answer is lost.

## 2. The modules

| Module | Models | Extends |
|---|---|---|
| `AtomicPlay` | what the play promises where the requests of a player do not overlap: one step per answer of the server | standard modules |
| `GameSession` | the play, as steps of concurrent handlers | standard modules; instantiates `AtomicPlay` |
| `RateLimiter` | the rate limiter | standard modules |
| `LeaderboardCache` | the cached leaderboard and the completions that outdate it | standard modules |
| `SetRules` | the rules on the four features | standard modules |
| `GameClient` | the page that plays, and the handlers of the server it plays against | standard modules, `SequencesExt` |
| `LeaderboardView` | the leaderboard on the page, with the cache and the completions of the server | standard modules, `FiniteSetsExt` |
| `RealtimeClient` | the realtime client | standard modules |
| `GameSession_proofs`, `LeaderboardCache_proofs`, `LeaderboardView_proofs`, `RateLimiter_proofs`, `RealtimeClient_proofs` | proofs about a module | the module, `TLAPS` |
| `GameSessionExclusive_proofs` | play without overlap, and the refinement of `AtomicPlay` | `GameSession_proofs` |
| `PlayRules_proofs` | proofs about `AtomicPlay` and `SetRules` | both, `TLAPS` |
| `GameClient_proofs` | proofs about the page that plays | `GameClient`, `FiniteSetTheorems`, `TLAPS` |
| `MC*` | boards, limits and symmetry for TLC | the module after `MC` |

In the modules of the server a handler is a record in `th`, whose `pc` is the stage it has reached. One action is one statement that another handler can observe, or that observes another: a query, a commit, a read or a write of shared memory. Whatever a handler does between two of those is part of the action. Some definitions stand next to a variant with a comment "Mutant of": a plausible bug in the same code, which the property it is paired with in `PROJECT.json` must catch.

### GameSession

| State | In the code |
|---|---|
| `name` | rows of `Player` and their usernames |
| `sess` | rows of `GameSession`; `state` is whether the row exists and whether `finished_ts` is set |
| `found` | rows of `FoundSet`, by session, in order |
| `completions` | rows of `Completion`; `by` is the session whose end recorded the row, `None` for a time given directly |
| `cookies`, `handed` | what clients know: player tokens, and session ids or tokens |
| `th[t].board`, `.pid`, `.date` | the handler's copies: SQLAlchemy's identity map hands out the row that was loaded first |

| Handler | Actions |
|---|---|
| `start_session` | `StartRequest`, `Resolve` (username, else cookie, else insert), `Register`, `CheckStart` (403 after a completion), `FindActive` (reuse the latest unfinished session), `NewSession` (draws id and start time), `CreateSession` (commits) |
| `get_current_session` | `GetCurrentSession` |
| `submit_set` | `SubmitRequest`, `Load` (400 if finished), `Guard` (403 after a completion), `Reject`, `ApplyToDaily` (no session: nothing is stored), `Play` (one commit: board, set, flag), `RecordSession` (a second commit: the time), `RecordStandalone` (a time given with the request) |
| `complete_daily` | `CompleteDaily` |
| any | `Die`: an exception of the driver, or the end of the process |

A board is a set of cards. The code keeps a list and submits indices into it, but removing cards keeps the order of the rest and every triple of distinct indices names three cards of the board the handler loaded, so the set says the same. `ValidSets` and `Daily` are constants: the proofs hold for any rule of the game and any boards that have a set at first, as `daily_board` sees to.

What a request may carry is what the code reads from it: a session id or token that some client was given, a username, a day, seconds. Requests that the code turns down before it looks at a table change nothing, and are left out.

### RateLimiter

One address, since addresses share nothing. `store` is its list in `_RATE_LIMIT_STORE`, shared by all endpoints; `admitted` is a history variable. The steps are those of `check_rate_limit`: take the time (`Request`), read and filter (`Filter`), put the filtered list back (`Replace`), test the length (`Refuse`, `Pass`), append (`Admit`). Entries carry a number, so that equal times stay apart as they do in a list. The test and the append read the list anew from the store in the model as in the code.

### LeaderboardCache

A leaderboard is a function of the table and the limit, so the model keeps the number of completions it was computed from and the limit it was computed for. `left` is the time to the expiry. A read is `AskLeaderboard`, then `Hit` or `Miss`, `Query`, `Fill`, and `Reply`; a completion is `RecordTime`, `Commit`, `Invalidate`. `Restart` empties the cache and keeps the table.

### AtomicPlay

The game of a player on a day: whether there is none, it is played, no set is left (`over`), or a time is recorded (`done`); how many sessions it had; the cards on the table and the sets found in the last session. `Begin` is an answer of `start_session` that makes a session, `Find` one of `submit_set` that accepts a set, `Settle` a row of `Completion`. `GameSession!GameOf` is the refinement mapping: it computes a player's game from the rows of the tables. `games` is that mapping for all games, and `PlaysAtomically` says that each step of the handlers is one step of this play or none: `gamesession_exclusive` checks it on two players and `HandlersPlayAtomically` proves it for any number. Where requests of a player do overlap, as those of the web client may, it is no picture of the server: `GameClient` therefore has handlers of its own. `Play` maps to `Find`, `CreateSession` to `Begin`, the commit of a completion to `Settle`.

### SetRules

`isValidSet` and `hasValidSets` of the client, which are `is_set` and `find_sets` of the server on the same features. `MCGameClient` assumes (and TLC evaluates) that the sets of its board are those of the rules, and that the server finds a set on what is left of it exactly when the client does, for each of the 512 remainders.

### GameClient

| State | In the code |
|---|---|
| `sess` | rows of `GameSession`: whether the row is there and finished, its board, and how many rows of `FoundSet` name it; a session is a player and a number, by `start_ts` |
| `done`, `registered` | the players with a row of `Completion`, and those that exist |
| `cookie` | the `player_token` that this browser holds |
| `page` | the state of `useGame` and `App` |
| `saved` | `ds_session_v1` in `localStorage` |
| `net` | the requests under way: what they carry, how far their handler is (`stage`: asked, begun, served), the board it has loaded (`copy`), whether the page still waits |
| `page.left`, `page.switched`, `drift` | history: the session before the last reload; whether the page went from one session to another since; whether the boards may be apart |

| Code | Actions |
|---|---|
| the effects at a mount | `Mount`, in `Init` and `Reload`: the snapshot is saved, then the session and the status are asked for |
| `load` | `DeliverSession` (`ResumeSession`, else `Restore`), `FailSession` |
| `onStart`, `start` | `ClickStart`, `DeliverStart`, `DeliverDaily`, `FailDaily` |
| `toggleSelect` | `Toggle` |
| the effect that submits, `submitSelected` | `SubmitEffect` within the actions that change the selection, the board or the session; `DeliverSubmit` |
| the effects that save and drop the snapshot | `PersistEffect` within `Becomes` |
| `loadStatus` | `LearnStatus` |
| `enhancedFetch` | `Fail`: the network, an error status, or ten seconds without an answer; a command that was given up may be served later |
| the cookie of an answer | `Headers`: the browser keeps it when the headers arrive, whatever becomes of the body |
| `get_current_session` | `ServeSession` |
| `start_session` | `StartSession` (who asks, 403, the unfinished session or the start time of a new one), `CreateSession` (the commit) |
| `submit_set` | `LoadBoard` (the session, the guard, the check of the indices), `ApplySessionChanges` (the commit of board, set and flag) |
| the rest of the world | `Drop`: a request that never arrives, or a handler that dies; `Elsewhere`: another browser sends a start or a submission for the player; `RecordTime`: a time is recorded, whoever asked for it |

A request is sent, served and answered, and the handlers of two requests interleave: what one has read before its commit may be out of date. A submission is read for and written for in two steps, so two submissions of the same indices may both be accepted, and the later commit writes back the board that its handler loaded; `CreateSession` likewise inserts whatever was inserted since `StartSession` looked. What the handler reads before that (the session, the guard) is one step here; `GameSession` has it statement by statement. `/api/daily` and `/api/status` change nothing at the server, and their answer depends on nothing that a moment of its own would show: `/api/daily` is the same all day, and a status is either what the server has at the answer or an older `no`. The two updates of a `setState` in one handler are one change, as React batches them; the effects are part of the action. `cleared` and the second mode of `submitSelected` (no session) are left out, since `SessionWhileStarted` says that a started page has a session. The debounce of `loadServerSession` never bites: it loads once per mount. Cards are submitted by their indices, and the board is a sequence: what is left of one is its `Entries` at the indices that are left, from the lowest up, which is what filtering and splicing give.

What `drift` gathers is where the code gives up that the boards agree: a start that reuses a session in which sets were found (the client takes the full board), one asked for twice or before the session is known, two submissions at once, an answer that is lost after the server accepted, a failed `/api/daily`, a submission by another browser. `BoardsAgree` says there is no other way; `NeverOverclaims` and `SessionWhileStarted` hold with drift as well. `NeverOverclaims` counts submissions: a set whose two overlapping submissions are both accepted is counted twice by the page, and there are two rows of `FoundSet` for it. `page.switched` is the one thing `NeverOverclaims` and `ResumesByCookie` except: a start clicked before the session of the cookie is known, under a name that is another player's, takes the page from one session to the other, and the sets it counts come along (`start` and `loadServerSession` set the session and leave `foundSets` alone).

### LeaderboardView

`view` and `panel` are the states of the component, `fetches` and `asks` its requests, `sockets` the WebSockets that are not quite gone, with `alive` of the effect that made them; `inbox` is what was published to the open one. `Mount` and `Unmount` are the effects and their cleanups; a late close of a socket whose effect was cleaned up is `SocketCloses` with `alive` false. A leaderboard is known by the number of completions it counts. A click on a name is one on its row as well, and asks twice (the event bubbles).

A request to `/api/leaderboard` goes through the stages of its handler: `Hit` answers from `cache`; `Miss`, `Query` and `Fill` compute the leaderboard, put it there and answer. Other clients ask as well (`AskElsewhere`), and a handler of a fetch that the page gave up goes on, so that a slow read of anybody can put an old leaderboard back after an invalidation; such an entry is marked `late`. `Expire` is the end of an entry or of the process. A completion is `Complete` (the commit), `Invalidate`, then `Tell`, with other steps in between and perhaps no further one. An answer that was served is delivered, fails, or stalls (`Stall`): `enhancedFetch` drops its timeout with the headers, so that a body which never ends is waited for without end.

`seen` is history: the completions that events told of, until an answer counts them (`owed`) and at most (`told`), the newest that an answer counted, and whether an answer came from a late entry. `ShowsCurrent` and `NotifiedIsShown` except such an answer: the page then shows the old leaderboard, as the code has it, until something makes it fetch again.

### RealtimeClient

The attempt counter is modelled by the delay it gives. The application may call `connect` and `close` at any moment; `crossed` records that it did so while a timer was due, or connected twice. `new URL` and `new WebSocket` may throw in `connect`, and the application's `onClose` in `onclose`, which then neither forgets the socket nor reconnects: `threw` records it until a socket is made again. `onOpen` subscribes, as the class is meant to be used.

## 3. Regimes

Three constants, and some history variables, say how much may go wrong. The code promises none of them; they separate what holds always from what holds because clients behave.

* `Exclusive` (GameSession): no two requests of one player are in flight together. This is the ordinary course of one player at one screen, and it is not enforced: the web client keeps the three cards selected until the answer comes, but a player who changes the selection meanwhile submits again (`App.tsx:99-113`); so does a second tab, a submission after a time-out, or another client of the API. Requests of different players overlap in either case.
* `Overlap` (LeaderboardCache): whether a read of a day may run while it gets a completion.
* `Faults`: whether handlers may die between steps (and the server restart).
* `drift` and `page.switched` (GameClient), `seen.late` and `panel.mixed` (LeaderboardView), `crossed` and `threw` (RealtimeClient): see above. They guard single properties, never an action: every behaviour is explored with them and without.

## 4. The runs

Runs that pass:

| Run | Question | Bounds |
|---|---|---|
| `gamesession_free` | With any overlap and any deaths: are stored boards reachable by play (`LegalBoards`), does every unfinished session have a set left (`NeverStranded`), is a finished flag final (`FinishedForGood`), do times follow it (`TimeAfterFinish`), and do the copies handlers hold agree with the tables (`HandlersInStep`)? | 2 threads, 1 player, 2 sessions, 2 sets per session, 1 day; no completions beside those of sessions, which `gamesession_exclusive` and `gamesession_liveness` have |
| `gamesession_exclusive` | With exclusive requests and deaths: `CardsAccountedFor`, `FinishedIsExhausted`, one unfinished session (`OneActiveSession`), one time from sessions a day (`OneSessionTimePerDay`), no play and no session after a completion (`NoPlayAfterCompletion`, `NoSessionAfterCompletion`), and the refinement `PlaysAtomically` | 2 threads, 2 players, so that handlers of different players interleave; one username, so that anonymous players occur too; 2 sessions, 1 day |
| `gamesession_liveness` | Does a finished session get its time, without deaths and with any overlap? | crossing sets: one set ends the game |
| `ratelimiter_mixed` | One check at a time, windows 3 and 1: `ShortestWindowLimit`, `RecentRemembered`, `NoSpuriousRefusal` | limits 2 and 3, times 0 to 4 |
| `leaderboardcache_ordered` | No overlap: are entries and answers current? | 2 threads, 2 days, 2 completions a day, entries that live 2 units |
| `leaderboardcache_liveness` | Any overlap, deaths and restarts: does staleness end (`StalenessEnds`)? | 2 threads, 1 day |
| `gameclient` | With answers that are lost, late, repeated or out of order, reloads, and another browser of the same player: do the boards agree card for card (`BoardsAgree`), is no set counted that was not recorded (`NeverOverclaims`), does the selection stay on the board, does a page with a clock have a session, does the leaderboard open only after the end (`GateSound`), does a cookie bring the game back (`ResumesByCookie`)? | 1 player, 9 cards with two disjoint sets, 2 requests under way, 1 session |
| `leaderboardview` | `OneLine`, `ShowsCurrent`, `LoadingHasCause`, `PanelMatches`, and, with fairness, `NotifiedIsShown` | 2 players, 2 reads of the leaderboard, 2 requests for sets, 2 sockets, 1 completion, delays 2 and 3 |
| `realtimeclient` | `OneLine`, `OpenIsHeld`, `NeverGivenUp`, and, with fairness, `CloseSettles` | 3 sockets, 2 timers, the delays of the code |

Why these bounds are enough. Two handlers suffice for every race here: each hazard is a pair of steps of one handler with one step of another in between. Two sessions let a second one follow a death, or stand beside the first. The boards are made of three sets of cards that agree in one feature: `Row` and `Column` are disjoint and can be found in either order, `Bridge` shares a card with each, so that finding it ends the game. The two safety runs use all three, the liveness run `Row` and `Bridge`, where one set ends the game. With all three a handler can finish a session by `Bridge` while another still holds the full board and takes `Row`, whose commit then puts cards back on a finished session. No board has more than two disjoint sets, and two rows of `FoundSet` per session show a repeated one as well. One day is enough because every query of the play names its day; the proofs are for any number. `MaxDirect` bounds completions that do not end a session by one, enough for a completion that another request does not expect. The clock of the rate limiter runs past the longest window, so that entries expire and room returns. In `LeaderboardCache`, `MaxRows` of two gives entries that are one and two completions behind.

In `GameClient` two slots hold a submission and another, or a submission that was given up and a new one: each hazard of the client is a pair. A slot keeps a request that the page has given up until it is served or dropped, so that a submission can outlive a reload. The other browser's requests take the same slots: one of each, or two of one. `Picks` limits the selections to two sets, and to three cards that name other cards on a board with one set gone: a stale index meets both a set and a non-set. One player is enough for every race with the other browser; what a start under another player's name does to the page is left to the proofs, which are for any number. `MaxRounds` of one means that a game that lost its time is not begun again, and that a page never goes from one session to another (`switched`): two rounds were explored to depth 29, seven million states without a violation, but not to the end. The theorems are for any number of players and of rounds. In `LeaderboardView` two sockets are the one in use and one that closes late; two reads are one to be overtaken by another, or to fill the cache late while the page's own hits it. One completion is enough for an event, an invalidation and a late entry; two would show an entry that is behind by two. The delays 2 and 3 reach the cap as 800 and 5000 do.

Runs that find a violation (each a finding in `PROJECT.json`):

| Run | What it shows |
|---|---|
| `ratelimiter_declared` | Without any overlap: a request to an endpoint with a short window drops the entries that the long window still counts. More than 5 players per 5 minutes can be created when other endpoints are used in between. |
| `leaderboardcache_limit` | The cached leaderboard of a request for one row answers a request for more. |
| `gameclient_resume` | A player whose name is registered starts in a browser without its cookie and reloads: at the mount the snapshot is overwritten before it is read, the server knows nobody without a cookie, and the page shows the start overlay though the session is unfinished. |

The races that `Exclusive` and `Overlap` exclude are real, and each is a change of one constant away. With `Exclusive = FALSE`, two overlapping `start_session` requests each miss the other's session (`OneActiveSession`, main.py:798), and a submission that passed the guard is accepted after another request completed the day (`NoPlayAfterCompletion`, main.py:1084). With `Overlap = TRUE`, a read fills the cache with what it queried before a completion, after its invalidation (`CachedIsCurrent`, cache.py:152). With two `Threads`, two checks pass at the limit (`DeclaredLimit`, main.py:48).

## 5. Fairness

`GameSession!Fairness` and `LeaderboardCache!Fairness` ask for weak fairness of each thread's steps: the pool runs a handler it has admitted, and no step waits for another handler. `LeaderboardCache` also has weak fairness of `Tick`: time passes. Neither asks a client to do anything: requests may stop at any moment. The liveness of play holds while handlers do not die. If one dies between `Play` and `RecordSession`, nothing in the code records the time later; the player may start the day over, which `OneSessionTimePerDay` covers.

In `LeaderboardView` the browser fires the timer of the refetch, and every fetch of the page is answered, fails or stalls: `enhancedFetch` aborts it when its headers do not come in ten seconds, but a body that never ends is waited for (`Stall`), and `NotifiedIsShown` excepts it. Nothing makes a socket open, the server publish, or a handler go on. In `RealtimeClient` the browser fires its timers and ends the closing of a socket. `GameClient` has no liveness property: nothing in the code repeats a request that failed.

## 6. The proofs

All are for any number of threads, players, days, cards, sessions, limits, any boards, and any bounds. Their assumptions are the named ASSUMEs of the modules, which TLC evaluates in the runs: a day's board has a set, the values that stand for nothing are not among the others, limits, windows, delays and bounds are natural numbers (positive where the code's are).

`GameSession_proofs` proves, with no restriction on overlap or deaths, `Spec => []Inv` (theorem `Invariance`), and from it `TypeCorrect`, `BoardsStayLegal`, `NobodyIsStranded`, `TimesFollowFinish`, `HandlersStayInStep` and the action property `FinishedIsFinal`. None of the properties is inductive alone:

* `NeverStranded` needs that a row is only written `active` on a board with a set; for a stale write on a row another handler finished, that the flag stays.
* `LegalBoards` needs that the copy a handler loaded is reachable, which must survive every other handler's commit. It does because `found` only grows and a session's day never changes (lemma `AppendFound`), whatever happens to the stored board.
* `TimeAfterFinish` needs that a handler about to record works for a finished session of its player.
* `HandlersInStep` needs that no two handlers are about to insert one id, and `RowsComplete` gives each row a player and a day.

`LocalStep` is the lemma for actions that leave sessions and sets alone, `Record`'s lemma `RecordTime` for completions; there is one lemma per action, and `NextInv` joins them.

`LeaderboardCache_proofs` proves the types whatever overlaps or dies (`TypeCorrect`), and, for `~Overlap` and `~Faults`, that entries and answers are current (`CacheStaysCurrent`, `AnswersAreCurrent`). The inductive invariant says of a handler that holds a leaderboard that its count is the table's; that reads and completions of a day exclude each other; and of every entry, live or expired, of a day that is not between commit and invalidation, that it counts every row. The last is stronger than `CachedIsCurrent` so that nothing depends on the clock.

`RateLimiter_proofs` proves the types for any number of checks at once (`TypeCorrect`), and, for one check at a time (`OneThread`) and any limits and windows, that the shortest window is respected (`LimitHolds`), that recent requests are remembered (`RecentStaysRemembered`) and that nobody is refused without cause (`RefusalsHaveCause`). The inductive invariant follows a request that counts through the stages of a check: in the list, in the filtered copy, in the list again; that an entry of the shortest window passes the filter of every endpoint is where "shortest" is needed. The numbers of admitted requests grow, so that a later one does not count with an earlier one.

`GameSessionExclusive_proofs` is about `Exclusive` play, with any deaths. What a handler has read of its player's day, or the copy of the board it holds, is only as good as nobody else's writing on it, so none of the properties of the `gamesession_exclusive` run is inductive. The invariant `Excl`, beside `Inv`, is

* `Registered`: whoever a client, a handler or a session names is a player, and an id that is not drawn has neither a board nor sets;
* `Apart`: two handlers under way act for different players and different names;
* `HandlersUpToDate`: what a handler has read is so still. Between its check and its insert nobody has completed the day for its player, no session is unfinished, and the id it draws is the last; the copy of a handler that is about to play is the row;
* `ActiveIsLatest`: an unfinished session is the last of its player and day, which makes it the game that `GameOf` shows;
* and the properties `CardsAccountedFor`, `FinishedIsExhausted` and `OneSessionTimePerDay` themselves, which take each other's place in the steps of `Play` and `RecordSession`.

There is a lemma for each action; `HandlerStep`, `QuietStep` and `Advance` serve those that move one handler and write nothing another one has read. `HandlersPlayAtomically` is the refinement: `StepKinds` sorts the steps into those that create a session, play in one, record a time, or leave the games alone (`SameGame`), and `CreatePlays`, `PlayPlays` and `RecordPlays` give the step of `AtomicPlay` for each. That a player's sessions have a last one (`HasLast`), which `GameOf` chooses, is by the well-foundedness of `<`, as an induction over sets is not to be had.

`PlayRules_proofs`: `PlayIsSound` of `AtomicPlay`, from `Dealt` (every day's board has a set; `DeckAssumption` of `GameSession`, which instantiates the module), with the type of the games and that a game that is played has begun. Of `SetRules`: the third card exists, is a card, and is the only one (`ThirdCompletes`); so two sets share one card at most (`SetsShareOneCard`), which is what a set that is found can take from another.

`LeaderboardView_proofs`: `LineStaysSingle` is inductive with the types. `ShownIsCurrent` needs the chain that carries a completion to the page: the timer, a request whose handler has not read, one that has read enough, or an answer that counted it (`Cause`). Why a handler that has not read will read enough is in `Staged` (what was told of was committed, and had dropped the cached leaderboard before) and `CacheCounts` (an entry that is not late counts all that was told of). `PanelStaysMatched` needs that only the sets of the selected player are under way to a panel that is not mixed.

`RealtimeClient_proofs`: `KeepsTrying` holds whatever the application calls, unless connect or onclose ended in an exception since the last socket was made. `LinesStaySingle` and `OpenStaysHeld` are about a client that is not crossed, and follow from one invariant, `Line`: every socket that is not gone is the one the client holds, and a timer is due only when there is none.

`GameClient_proofs` is for any number of players and of requests under way, with handlers that interleave, with answers that are lost, late, repeated and out of order, and with drift unless a property excepts it. A moment of the server is `World`, the sessions and the players that are done. `CInv` relates five things that the code keeps apart:

* `ServerFits`: a session's board is of the day's cards, one that is played has a set left, and whoever has a session is registered;
* `PageFits`, `SavedFits`: what the page holds, and the snapshot for it. A session that is held was begun (`Held`), so that none is taken for one whose insert is still to come; without a session there is neither a clock nor a selection, a board or a set; a snapshot that can be restored counts no more sets than the page;
* `RequestFits`: what a request and its answer may say, even if nobody waits for it;
* `AnswerFits`, `Apart`: what an answer that is waited for means to the page, and which are waited for together. The session that was left at a reload is carried by the request for it until it is on the page, which is what `ResumesByCookie` needs;
* `Counts`: the sets the page counts and the accepted submissions it is yet to be told of (`Due`) are no more than the rows of `FoundSet` of its session. `NeverOverclaims` is not inductive without the answers under way.

`BInv` is about the handlers between their read and their write: no two starts have drawn the same session, and that is not there yet; the copy of a submission has cards of the day's board.

The server moves under the page: `Grows` (`RowGrows` of each session) says that a session that was begun stays so, one that is over too, what was recorded stays recorded and who is done stays done, whatever stale copy of a board is written back; and `FitsLater` that every part of the invariant survives that. `BecomesFits` is the lemma for changes of the page with the effects they run, `FitsChange` for a request that is replaced; then there is one lemma per action. In a search for the invariant with two players TLC refuted two properties as they were stated before, which is where `page.switched` comes from.

`BoardsAgree` and `GateSound` need a second invariant beside it, `AInv`: while there is no drift,

* no submission is under way but one, and the page has not gone from one session to another;
* each request says of the board what is true of it (`AgreesWith`): a submission, the cards at its indices of the board the page still shows; the answer of `/api/session`, the table of its session; a start without drift and the `/api/daily` it is followed by, the full table; a submission that its handler has read for, that the handler's copy is the table still; an accepted submission, that splicing its indices from the board of the page gives the table of its session;
* when no board is on its way and nothing found is to be told (`Quiet`), the board of the page is the table of its session.

`OneAtATime` draws from `CInv` that a page without drift which waits for an answer waits for no other, so that each answer can be looked at alone (`AloneAgrees`). The steps then turn on boards as sequences. `Entries` chooses the indices one by one; `NthOnly` says that there is one increasing listing of a set of indices, hence `EntriesEqual` and `EntriesTwice` (entries of entries are entries), and with them `OrderedWithout`: splicing indices from the board of a table is the board of the table without those cards. That is where `applySetState` of the page and `_apply_session_changes` of the server meet. The snapshot plays no part: a mount overwrites it before it can be restored, unless something went wrong after it was written anew, which is drift. For `GateSound` there is, besides, that a recorded time stays (`DoneStays`) and that only the status tells the page of it (`ToldByStatus`); and a board which is taken for complete while its session is played would have to be the table, in which a set is left. `ClientTypes` is from `DataInv`, which is what `CInv` leaves open: boards, selections and the cards of requests.

Only model-checked: the liveness properties `FinishedGetsTime`, `StalenessEnds`, `NotifiedIsShown` and `CloseSettles`, as fairness is out of the prover's reach. Every invariant and every action property of a passing run is stated by a theorem. Not provable here: what recursive definitions compute; no module with proofs has one.

## 7. Plan

Done since the first version: `AtomicPlay` and its refinement, with its proof; `SetRules`; the client (`GameClient`, `LeaderboardView`, `RealtimeClient`); the proofs about them, `RateLimiter_proofs`, and those of exclusive play. What is left, in this order:

1. `WsBroadcast` and `Publisher`: the event loop, the registry and the throttle across awaits; to be composed with `LeaderboardView`, which takes events as they come.
2. `PlayerRegistry` (check and insert of usernames) and `TokenRotation` (secret replaced between verification and use).
3. `Gateway`: rooms, subscriptions, locks and pings of the Go process.
4. `Ranking` and `DailyBoard`: effective times, ties and placement on small tables; the search of `daily_board`, including what it returns when no attempt has a set.
5. `Migrations`: a crash between a change and its record, two processes at once.

## 8. What is left out

* Times of day, seconds, formatting, validation of the form of requests, headers, logging: no property here depends on them.
* The signature of tokens: a token stands for the session or player it was made for; rotation is planned.
* `try/except` around the insert of `FoundSet`: in SQLAlchemy the insert happens at the commit, so nothing in the `try` block fails.
* The cache of daily boards: its values never change for a date. `cleanup_cache_periodically` is never scheduled.
* In the client: the clock that is shown, toasts, vibration, drawing of cards, the theme. The start time only decides whether the clock runs.
* Midnight: the client plays one day. A session started just before it and a board fetched just after would differ; nothing in the client compares their dates (hazard at `game.ts:196`).
* React's `StrictMode`, which mounts twice in development.
* Presentation, static pages, build and deployment: no shared state.
