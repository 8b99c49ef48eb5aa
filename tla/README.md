# A verification project for xTremio

xTremio is a Stremio addon server: it puts an Xtream panel's live channels,
movies and series behind Stremio's catalog, meta and stream routes, and relays
the panel's streams so that the player never sees the panel's URLs. One Node
process serves every account; all state is in memory and dies with it. This
directory holds TLA+ models of the parts of it that are hard to get right,
configurations to check them with TLC, and proofs for TLAPS.

    tlc -workers 2 -config MCRelaySlots.cfg MCRelaySlots.tla     (and so on)
    tlapm TotalsProofs.tla

## The system

JavaScript runs one callback at a time. Nothing preempts a function, so a
stretch of code between two awaits is atomic; everything interesting happens
where a function awaits, registers a callback or sets a timer, because the
world moves on before it resumes. The models take the code apart at exactly
these places.

| part | source | state | operations | hard behaviour | modules |
|---|---|---|---|---|---|
| relay caps | `src/proxy/relay.js` 563-656, `index.js` routes | a counter per account, per client, and a total | `acquireProxySlot`, `releaseCount`, `rejectOverCap` | a slot outlives the handler that took it; closes come in any order | RelaySlots |
| lifecycle | `src/lifecycle.js`, `index.js` 1105-1151 | the shutdown flag, a timer, the open connections | listen, signal, drain, forced exit, crash, restart | the exit races the closes; old connections still bring requests | Shutdown |
| relay | `src/proxy/relay.js` 191-476 | one request: upstream response, abort signal, timers, response | HEAD, GET, playlist read, rewrite, sniff, pipe | a timer, an upstream failure or a departing client at every await | Relay |
| playlists | `src/hls/playlist.js`, `relay.js` 485-561 | the walk over the lines, the origins seen | `rewriteHlsPlaylist`, `makeHlsProxyMapper` | positional grammar; a deadline between look-ups; a cap on origins | Playlist, Relay |
| bounded caches | `src/cache/bounded-map.js` | the LRU maps, and one ledger for all of them | `get set delete evict sweep`, `add touch remove enforce` | two orders and two kinds of sums kept by hand | CacheBudget |
| stream list cache | `src/cache/layers.js` 145-301 | an entry, a pending flight, a refresh, per account | `load`, `refreshAhead`, `get`, `set`, sweep | flights, refreshes, failures and the sweeper interleave | StreamListCache |
| keyed cache | `src/cache/layers.js` 307-340 | an entry and a pending flight per key | `load`, `get` | the same, without refresh | CacheAside, PanelReads |
| series info | `src/xtream/data.js` 166-282 | positive and negative entries | `getSeriesInfo`, `fetchSeriesInfo` | retries, backoff, remembered failures | CacheAside, PanelReads |
| panel calls | `src/xtream/client.js`, `src/upstream/read-capped.js` | one call: three deadlines, a body cap | `xtremioGet`, `readJsonCapped` | deadlines racing chunks; a body nobody reads | PanelReads |
| categories | `src/xtream/data.js` 34-84 | one entry of three lists per account | `getCategories`, `refreshCategories` | the three fetches fail separately | Categories |
| address pins | `src/net/safe-fetch.js` | vetted addresses per host | `assertSafeOutboundUrl`, `pinnedLookup`, `safeFetch` | vetted at one time, used at another | Outbound |
| origin vetting | `src/proxy/relay.js` 54-92 | a cached promise per origin | `vetHlsOrigin` | a failed look-up must drop only itself | Outbound |
| catalog shelf | `src/catalog/`, `index.js` 526-592 | selections and sorted views, memoised under the list they were made of | `selectCatalogSource`, `sortedCatalogItems`, paging | a memo that may outlive what it was made of | Catalog |
| configure | `src/configure/validate.js`, `index.js` 382-508 | attempts per client; the attempts of one form | rate limit, credential check | window edges, the cap on clients; which scheme and host get the password | Configure |
| config tokens | `src/config-token.js` | keys derived at boot, counts for a log line | encode, decode | a rotation of the secret over a restart | |
| stateless rest | manifest, pages, html, helpers, extras, request | none | | | |

How they interact. A route decodes the config token, then reads through a cache
(`load`), which on a miss calls the panel (`xtremioGet`) through `safeFetch`,
which vets and pins the addresses it may connect to. Every cache is a
`BoundedMap` charged to one `CacheBudget`; a write to one can evict an entry of
another. A timer sweeps all of them. The catalog route memoises what it has
sorted under the very array that a cache gave it. A proxy route takes a slot, and
runs `relayUpstream`, which for a playlist calls `rewriteHlsPlaylist` with a
mapper that vets origins. The slot goes back on the 'close' of the response, and
a shutdown waits for those closes. In the models an interaction is a shared
module where both sides have state (Shutdown over RelaySlots, Relay over
Playlist, the pins under fetches and vettings in Outbound, a panel call inside a
cached read in PanelReads), and otherwise an action of the environment: an
eviction at any moment for the shared budget, a fetch that ends within its
deadline for a panel call, a list that is replaced at any moment for the caches
under the catalog.

What makes each part correct:

- relay caps: the counters are the open relays; a cap is never exceeded; a
  refusal is for the reason it gives. Lifecycle: a shutdown ends, and exits with
  0 only if it cut nothing off.
- relay: one answer; an end that means complete; nothing of the upstream left
  open; a deadline where it must be and none where it must not; no playlist
  relayed as it came, and in one that was rewritten every link signed as what the
  player will take it for.
- bounded caches: the ledger charges exactly what the maps hold; sums and orders
  do not drift; bounds hold; what was just written stays; the loops end.
- the caches: nobody is answered with a list too old, or without the panel having
  been asked at the pace promised; a failure is replayed as it was and not for
  too long; one flight is shared; everyone is answered.
- panel calls: a deadline fires only when it is due; no connection is lost.
- pins, vetting: no connection to an address that was not vetted for its name,
  no vetting lost to another's failure.
- shelf: a page comes from the list, the category and the period it is asked for.
- configure: the limit holds at its edges and tells the truth, and a window is not
  forgotten before its time but for room; the password goes only where it may, and the link names a place where it was taken.

## The modules

A module per component, with no bounds but its constants; an `MC` module and
`.cfg` files give the constants values; a `Proofs` module holds theorems
(`TotalsProofs` those of RelaySlots, Shutdown and CacheBudget, `CatalogProofs` those of
Categories and Catalog, `RelayProofs` those of Playlist as well). An
operator whose name begins with `Fault` is a seeded bug that no specification
uses: put in the place of the definition it stands before, it makes TLC report a
violation, which is how each property is known to say something.

**RelaySlots** (relay.js, the caps). A request's arrival, the checks and the
counting are one action, since the routes reach `acquireProxySlot` and
`relayUpstream` without an await between them. `StartRelay`, `RefuseRelay` and
`AnswerBadRequest` are the three outcomes, `CloseResponse` is the 'close'
listener. Maps are functions with the keys that are present. The limits are
chosen at the start, 0 for "disabled" among them. Any account may be asked for
by any client.

**Shutdown** (lifecycle.js, the bootstrap) puts RelaySlots into a process: a
signal stops the listening, closes idle connections and arms a timer; `Drained`
is the callback of `server.close()`, `TimedOut` the forced exit, `Crash` what an
error of the server or an unhandled exception does; `Restart` begins with empty
counters, since all of them are memory. A response leaves its connection behind,
idle, or takes it along; requests keep arriving on those that are left.

**Relay** (relay.js, `relayUpstream`). One request, `pc` being the await the
handler is in. `Proceed` is the stretch of code from the headers to the next
await: the mapper, the partial playlist, the HEAD without a body, the sniff, the
pipe. `Close` is the 'close' of request and response: it comes when the response
is over or the client leaves, at any time. Upstream responses are records of
what the code reads of them: status, type, whether the body starts with
`#EXTM3U`, whether it is encoded, how many chunks. `fetch` is modelled from its
use: an aborted fetch rejects, a body of an aborted response fails. Redirects
are inside a fetch here, and in Outbound for themselves.

**Playlist** (playlist.js, the mapper of relay.js) is the walk that Relay takes
through a playlist, as a record: the text, the line it is at, the flag that a
STREAM-INF sets, the origins admitted and seen, and for each line what was put in
the place of its URIs so far. Relay takes a step per line and per URI (`LineEnds`,
`MapUri`, `TargetAllowed`, `TargetRefused`, `RewriteEnds`), since a vetting is
awaited at a URI and time passes there. `Reading` and `Hides` say, without the
walk, what a player reads in a text and what the rewrite must have made of it.

**CacheBudget** (bounded-map.js). A JS Map is the sequence of its entries in
insertion order; an entry is an object with an identity, so that replacing a
value by an equal one can be told apart. The loops of `set`, `enforce` and
`sweep` run one turn per step with `pc` holding everything else off, which makes
their termination a property. `evict` and `delete` release an entry alike
(`Release`). Time is left out: a sweep may find any entries expired. A miss,
`peek` and the reports of `onEvict` change nothing. `clear()` is called by tests
only.

**StreamListCache** (layers.js, `createStreamListCache`). One account. A job is
a promise: a flight (shared by cold requests) or a refresh. It is *queued*
(`Promise.resolve().then`), *fetching*, *settled*, and gone when its `finally`
has run. Any two jobs, callers and the sweeper interleave between these, which
is more than the microtask queue allows; nothing rests on the extra orders, and
the two counterexamples below use none of them. Time is ages in ticks. `Evict`
stands for the other accounts that share the bounds. `sinceRefresh` is history,
the time since a refresh last began, kept apart from what the entry remembers of
it. Fetches last any time up to `FetchMax`, the overall deadline of
`xtremioGet`.

**CacheAside** is what a cache in front of the panel promises the readers of one
key, with no word of how: what the panel said last is remembered for the life of
that outcome and not longer, failures included; while it is remembered the panel
is not asked; everyone who waits is told the same thing, what is remembered or
what has just been learnt; and everyone who waits is told something.

**PanelReads** (data.js, layers.js, client.js, read-capped.js) is the detailed
side: the three kinds of read (a movie's details, a category's list, a series)
through the single-flight, and inside the flight the calls: headers, chunks, the
end of the body or its cap, a refused status whose body is discarded, the one
timer that is armed for the headers and then again for each chunk, and the
overall one. For a series there are several calls with a pause between, and what
the last of them brought, or the error, is remembered. `KeepsPromise` is the
whole specification of CacheAside under a refinement mapping (`entry` is the
memory, `result` what the waiting are about to be told, the lives are `Promised`),
safety and liveness.

**Categories** (data.js 34-84). One account: a cached entry, the refresh under
way, and the callers that await it. `Run` is the start of `refreshCategories`,
which keeps the entry it finds; then each list's call ends by itself
(`ListArrives`, `ListFails`); `Store` is the code after `Promise.allSettled` and
`Finish` the `finally` of the single-flight. A list is known by its age since
the panel sent it, which the code does not record, and `None` is the `[]` of
`stale || []`. Time passes, and the sweeper's timer fires, only when no promise
callback is due (`Quiet`).

**Outbound** (safe-fetch.js, relay.js). Tasks are calls of `safeFetch` and
`vetHlsOrigin`: each resolves (with the fall-back from one look-up to the other
and the deadline of both), is refused or pins the addresses, and a fetch then
connects to what the pin of that moment offers and follows redirects through the
same check. The check of a vetting ends as `passed`, `blocked` or `failed`, and
the handlers of its promise run in a step of their own (`Settle`), which puts
the verdict in its place or, of a look-up that failed, drops it. The pins and
the vettings are sequences in the order of the code's maps, with what is left of
each lifetime. `heard` is history: how long ago DNS last gave a host nothing but
public addresses. Another scheme, a localhost name and a private literal are one
URL, "refused"; a public literal is another. ALLOW_PRIVATE_NETWORKS, which
switches the check off, is off.

**Catalog** (catalog/, the catalog route, data.js). A request reads the
categories, then the full list or the lists of its categories in the order of
their ids, one await after the other, selects, sorts and answers a page at its
skip. `arrays` are the lists the panel ever sent, by identity; `memo` is what
hangs on each of them: the period it is of, the selections and the sorted views.
Between any two steps a list may be fetched anew, evicted, or the period may end.
The live shelf matches category names where an item has no category id, and is
not sorted. A list may hold an item twice: sorting is stable, so an item's place
is the count of those that precede it, ties as in the list (`Place`, `InOrder`).
What a page must be is stated from the items alone: sort what the lists it was
made from have of the selection, and cut.

**InsertionOrder** has the ways in which entries leave a Map that is walked in the
order of insertion; Outbound's pins and vettings and Configure's buckets use it.

**Configure** (index.js, validate.js, panel-allowlist.js). The limiter's buckets
are in the order of the Map, each with what is left of its window; the clock may
also be set back, which is how a bucket expires behind one that is live. A form
that gets past it names a host and, or not, a scheme; its attempts follow one
another through `fetch`, `body` and `confirm` (`credentialsWorkAt`), and the
record of the form notes where the password went, who sent a response and who
took it. An answer of a panel is any: none, no panel, a refused account, an
account with or without a URL of its own.

## The runs

| run | what is checked | bounds, and why they are enough |
|---|---|---|
| `relay_slots` | `CountsMatchRelays`, `CapsHold`, `RefusalIsTruthful`, `CleanExitDropsNothing`, `ShutdownEnds` | three requests, two accounts, two clients: enough to pass a cap of two with one account on two clients and the reverse; each limit off, alone, and tied with others |
| `cache_budget` | `LedgerMirrorsMaps`, `BoundsHold`, `LoopsEnd` | two maps (one bounded in bytes), keys shared by both, one weight over what the byte-bounded map may hold and one over the whole budget |
| `stream_list_cache` | `AnswersAreRecent`, `FlightsAreShared`, `RefreshesAreApart`, `EveryFlightEnds` | two callers; times in the order of the code's (fetch > failure ttl, fetch < what is left after the refresh point), one day shortened to just over a TTL |
| `categories` | `EachListIsTheLast`, `FailureRetriedSoon`, `EveryCallerAnswered` | two callers (one to start a refresh, one to join it), two lists of the three (one fails and one does not), a fetch as long as the failure ttl, a day of two TTLs |
| `relay` | `NothingLeftOpen`, `NoPlaylistVerbatim`, `WholeDeadline`, `ClaimsAreOfTheBody`, `AnsweredOnce`, `HandlerSettles` | every kind of request and response, up to two chunks (one read by the sniff, one by the pipe); playlists with every kind of line, in which a kind is stated by position across another tag, by the tag for two URIs, and not at all; three origins, of which one, two or all are admitted and two have room |
| `outbound` | `ConnectsToVetted`, `VettingsAreKept`, `EveryTaskEnds` | two tasks and two hosts, so that tasks meet on one host or not; room for one pin, so that it is evicted while it is in use; three origins (a name, an address, one that is refused) and room for two vettings, so that one is dropped for room and the other must stay; lifetimes of one tick, as the code only asks whether they are over; one redirect |
| `panel_reads` | `TimeoutsAreTrue`, `KeepsPromise` | three callers (one starts, one joins, one reads what is remembered), the code's three attempts, deadlines in the order of the code's, such that a trickle of chunks reaches the overall one |
| `catalog` | `PageIsTheShelf` | two requests, two arrays (a list and the one that replaces it, or two to merge), two periods, pages of one item with and without a skip; items in two categories, in one, in none, and one listed twice; categories with names of their own, with one name, and none at all |
| `configure` | `PasswordGoesWhereItMay`, `AnswerIsConfirmed`, `LimitHolds`, `EveryFormAnswered` | three clients for two buckets, a limit of two, so that a window is neither new nor full; a window of two ticks that are one second, so that what is left of it is rounded up; the clock set back by a tick at a time; two hosts, one or none of them listed |
| `stale_lost`, `refresh_empties` | one statement of a comment each, which the code does not keep | the constants of `stream_list_cache`, without evictions, so that what is shown is not the doing of another account |
| `stale_categories` | `StaleIsBounded`, likewise for the categories | the constants of `categories`, without evictions |

Each run checks its module's `TypeOK` too (`BudgetTypeOK`, `CatalogTypeOK`), which says more than the types where the
module keeps something by hand (sums, bounds, timers that are off).

`CHECK_DEADLOCK FALSE` is there for `relay`, where a request that has been
answered and closed does no more, and for `catalog`, where a request is answered
once and the arrays and periods are bounded (`MaxArrays`, `MaxEpoch`). Symmetry is
used in `catalog` alone, whose requests are interchangeable and which checks
invariants only.

Fairness. In CacheBudget a loop takes its next turn, because nothing preempts
it. In StreamListCache a job proceeds: its callbacks are run by the event loop,
and its fetch is ended by the deadlines of `xtremioGet`. Callers, the sweeper
and evictions are not fair. Categories is fair to the refresh likewise: one of
its steps is taken while one is possible. In PanelReads that assumption is itself
taken apart: time passes, timers fire, a backoff ends and a settled promise runs
its callbacks, and nothing is assumed of the panel; that every flight ends then
follows from the deadlines. In Relay time passes, due timers fire, what was
aborted rejects, look-ups end (the resolver has a deadline), the walk goes on, and
a body that is being sniffed and says nothing is given up by the client library
(undici's body timeout, as the header of relay.js relies on). The upstream owes
nothing, nor does the client. In Outbound a look-up ends by its deadline and a
fetch by its caller's. In Configure the timers of the attempts fire. In Shutdown
the forced-exit timer fires if it is armed and `server.close()` calls back when
the last connection has gone; players may stay for ever.

Faults. Crash and restart are in Shutdown (nothing is persisted, so the state of
everything else after a restart is its `Init`). A panel or an upstream that
refuses, breaks off, sends nonsense or nothing is in every model that talks to
one; lost work (eviction, sweep) is in every cache; a clock that is set back is in
Configure.

## Where the code and its comments disagree

- `stale_lost`: "A stale list beats an empty shelf" (layers.js 280). The stale
  copy is looked up when the fetch has failed; its ttl is over by then, since
  that is why a fetch was made, so a sweep that falls into the fetch drops it.
- `refresh_empties`: a background refresh "can only ever make a later request
  faster" (layers.js 233). An empty list is not a failure, and `set` puts it in
  the place of a good list.
- `stale_categories`: past CACHE_STALE_MAX_AGE_MS, "the same window catCache
  gives its own stale fallback", a copy is abandoned (layers.js 283). A failed
  refresh of the categories stores the lists it carries over under the time of
  the refresh (data.js 72), so their age is forgotten and nothing bounds it.

Seen while reading, and shown by no run:

- A flight that fails after a refresh has succeeded shortens the fresh list's
  ttl; an older download that ends last replaces a newer one (layers.js 248, 291).
- A refresh and a cold flight overlap "only in the window where a refresh outlives
  the fifth of the TTL it was given" (layers.js 193); a refresh starts when a
  request asks for it, and may have less than that fifth left.
- The verdict on a playlist's origin and the pins it made have one lifetime, but
  the pins can be evicted for room before; a cached verdict is then good for
  signing and no pin stands behind it (relay.js 62-63). Every fetch vets again, so
  no connection rests on it.
- `describeDowngrade(base, url, 'fallback')` compares the typed base with the URL
  that connected, and no list of attempts goes from https to http once the base is
  https; the text that pages/configure.js 54-60 has for that case is never shown.
- `isUsableSeriesInfo` and the meta route's test for content differ for a payload
  with a name at its root or with seasons of non-numeric ids only (data.js
  148-150).

## What is proved

Every theorem is for all values of the constants that satisfy the module's
assumption: any sets of requests, accounts, callers, hosts and lists, finite or
not, any limits, lifetimes and deadlines. The assumptions say of a constant what
kind of value it is and the order of the code's own constants (a failure's ttl is
shorter than a list's, that shorter than a day); that a value which stands for
"none" or for a verdict is not one of the things (`None`, `"opaque"`, `NoJob`,
tasks and hosts apart from verdicts); that two promises exist where a flight and a
refresh may overlap (StreamListCache); and that the timeouts have some bound
(`Longest` in PanelReads, which no step reads). Each run evaluates them.

The plan of every proof is the same: an inductive invariant (`IInv`, or `CatalogInv`
and the like where two components share a file), a lemma per action that it is kept,
the theorem that it always holds, and the properties from it. What the invariant adds
to the properties is what one has to know to believe them:

- **TotalsProofs**, part one (RelaySlots, Shutdown): `TypeOK`, `CountsMatchRelays`, `CapsHold`,
  `RefusalIsTruthful`. To know that a release does not take a count below what is
  still open, one must know that the count is the cardinality of a set to which the
  closing response belongs. `IInv` says so for the account map, the client map and
  the total, that the open relays are a finite set, and that a relay is marked
  `counted` exactly if some limit is on. Each action changes the sets by one element
  at most, and lemmas on cardinalities turn that into plus or minus one.
  Its last part is about `ShutdownSpec`, the process around the counters: a drain
  was asked for, a restart begins as `Init` does, and so all of the above, and
  `CleanExitDropsNothing`, holds through signals, crashes and restarts.
- **TotalsProofs**, part two (CacheBudget): `BudgetTypeOK`, `LedgerMirrorsMaps`,
  `BoundsHold`. The two parts share an argument, a total that is kept by adding and
  subtracting and is a cardinality (here of bytes, each named by its entry and its
  place), and so a module; Shutdown and CacheBudget keep to names of their own for it.
  `Core` says what is so of the maps and the ledger at every moment: each charged
  entry is in its map and one under its key, sums are weights, and the orders agree.
  Every operation takes an entry out, puts one in, or does both (`OutKeepsCore`,
  `InKeepsCore`). `LoopInv` says what a loop has still to do: only the map being
  trimmed may be over its bounds, and until `set` has returned what it wrote is the
  last in the ledger, which is why its loop never drops it, why `enforce` always
  finds a victim that its owner releases, and why one entry alone fits. Of `LoopsEnd`
  the safety half is proved with it (`LoopsRunOut`): a turn of a loop leaves the
  ledger one entry shorter or is the loop's last, and `enforce` is never left by the
  `break` for a victim that was not released, so no loop takes more turns than there
  were entries.
- **ConfigureProofs**: `TypeOK`, `PasswordGoesWhereItMay`, `AnswerIsConfirmed`,
  `LimitHolds`. Of a form: what it may have sent at the stage it is in, that it
  has heard only from where it sent to, and that the URL that is being confirmed
  keeps the scheme that was typed. Of the limiter: a client has one bucket, the map
  its bound, and of a client that was told to wait the bucket is gone when it has
  waited, wherever the clock is set back to. The sweep stops at the first live
  window and so leaves them all (`SweptKeepsWindows`), and room is only made in a map
  that the sweep left full, so what goes is its oldest (`RoomKeepsWindows`). Nothing
  is said of https that worked: for who typed no scheme, a panel may name http as its
  URL, and the credentials are tried there (`validate.js` 159 guards who typed https).
- **PanelReadsProofs**: `TypeOK`, `TimeoutsAreTrue`, and that each step of the
  flights, attempts, deadlines and caches is a step of CacheAside or leaves it
  alone. A timer has run down by no more than the silence, or the call, has lasted;
  a flight has someone who waits for it, and asks for nothing that is remembered.
- **OutboundProofs**: `TypeOK`, `ConnectsToVetted`, `VettingsAreKept`. The pins are
  one for a host, in the order in which they expire, public, and no fresher than
  what DNS last said of their host; a vetting that is settling has its task,
  and an origin has one vetting. That
  the pins expire in order is why `InsertionOrder`'s removal from the front is the
  code's sweep.
- **CatalogProofs**, part one (Categories): `TypeOK`, `EachListIsTheLast`,
  `FailureRetriedSoon`. A refresh holds, of each list that has not arrived, the last
  the panel sent; what is settled is whole; and what serves for the short ttl is of
  the last failure.
- **CatalogProofs**, part two (Catalog, whose names are its own): `CatalogTypeOK`,
  `PageIsTheShelf`. `CatalogInv` has three parts. Each memo was
  made from the list it hangs on: its selections are what that list holds of them and
  none is empty, its views a selection in the order of the memo's own period
  (`MemosInv`). What a request has read are lists of the categories it wants, what it
  has selected is the stock of those lists, and what it has answered is cut from the
  shelf they make (`RequestsInv`). And this lasts because a list is never changed in
  place (`ListsInv`, `RequestLasts`). The subtle step is a view that is kept under a
  category's own list: its key names the selection, and of a category's own list the
  selection of that category is all of it (`SourceHoldsItems`).
  `InOrderSorts` shows that counting places in a total order sorts. On top of it
  `OrderIsOfTheItems` and `SourcesAgree` prove the claim of the comparator's comment,
  "making each sort a total order, so a page does not depend on which source served
  the list": of two requests for the same order, period, search and skip, whose
  sources hold the same items, each once, the pages are equal, whichever list served
  them and however it was ordered. Each-once is proved of several lists that were
  merged (`EachIdIsLeftOnce`) and is asked of a single list, because it is needed: a
  panel that lists an id twice makes two items that the comparator does not tell
  apart. Ids are numbers here, as the comparator reads them; ids that `parseInt` reads
  alike would tie likewise.
- **RelayProofs**: `TypeOK`, `NothingLeftOpen`, `NoPlaylistVerbatim`,
  `WholeDeadline`, `AnsweredOnce`, `ClaimsAreOfTheBody`. Of the walk: its flag is
  TRUE exactly after a STREAM-INF with no URI line since, each line is signed up to
  where the walk is as `Reading` says, no origin was signed that was not admitted and
  seen, and no more were seen than the bound; when the walk is over this is `Hides`,
  so for a playlist of any length and any grammar of it. Of the handler: each await
  has its own timer, which has run as long as the await; nothing is piped that is
  to be rewritten; an aborted or returned handler has left no body open.
- **StreamListCacheProofs**: `TypeOK`, `AnswersAreRecent`, `FlightsAreShared`,
  `RefreshesAreApart`. An entry was stored since the last refresh began, or remembers it. A
  promise under way is the one flight or the one refresh, whoever waits is on the
  flight, and the ttl of a list that was kept past its own ends within
  FAILURE_TTL of the last failure.
- **SequenceLemmas** has what they share: the least element of a set of natural
  numbers, that counting what is up to each place in a total order numbers the places
  from one on (`CountsAreThePlaces`), and what the operators of `InsertionOrder` (entries leave from the front,
  the newest stay, some places are kept) leave of a sequence, its order and its
  members.

That a walk over a text, or a sequence of any length, is right needs no induction
over data here: the walk's invariant speaks of the line it is at, and a step of the
specification is the step of the induction. Where a fact about all natural numbers is
needed (the places that are kept) it is taken from the least counterexample.

Model-checked only:

- Liveness and whatever rests on fairness (`ShutdownEnds`, `LoopsEnd`,
  `EveryFlightEnds`, `EveryCallerAnswered`, `HandlerSettles`, `EveryTaskEnds`,
  `EveryFormAnswered`), and of `KeepsPromise` its fairness: the theorem
  `KeepsPromiseSafely` is about initial states and steps, as `LoopsRunOut` is of
  `LoopsEnd`.
- That lists of items put together (`FlattenSeq`, recursive) are a list of items:
  `SourcesAgree` has it as a condition on what was merged from several lists; the
  other theorems about the catalog leave `FlattenSeq` unexpanded.
- The three statements that the code does not keep, of course.

## Plan

Every invariant and every action property of a passing run is also proved. What is
left is StreamListCache as a refinement of an abstract cache. CacheAside will not
do: it learns only while nothing is remembered, and a refresh replaces a list that
still lives. An abstract cache that may learn at any time would have to leave out
what makes CacheAside worth stating, that the panel is not asked while something is
remembered; `AnswersAreRecent` and `FlightsAreShared` say directly what remains.

## Not modelled

- Config tokens: encryption under keys that are derived once, at boot; a model of
  `decodeConfig` would say only that the cipher works. That a token outlives one
  rotation of the secret and not two is how CONFIG_SECRET_PREVIOUS is meant, and
  the counts of refused tokens feed a log line. The signatures of playlist links
  likewise.
- Rendering and parsing without state (manifest, pages, extras, helpers, html), and
  the meta and stream routes, which map what the caches answer; tables (the private
  address ranges).
- `/health`, which reads the shutdown flag; the connection pool of undici: a
  request on a pooled connection makes no look-up, so its address was vetted when
  the connection was made and not within a pin's lifetime.
- The order "popular" of the catalog, which has the form of "new" over another
  field; search on a shelf that is not the search shelf; the pieces of a body that
  the caps count, of which only "over the cap" remains.
