# volter-tunnel: a verification development

TLA+ models of the volter-tunnel relay and of its client, the TLC configurations
that check them on small instances, and TLAPS proofs about the credit ledger, the
ownership of tunnel ids, the directory, the relay and the client. File names below
are relative to the repository (`src/` here); `tunnel-do.ts` and the other
Durable Objects are under `server-cf/src/`.

## 1. The system

A connector (`client/`) keeps one WebSocket, the *control connection*, to a
relay built of Cloudflare Durable Objects. Visitors reach
`https://<tunnelId>.<domain>`; the relay forwards each request over the control
connection and the connector replays it on a local port.

| Component | State it keeps | Operations | Talks to |
|---|---|---|---|
| `TunnelDO` (`tunnel-do.ts`), one per tunnel id | attachments of its sockets (survive hibernation), `metering`, `accountChain`, `pendingHttp`, `streaming`, `pendingUpgrades`, `reconnectWaiters`; in storage `reservation`, `controlLoss` | HTTP and WebSocket requests, frames and closes of control and browser sockets, register, `/do/revoke` | its account (`/authorize`, `/lease`, `/close`, `/release-id`), the registry (`/resolve-device-credential`), the connector |
| `AccountDO` (`account-do.ts`), one per account | `config`, `apiHashes`, `usage` (used, leased, period keys), `open` (tunnel → lease, regId, seen), `reserved`; each with a copy in storage | the handlers of `fetch`, reload after eviction | the registry, once (`/reserve-internal`) |
| `RegistryDO` (`registry-do.ts`), one | directory of accounts, token records, reports, wait list | management API, `pushConfig` to accounts | accounts (`/configure`, `/usage`), tunnels (`/do/revoke`) |
| connector (`client/tunnel-client.ts`, `client/transport.ts`) | `activeRequests`, `localWsConnections`, `closed`, `everRegistered`, `reconnectDelay`, the timers of each socket, `localHost` | requests, aborts, WebSockets, reconnection, `close()` of the caller's handle | the relay, the local server |
| worker, auth, protocol, pages, CLI, core DTOs, MCP tools | none | routing, parsing, formatting | |

### What is hard about it

* **Awaits.** A Durable Object runs other events while it awaits another object,
  a hash or a promise (not while it awaits its own storage). Every handler of
  `TunnelDO` that reads `this.ctl()` or a `MeteringState` and then awaits may find
  its connection lost or replaced afterwards. Calls to the account are queued on
  `accountChain`; traffic, closes and `/do/revoke` are not.
* **Replacement.** A second connector with `replace: true` takes over while the
  first has requests, batches, leases and a close under way. The account tells them
  apart by `regId`; the tunnel hands budget and unreported use to the successor.
* **Failure of calls.** `boundedRpc` gives a call up after a while and treats it
  as refused; the account may serve it later all the same.
* **Eviction and hibernation.** `AccountDO` reloads what was put; `TunnelDO` keeps
  attachments and loses every counter.
* **Copies.** Limits, status and tokens live in the registry, and accounts enforce
  the copy that arrived last. Pushes carry no number and may overtake each other.
* **Timers** (30 s for an answer, 120 s for a stream, 3 s for a waiting read, 15 s
  for an upgrade at either end, 10 s for an attempt to connect) race the frames
  they wait for.
* **Two ends of a socket.** A browser's WebSocket and the local one it stands for
  are closed by five parties (browser, relay, connector, local server, network), and
  each close has to reach the other end once.
* **Several ends of one attempt.** The client hears of the end of a control socket by
  its error, its close and its timeout, in any order and not always by all of them.

What makes each part correct: the *account* never grants beyond its limits, keeps
`leased` equal to the leases it has open, and loses neither across an eviction;
the *metering* of a tunnel spends only what is leased and bills every operation
exactly once; the *reservation* gives an id to one account, counts it there, and
lets no older device displace a newer; the *registry's* accounts hold what it
decided, and their limits fit the global ceiling; the *relay* answers every request,
never sends one twice or to a dead connection, and closes both ends of a WebSocket;
the *client* keeps exactly one connection loop until it is told to stop.

## 2. Modules

| Module | Models | Used by |
|---|---|---|
| `LeaseTotals` | the sum of the leases of an account, as a recursive function | `LedgerOps` |
| `LedgerOps` | what each handler of `AccountDO` does to the ledger record | `AccountLedger`, `TunnelMetering` |
| `AccountLedger` | one account: handlers, time, eviction, crashes between puts | `MCAccountLedger`, proofs |
| `CreditAccount` | abstract: credits free, held or used; a resident `AccountLedger` implements it | `AccountLedger` |
| `TunnelMetering` | one tunnel and its account: `accountChain`, leases, batches, handoff | `MCTunnelMetering`, proofs |
| `Reservation` | one tunnel id claimed by two accounts: register, fencing, revocation | `MCReservation`, proofs |
| `Registry` | directory, tokens, pushes, bootstrap of the internal account | `MCRegistry`, proofs |
| `ControlConnections` | the control connections of one tunnel and the frames on them | `HttpRelay`, `WsRelay` |
| `HttpRelay` | HTTP requests: relay, connector, local server | `Relay` |
| `WsRelay` | browser WebSockets: upgrade, frames, closes, local sockets | `Relay` |
| `Relay` | the composition: one tunnel at work, `Next` and the properties | `MCRelay`, proofs |
| `Exchange` | abstract: what a visitor may rely on; `Relay` implements it | `Relay` |
| `ClientReconnect` | `createTunnel`: the connection loop of the client library | `MCClientReconnect`, proofs |
| `LedgerOpsProofs`, `AccountLedgerProofs`, `TunnelMeteringProofs`, `TunnelBillingProofs`, `ReservationProofs`, `RegistryProofs`, `RelayProofs`, `ClientReconnectProofs` | theorems | |

The modules meet where the code's parts meet. `TunnelMetering` runs the handlers of
`LedgerOps` that `AccountLedger` checks on their own. `Relay` puts the requests and the
sockets on the same connections, queues and events. `Reservation`, `TunnelMetering` and
`ControlConnections` are three views of one register: who may have the id, what is paid
for it, and what becomes of the traffic; in `ControlConnections` its authorization is
abstract, and its later steps (published, settling, claimed, done) are kept because
each is an await at which the new connection may be lost.

Definitions keep the names of the source (`disconnectTraffic`, `ensureBootstrap`,
`spendBudget`, ...). Operators whose comment begins with "Mutant:" are
deliberately wrong variants of the definition below them; no action uses them.
They record what each property is able to detect.

**Account** (`LedgerOps`, `AccountLedger`). A ledger is a record of the fields of
`AccountDO`; `Fresh` is `rollPeriods` and `reap`, `Admitted`, `Leased`, `Closed` are
what `/authorize`, `/lease` and `/close` leave. The state is `mem`, the fields, and
`disk`, the storage; each action puts exactly what its handler puts
(`PutOpen`, `PutUsage`, ...). A handler runs alone, because it awaits nothing but
its own storage; `ensureBootstrap`, which awaits the registry, is a step of
its own. `Evict` reloads `mem` from `disk`; `TornAuthorize`, `TornLease` and
`TornClose` crash between two puts. `gone` says which tunnels died without a close.
`raw`, `RateSnapshot` and Analytics points are left out. Credits
cost 1 each: weights only scale. `CreditAccount` has what each tunnel holds and what was used
in the day and the month, and no counter of what is leased, no clock of entries and no
registrations; the mapping reads the leases of the entries, so that every clamp and every
increment of `leased` has to agree with their sum.

**Metering** (`TunnelMetering`). `queue` is `accountChain`, `rpc` the call its head
awaits, `meter[s]` the `MeteringState` of each registration. Traffic arrives
between any two steps of the chain. A call is served by the operators of `LedgerOps`
(`Serve`), given up (`Timeout`) and then served late (`ServeLate`) or never.
A socket registers once, so it stands for its `regId`.

**Reservation** (`Reservation`). `reg` holds the locals of the register that runs:
the record and the connections it read *before* its awaits, as the code does;
`rev` a revocation, which is not on the chain. `Unreliable` names the calls
that may be given up.

**Registry** (`Registry`). A request changes directory or tokens, awaits the hash
of a new token (`mint`) and then pushes what the registry holds *at that moment*.
`wire[s]` is the set of pushes on their way to an account; `configure` is the account's
handler and takes any of them. `pushConfig` makes a fresh stub call each time
(`registry-do.ts:200-204`) and neither side numbers pushes, so nothing orders them. Three
history variables do, for the properties only: how many pushes were made (`sent`), which
one is in force at the account (`held`), and the newest that has arrived (`seen`). A token
is minted by one request, as tokens are random.

**Connections** (`ControlConnections`). `conn[g]` is the attachment of the g-th control
socket, `up` the sockets whose `readyState` is OPEN, `connected` those whose connector has
not seen their end. `PublishLink`, `Claim` and `Wake` are the register from its
publication to its return; `Claim` keeps the retirement without `disconnectTraffic` that
the code has (see 6) as the state "lost". `toClient` and `toRelay` are the frames of each
connection, in order; a connection that drops loses them. `ctl` is `this.ctl()`.

**HTTP relay** (`HttpRelay`). `visitor[v].at` is the await a request is at;
`visitor[v].ctl` the connection it looked up before. `pendingHttp` and `streaming`
are the maps of the code and stand for their timers as well. `local` is the request at
its connector, `activeRequests` the map that an abort is looked up in. Time is abstract:
a timer may fire whenever it is set. Left out: preflight, the burst limit, the
inspector and the replay rings, header rewriting. Hibernation cannot happen while
a request is open. `READ_RECONNECT_CAP` is abstracted: a read may always find the
cap reached.

**Browser sockets** (`WsRelay`). `browser[b]` is the upgrade and then the accepted socket
with its attachment (`ctl`); `shut` says that the relay called `close` on it. A browser's
frames are one `frame[b]`, paid from the budget that is there or charged behind a wait for
the account. `pendingUpgrades` and `dialTimer` stand for the two 15 s timers,
`localWs[b].at` for the `readyState` of the local socket with what `safeClose` asked of it
("doomed": to be closed when it opens), `localWsConnections` for the map. Frames of
the local server to the browser change no state and are left out.

**Relay** (`Relay`). `ControlMessage` and `ClientMessage` dispatch each frame by its type,
as the two message handlers do; `disconnectTraffic` acts on requests and sockets at
once. `Exchange` has two variables per call, a phase and how often the local server took
it; `PhaseOf` is the refinement mapping.

**Client** (`ClientReconnect`). `at[s]` is where a control socket stands; `timeout`,
`stable`, `keepalive` are its three timers; `timers` counts pending reconnects, so that
two loops would show. `Ended` is `ended()`, which `Timeout`, `SocketError` and
`SocketClose` call in any order. `StartThrows` and `ReconnectThrows` are a `connect()`
that throws. Three socket names are enough to have a going one, one whose close is still
to come and the one of the handle; a name is used again when nothing refers to it.
`ReconnectThrows` retries with the doubled delay, and delays are counted in units of
the first.

## 3. Runs

| Run | Question | Bounds |
|---|---|---|
| `ledger_resident` | does the ledger balance, stay in its limits and implement `CreditAccount` while resident? | 2 tunnels, 2 regIds, limits raised and lowered, 2 days per month, two day changes, an entry stored in the old shape |
| `ledger_evict` | is a lease or a use lost by an eviction or a crash; is a dead slot reclaimed? | 2 tunnels that share 1 slot, ttl 0, two day changes, leases to 2 |
| `ledger_evict_leased` | the comment on `leased`, with evictions | violated, see 6 |
| `metering_reliable` | is everything billed exactly once, is the limit hard and every lease returned, when calls succeed? | 2 registrations, 4 operations, queue of 3, limits 1, 2 and 8 |
| `metering_reaped` | is anything billed twice or spent without a lease, when calls fail, the object hibernates and entries are reaped? | 2 registrations, 3 operations, limits 1 and 2, ttl 0, two reaps |
| `metering_overshoot` | the documented bound of the overshoot | violated, see 6 |
| `reservation` | one owner, counted, whose idle clock only advances and whose older device never displaces a newer; every call may be given up or served late | 2 accounts, 4 devices (one with the shared secret), 2 connections, 1 revocation, 2 changes of tokens, ttl 0 and clock to 1, one register behind another |
| `reservation_release` | the comment on `DELETE /me/reservations` | violated, see 6 |
| `registry_push` | do accounts follow the registry? | 3 accounts, 2 tokens of one account, 3 overlapping requests, pushes lost and delivered in any order |
| `relay` | is every call answered, once, by whom it should be, and do both ends of a socket close? does `Relay` implement `Exchange`? | 1 request or 1 browser socket, 2 connections, 1 chunk |
| `client` | is there one connection loop, never abandoned, whose delay only a stable link resets? | 3 sockets, delays 1, 2, 4, 6 |
| `client_handle` | the documented effect of the handle's `close()` | violated, see 6 |

Why the bounds are enough to meet the hazards: replacing needs two registrations,
a stale close needs the first to close after the second was published; two tunnels are
the least that share an account; two limits are the least that can be lowered; three
requests give a push that is overtaken twice. In `relay`, requests and sockets share
nothing but the connections, so one caller stands for many. With two connections its own
may be lost, or replaced by the other, at every await; a read may wait for the second
after the first was lost. After its wake-up a request is where one that has just arrived
is, so a third connection adds a history and no new case: the safety properties were also
checked with three (7.2 million states), and the theorems hold for any number.
Every action and every disjunct of the next-state relations fires in some passing
run. `CHECK_DEADLOCK FALSE` is set where the model stops for good: every connection
used up, every request made, a closed client whose sockets are gone.

### Properties worth a word

* `LeasedIsSum`, `WithinLimits`, `NoOvergrant`: four counters that each handler
  moves by separate increments and clamps separately agree, and no grant passes
  a limit, also when leases cross midnight or limits are lowered below them.
* `NeverOverbilled`, `ExactAtRest`, `Backed`: three counters on the tunnel's side
  (budget, consumed, messages), the report under way and the account's entry
  describe the same credits. Each credit is in one place only, through handoff,
  time-outs, late service and settlement. `Backed` excepts `void`, what a tunnel still
  counted of a refunded lease when its entry was opened anew (see 6); the limits of its run
  are as low as the traffic, because ample grants would hide a claim without a lease.
* `OwnerHoldsEntry`: the two objects agree on who owns the tunnel.
* `FencedToNewest`, `ServedByOwner`, `ClockMonotone`, `RecordHasSlot`: registers that read
  before several awaits and decide afterwards, and a revocation that runs beside them.
  `FencedToNewest` excepts a newer device whose look-up got no answer, and
  `RecordHasSlot` the accounts that a `/release-id` reached after it was given up
  (`misfreed`); section 6 says why.
* `Converged`, `RevokedOut`: an account is behind only while its *newest* push is lost, or
  an older one came in after it. A push of any request composed before a revocation, say
  of `patchLimits`, and delivered after it brings the token back while every request was
  answered "ok": `RevokedOut` excepts exactly this (`Overtaken`), and a token of which a
  request is under way or failed, and says that there is no further way.
* `SentOnServing`, `NoReadLeftWaiting`, `TakenOnce`, `EveryoneServed`: a request that
  was looked up, charged and captured on one connection is not sent on a dead one;
  no wake-up is missed. `Abortable` and `Reachable` relate the connector's maps to what
  its local server works on: an abort or a close finds it.
* `BoundToRegistration`, `BothEndsClose`: a frame or a close of a browser never reaches the
  connector of a later registration, where its id may stand for something else; neither
  end of a socket stays open behind the other, whoever closed it.
* `Exchanged`: the refinement. Nothing a visitor sees tells losses, replacements and
  retries from an exchange that happened once.
* `OneLoop`, `NeverGivesUp`, `TimersOwned`, `BackoffEarned`: three events and three timers
  per socket race, each may come late or never, and yet there is one loop.

## 4. Fairness

* `AccountLedger!FairSpec` (for `VanishedReclaimed`): time passes, and some connector
  that is alive keeps asking `/authorize`. `scheduleReconnect`
  (`client/tunnel-client.ts:65-91`) retries without end, with a delay of at most 30 s, for a
  connector that has registered once (`395-403`) and was sent no fatal error (`174`; a
  refusal at the concurrency cap is none). A connector refused at its first attempt does
  not retry, and nothing else reaps: with only such callers, a dead slot does stay taken.
* `TunnelMetering!FairSpec` (for `Released`): the event loop runs the head of
  `accountChain`, the runtime delivers the close of a lost connection, and the account
  serves the call that is awaited. Checked without time-outs: a lost `/close` is
  only made good by the reap of the account.
* `Relay!FairSpec` (for `EveryoneServed` and `BothEndsClose`): the event loops of relay
  and connector run: awaits return, timers fire, frames of a connection that is up are
  delivered, ends are noticed. A browser answers a close, as the WebSocket protocol
  requires, and a local socket that is closing closes: `safeClose` terminates it after
  5 s and the ws library after 30 s. Nothing is asked of the network otherwise, nor of the
  local server, nor of the visitor. All of it is weak fairness.

`BothEndsClose` is stated for every browser but those on a connection that was lost
while its register settled (see 6).

## 5. What is proved

Each theorem is about the `Spec` of its module, for every value of the constants that
satisfies the named assumptions of the modules, which TLC evaluates in the runs. The bounds
of the runs are constants too, and are arbitrary in the proofs.

**`AccountLedgerProofs`**, for every number of tunnels, every set of configurations and
registrations, every period length:

* `TypeCorrect`: no handler, eviction or torn write makes a counter or a lease
  negative, whatever callers report.
* `ResidentBalance`: without evictions and crashes (`MayEvict`, `MayTear` false),
  `leased` is the sum of the leases (`LeasedIsSum`) and both debits stay within the
  largest limit pushed (`WithinLimits`). The hypothesis is needed: `ledger_evict_leased`
  shows the property failing without it.
* `GrantsWithinLimits`: under the same hypothesis, no step that raises the debit
  leaves it past the limits in force at that step (`NoOvergrant`).
* `ResidentImplements`: under the same hypothesis, `Spec => CreditsKept`. Every step of the
  ledger is a change of limits, a grant, a final use, a return, or a stutter of
  `CreditAccount`: credits are granted within the limits in force, used only out of what
  a tunnel holds, at most once, and what was used in a day or a month counts until it is
  over. `FreshUses`, `CommitUses`, `LeasedUses` and `ClosedUses` say what each operator
  uses and leaves; the invariant is `Balanced`, for the sum behind a grant, with `Kept`,
  for windows that never go back.
* `Durability`: with evictions and torn writes, every entry in memory is in storage
  as it is, and so is the use of the current window (`EntriesDurable`, `UsageDurable`).

`LedgerOpsProofs` proves of each operator (`Roll`, `Reap`, `Commit`,
`Leased`, `Closed`) that it keeps the types, keeps the ledger balanced, and what it
does to the debit; each rests on facts about sums in the same module (`TotalUpdate`: changing one lease changes the sum by the difference; `TotalAtLeast`:
no lease exceeds the sum). The operators clamp at zero, so the balance is only
inductive *with* the types and the sum: a clamp does not bite because the lease it
subtracts is below the sum. `Balanced == LeasedIsSum /\ WithinLimits` with `TypeOK` is
the inductive invariant of the resident account. For `Durability` it is `Kept`, which
adds that the windows in storage are never ahead of those in memory, nor those ahead
of the clock: without it a reload could bring back a window that memory had left and
enter it again. The sum is a recursive function over `0..n`, and one lemma of
`LedgerOpsProofs` (`IntervalInduction`) replaces the induction theorems of the library,
which take an operator as parameter.

**`TunnelMeteringProofs`**, for every number of registrations, every set of configurations
and every bound, whichever calls are lost, served late or never read, with reaps and
hibernation: `TypeCorrect`, `LeaseBacked` (`Backed`), `BilledOnce`
(`NeverOverbilled`). Neither of the last two is inductive, because both speak of counters
while reports about them are under way. The inductive invariant `Inv` adds where each credit
may be. One registration serves (`OneServes`) and only the current `MeteringState` has something
to report (`OneReports`); what is queued, and the call the head awaits, belongs to the
registration of the head (`Queued`, `Calling`); a call that was given up and is still to be
served asks for a registration that was never published, or reports for one that was
(`Lapsing`); and what a successor is about to carry over
is part of the lease it was told of (`HandedOver`). `HeadDoes` describes in one formula what
any step of the head of `accountChain` does to counters, calls and sockets, and `ServeDoes`
what any handler of the account does to the entry; each action is shown to be an instance
of one of them, and the parts of `Inv` are preserved by those two. As in the runs, at most one
call that was given up waits to be served late.

**`TunnelBillingProofs`**, for every number of registrations and every set of
configurations, says what holds while the account answers (`~MayTimeout`) and no entry is
reaped (`NothingExpires`, as long as the clock allows):

* `OwnerHolds` (`OwnerHoldsEntry`), with hibernation.
* `HardCapHolds` (`HardCap`), if moreover one day and one month last (`SameWindow`) and the
  tunnel does not hibernate.
* `ExactAtRestHolds` (`ExactAtRest`), if moreover `leaseChunk > 0` and the monthly limit is
  no smaller than the daily one (`Ample`): otherwise an account may refuse a lease whose day
  is not used up, and what was relayed on credit is never billed.

The hypotheses are those of the code's own claim that "exactly `dayLimit` requests succeed",
and none can go: an `/authorize` that is served late takes the entry from the live
registration (see 6), a reaped entry refunds a lease that is still being spent (`void`),
hibernation forgets what was consumed (`metering_overshoot`), and a new day brings a new
limit while `spent` and `incurred` count on. Behaviours satisfy them: `metering_reliable` runs
under the same ones. The configuration of the account is fixed in `TunnelMetering`.

The invariant has two parts above `Inv`. `Held` says who has the entry: a registration that
serves, or whose settlement is queued, has it, or a successor that the account has admitted
and that is about to be published has; conversely an entry is never without one of those or
a final close under way; and a registration that was lost has its settlement in the queue.
`Billed` turns the inequalities of `Inv` into equations: the lease of the entry *is* what the
registration holds of it (`LeaseClaimed`), it is all that is leased, and fits the day beside
what was billed (`LeaseWithin`); what was spent is billed or will come out of the lease
(`SpentCovered`). Under `Ample`, what was incurred is billed, being reported, or unpaid
(`Counted`), unless it is over the limit; only a day used up refuses a lease
(`RefusedFull`); and the final close reports no more than the lease. `HeadExactly` and
`ServeExactly` describe the steps of the head of the chain and of the account by such
equations, where `HeadDoes` and `ServeDoes` bound them.

**`ReservationProofs`**, for every set of accounts, devices, connections and revocations,
and whichever calls may be given up (`Unreliable`): `TypeCorrect`, `OneOwnerServes`
(`ServedByOwner`), `HeldIsCounted` (`RecordHasSlot`), `ClockNeverSetBack`
(`ClockMonotone`), `NewestIsFenced` (`FencedToNewest`). The invariant has three ideas.
Nobody else registers while a register decides, because registers are tasks of one queue:
so the connections it found before its awaits still include all that are registered
(`OthersKnown`), and superseding those is enough to leave one (`OneRegistered`, `Owned`).
What the fence read about a token may be outdated, but a token that is not live was seen so
(`FenceKept`). And a slot that a revocation has given up is missing only until it clears
the record with every connection (`Clearing` in `Counted`), which it does whoever owns
the record by then: the same step that breaks `ReleaseOwnOnly` is what keeps
`RecordHasSlot`.

**`RegistryProofs`**, for every number of accounts, tokens and requests, whichever pushes
are lost and in whatever order they arrive: `TypeCorrect`, `Converges` (`Converged`),
`RevocationReaches` (`RevokedOut`) and `CeilingHolds` (`CeilingApart`). `Current` says that
the *newest* push, on its way or in force, carries what the registry holds, once no request
about the account has still to push: each push reads everything at the moment it is made, so
older ones do not matter. `Stale` says that whatever still carries a revoked token, on the
wire or at the account, is older than a push on its way of a request about that token, or
than one that has arrived; when all those requests were answered none is on the wire, so a
push in force that carries the token was delivered after a newer one. `Numbered` relates
the three history variables. `CeilingApart` is about a sum over the directory,
which the model writes as a fold over a set: the proof unfolds the fold once
(`AllocatedIsSum`); that taking an account out takes its limit off the sum (`SumWithout`),
and that no part exceeds the whole (`SumPart`), is carried to all finite sets by
`SubsetInduction`, an induction over a set of subsets where the library's theorems take a
formula. It needs a
finite number of accounts (`RegistryAssumption`) and no bound.

**`RelayProofs`**, for every number of connections, requests, browser sockets and chunks,
with and without the capture: `TypeCorrect`; `BoundToConnection` (`SentOnServing`,
`BoundToRegistration`, `NoReadLeftWaiting`); `ConnectorCorrect` (`TakenOnce`, `Abortable`,
`Reachable`); and `NobodyForgotten` (`Held`), which needs `~Malformed`, for a chunk that is
not base64 does break it (see 6). The invariant has a part per group of variables
(`LinksHeld`, `RequestsHeld`, `BrowsersHeld`, `LocalsHeld`, `SocketsHeld`, `FramesUp`,
`FramesDown`, `NoReadLeftWaiting`), and the proof has one lemma per part and group of
actions, with lemmas that say what each group leaves alone. Its points: an entry of the
relay exists exactly while its caller waits, and the connection behind it is registered,
or was lost while settling, because `disconnectTraffic` runs in the step that retires any
other; a frame that opens something (`request`, `ws-upgrade`) is in one queue, in one
place, and precedes whatever its connector knows about the caller, so that a dial happens
once; and the retry after a refused connection cannot follow a request that was taken.

`RelayImplementsExchange`, `Spec => E!Spec`, rests on the same invariant. Every step of the
relay begins one call, takes one, ends a set of them (a replacement ends all that hung on a
connection), or stutters under the mapping `PhaseOf`.

**`ClientReconnectProofs`**, for every set of sockets and every cap: `OneLoopForever`
(`TypeOK`, `OneLoop`, `NeverGivesUp`, `TimersOwned`) and `BackoffIsEarned`
(`BackoffEarned`). The invariant adds that nothing precedes the first attempt, and that the
socket of the handle has registered and is not taken for a new one.

**Only model-checked.** All liveness (`VanishedReclaimed`, `Released`, `EveryoneServed`,
`BothEndsClose`): fairness and ENABLED are beyond the provers.

## 6. Where code and documents disagree

Found by a run of this project:

* `ledger_evict_leased` — `AccountDO.authorize` reaps stale entries and puts `open`
  without `usage` (`account-do.ts:305`). Evicted then, the account reloads the old
  `leased` and never refunds the lease: headroom is lost for good.
* `metering_overshoot` — hibernation of a tunnel forgets what was consumed since the
  last lease (`tunnel-do.ts:315`), and the next `/close` refunds it. The bound
  `leaseChunk × concurrentMax` of `docs/self-hosting/metering.md` does not hold.
* `reservation_release` — `revokeReservation` awaits `/release-id` between its check
  of the owner and its delete (`tunnel-do.ts:554-556`), against the comment at
  `registry-do.ts:354-357`.
* `client_handle` — each registration makes a handle that closes its own socket
  (`tunnel-client.ts:225`), and the caller keeps the first. After a reconnect its `close()`
  stops further attempts and leaves the connection that serves up; an attempt under way
  still registers. `docs/guide/library.md:22-23` says that `close()` tears the tunnel down.

### Known divergences

Seen with other constants or formulas in the same modules, and not kept as runs:

* A refused `/lease` reaps and puts only `usage` (`account-do.ts:336`): after an
  eviction the entry is back with its lease already refunded, and `WithinLimits` fails.
* Frames of the connector are relayed before they are paid for, and go on while a
  flush is under way (`tunnel-do.ts:1001`): no bound of one batch on unpaid frames.
* A look-up of the newer device that times out reads as "not found"
  (`tunnel-do.ts:1216`): an older device then takes over, against
  `docs/self-hosting/metering.md:139-140`. `FencedToNewest` excepts those devices
  (`lapsed`).
* A `/release-id` that was given up and is served after the account claimed the id again
  takes the slot of a live record (`tunnel-do.ts:1360`): `RecordHasSlot` excepts the accounts
  it reached (`misfreed`).
* An `/authorize` that was given up and is served later takes the account's entry from the
  live registration (`tunnel-do.ts:1263`), which is refused until the entry is reaped.
* When `/lease` finds its entry reaped, `spendBudget` clears the budget and keeps `consumed`
  (`tunnel-do.ts:416-424`): a frame charged during the call counts against the refunded
  lease, is reported against the next one, and budget of that one is left without a lease. A
  reauthorization served late opens an entry for budget of an older lease as well. `Backed`
  excepts both (`void`).
* `lastSeenAt` moves at registration and at disconnect only (`tunnel-do.ts:1178`): a
  connection that lives longer than the ttl can lose its id to another account while it
  serves.
* The account counts a reserved id before the tunnel writes its record
  (`tunnel-do.ts:1342` returns between the two): a slot without a record remains.
* The internal account is entered in the directory without a check of the ceiling
  (`registry-do.ts:756`), against the invariant stated at `registry-do.ts:6-7`;
  `CeilingApart` states what does hold. If the one call that enters it is lost, no
  later touch repeats it (`account-do.ts:221-236`).
* Pushes to one account are separate, unnumbered calls (`registry-do.ts:200-204`). One made
  before a token was revoked or a limit lowered, and delivered after, brings both back until
  the next push to the account, though every request was answered "ok". A limit that was
  lowered frees its share in the directory at once (`registry-do.ts:936`), so the limits
  enforced then add up to more than the ceiling: createAccount(A, 2), patchLimits(A, 1),
  createAccount(B, 2) under a ceiling of 3, the first push last. `registry-do.ts:7-11` calls
  the total "provably ≤ global". `Converged` and `RevokedOut` state what does hold.
* A revocation changes the token first and pushes afterwards. When the push fails, so does
  the request; its retry finds the token revoked, pushes nothing and answers ok
  (`registry-do.ts:880,905`), and the account goes on authorizing the token until some other
  request pushes, against `docs/self-hosting/metering.md:136`. `RevokedOut` excepts tokens
  with a failed request.
* A crash between two puts of `/lease` or `/close` (`account-do.ts:348`) leaves entries and
  `leased` apart, as the reap in `/authorize` does. `EntriesDurable` and `UsageDurable` say
  only that what was *answered* survives such crashes.
* A chunk that is not base64 clears timer and entry of its stream and leaves the
  stream open (`tunnel-do.ts:1473`): the visitor waits for ever, against the comment at
  `tunnel-do.ts:1100`. With `Malformed = TRUE`, `Held` and `EveryoneServed` fail;
  `relay` assumes connectors that encode their chunks, as `client/transport.ts`
  does.
* A 504 after 30 s does not tell the connector, which goes on; and a local server
  that dies inside an answer is noticed only by the 120 s timer
  (`client/transport.ts:449`).
* A frame of a browser that finds budget is relayed at once, and so is its close, while an
  earlier frame of the same browser still waits for the account (`tunnel-do.ts:452`): frames
  can be reordered, and one that follows its close is dropped by the connector.
* A connection lost while its register settles the predecessor is retired without
  `disconnectTraffic` (`tunnel-do.ts:1341-1345`): browser sockets opened in between stay open,
  against DECISIONS D8. They are the exception ("lost") in `SentOnServing` and
  `BothEndsClose`.
* An upgrade that times out, or whose subprotocol was not offered, fails at the relay and the
  connector is not told (`tunnel-do.ts:902-929`): its local socket stays open until the
  connection ends.
* `createTunnel` neither resolves nor rejects when the first socket closes before it
  registered and without an error (`tunnel-client.ts:395-403`).
* A request refused after its inspector entry was pushed (`tunnel-do.ts:835`) leaves
  that entry unfinished.

## 7. Not modelled

Sign-up keeps no state of its own: its nonces are HMACs, and what it provisions is the
creation of an account in `Registry`; reports and the wait list are bounded lists
nothing else reads. The inspector and replay rings are bounded buffers of metadata
that nothing else depends on. `worker.ts`, `auth.ts`, the protocol codec, pages, CLI,
DTOs and MCP tools keep no state. `burstStep` and the raw counters of the dashboard
throttle or display and bill nothing. Browser sockets that survive a hibernation keep
their attachment, which is all the model has of them; the wake-up itself is modelled for
the metering only. Examples, tests, build scripts and sites are read as documentation
only.

## 8. Plan

Done, in this order, because money and ownership are the core: `LedgerOps` and
`AccountLedger`, `TunnelMetering`, `Reservation`, `Registry`, then the traffic (`Relay` and
its parts) and the client; the proofs in the order of section 5. What remains worth doing:

1. `TunnelBillingProofs` across a change of day, with what each day used kept apart.
