# LAN Share: TLA+ models, model checking and proofs

LAN Share serves chosen folders of a desktop machine over HTTP to browsers on
the local network, and lets two machines that both run it pair and browse each
other. The backend is a Tauri application in Rust (`src-tauri/src`), the desktop
page is `ui/app.js`, the page served to visitors is `src-tauri/web`. Paths below
are relative to those directories.

## The system

| Component | State it keeps | Operations | Interacts with |
|---|---|---|---|
| Pairing, responder (`peers.rs`) | `pending_pairs`, `pair_attempts` | `pair_request`, `pair_reveal`, `pair_poll`, accept and decline, sweep | HTTP from the initiator, the desktop UI, the config store |
| Pairing, initiator (`peerclient.rs`, `tasks.rs`) | one background thread per pairing, its cancel flag | `begin_pairing`, `await_pairing`, `store_peer` | HTTP to the responder, the config store |
| Desktop UI (`ui/app.js`) | a copy of the config, the prompt on screen, polling timers | watch tick, dialogs, settings form, share table | Tauri commands |
| Config store (`config.rs`, `tasks.rs`) | the JSON file; live `settings`, `shares`, `peers` | `mutate_config`, `save_config`, `store_peer`, `apply_config_to_state`, `normalize` | every command; pruning of sessions |
| Sessions and PIN (`auth.rs`, `routes.rs`) | `sessions`, `pin_attempts` | mint, touch, revoke, sweep, check PIN | config store, server lifecycle |
| Share and play links (`models.rs`, `auth.rs`, `routes.rs`) | the registry's tokens, `play_tokens` | `/s/<token>`, mint and resolve play links | sessions, config store |
| Server lifecycle (`server.rs`) | `server`: the handle of the running server | start, stop with a drain and a timeout, restart | everything served |
| Discovery (`discovery.rs`) | `discovered`: a capped table of beacons heard | announce, receive, sweep, add by address | UDP, presence |
| Presence (`tasks.rs`, `auth.rs`) | `peer_seen` | `list_peers`, `list_discovered`, `note_peer_seen`, the stamp of an admitted peer | discovery, peers, UI |
| Downloads (`tasks.rs`, `peerclient.rs`) | `tasks` and `cancellations`; files on disk; the page's rows | start, cancel, poll, finish | HTTP to the peer, uploads (one folder) |
| Uploads (`routes.rs`, `utils.rs`) | files in the inbox | `upload`, `unique_destination` | share registry, activity log |
| Activity log (`activity.rs`, `ui/app.js`) | a bounded ring, an id counter; the page's rows | `log`, `finalize`, `read_since`, clear, poll | every request |
| Zip streaming, thumbnails, interfaces, assets, helpers | none, or a cache on disk | pure functions and I/O | |

What is hard in it: HTTP handlers run concurrently on a tokio runtime, each
background task has an OS thread, the Tauri commands run one at a time on the
main thread, and the page awaits them; all share one `AppState` of small mutexes
that are released between a check and the update it justifies. Between two
devices there are lost answers, late calls, timeouts and restarts. `PROJECT.json`
lists the hazards, each at its line, with the properties that watch it.

What makes each component correct:

* Pairing: nothing is stored on either side that the person at the responder did
  not accept; both sides store the same pair of tokens; a refused, expired or
  lost exchange stays dead; tasks, prompts and pending entries all end.
* Config store: a command's change reaches the file and the live state together
  and is not undone by a writer that read before it; the device id never changes.
* Sessions and links: a session or link that was revoked no longer opens
  anything; a cap never admits more; a lockout cannot be escaped.
* Lifecycle: at most one server owns the port and the sessions.
* Discovery and presence: a device that left is dropped, one that is present is
  kept, the table never exceeds its cap; no cycle of locks.
* Transfers: a file that was in the folder is left alone; what is reported as
  saved is whole, and all of what was asked for; what was given up is gone; a
  cancelled download ends.
* Activity log: nothing is said to be going on that has ended; how it ended is
  written once; the page ends up showing what the log holds.

## Plan

Modules, in the order they are written; all but 8 are done.

1. `PairingPromise`: what pairing promises per exchange, with no network in it.
2. `Pairing`: both sides of pairing with the network, the prompt on screen, the
   peer list on file and live, failed writes, restarts and time. `MCPairing`
   instantiates it in two topologies.
3. `PairingProofs`: types, the safety invariants and the refinement.
4. `ConfigStore` and `ConfigStoreProofs`: load, change, save and apply as separate
   steps, the main thread against pairing threads, the page's whole-config save
   and its stale copy, a write cut short. `ConfigPromise` and
   `ConfigPromiseProofs`: the register each command changes once, which the
   commands alone implement.
5. `Access` and `AccessProofs`: sessions, the PIN limiter, share links, play links
   and paired devices against configuration changes and against start, stop and
   restart of the server.
6. `Presence` and `PresenceProofs`: beacons, goodbyes, expiry and eviction, direct
   contact, and the locks that `list_peers` takes.
7. `Activity`, `Transfers` and `TransfersProofs`: names chosen and files created by
   concurrent uploads and downloads, the task table, and the activity log against
   the page that polls it. `Transfers` extends `Activity`: uploads are what it logs.
   `LogPromise` and `LogPromiseProofs`: the log as its reader may take it, and
   that the threads implement it.
8. Open: a composition of `ConfigStore` with the runs of the server (the device id
   a running server keeps), and liveness of `Presence` (a device that stays is
   listed again after it was evicted).

## Pairing

`Pairing.tla` follows one or more exchanges between devices. An exchange is one
run of `start_pair_task`; it stands for the `pair_id` the responder assigns and
for the token the initiator issues, and the n-th token the responder mints for
it is the number n. `From` and `To` name its two devices.

| Variable | In the code |
|---|---|
| `task`, `deadline` | the position of the thread of `start_pair_task`; the deadline of `await_pairing` |
| `call`, `reply` | the HTTP request and response in flight; the thread sends one at a time |
| `reading` | exchanges whose thread has the head of an answer and awaits its body (peerclient.rs:66-72) |
| `checked` | requests between the two locks of `pair_request` (peers.rs:347 and 385) |
| `pending` | `AppState::pending_pairs`; `ttl` is `expires_ms` minus now |
| `minted`, `handed` | tokens `accept_prompt` has created, and the one `pair_poll` has given out |
| `attempts` | `AppState::pair_attempts`, per responder and caller address |
| `refused` | requests that `pair_locked` let pass and that are found bad, whose failure `pair_note_failure` has not counted yet |
| `listing`, `shown` | the answer of `list_incoming_pair_requests` the page awaits; the dialog |
| `accepting` | between `accept_prompt` and `mutate_config` in `accept_pair_request` |
| `file`, `live` | `config.peers` on disk; the live `PeerRegistry` |

Each action is one handler, one command or one step between two network waits,
and the action's comment names it. What may fail, may: any call may be refused
or time out (`CallFails`) and still be handled later; any answer may be lost with
it; an answer whose head has come may break off (`ReplyFails`) or never be
complete; a reveal or a poll from an address other than the requester's is answered
with an error and changes nothing; a config write may fail and an app may be
restarted at any point (`Faults`). Codes and commitments are reduced to whether
the nonce matches. A nonce that does not match drops the exchange.

Tauri commands that are not `async` run on the main thread, one after another:
`MainIdle` keeps a second command from starting while `accept_pair_request` is
between its two halves. Load and save of `mutate_config` and of `store_peer` are
one step here; how they overlap is the business of `ConfigStore`.

### Runs

`pairing` (`MCPairing.cfg`): two exchanges from one device to another, with
failed writes and restarts. Two exchanges are enough for what one can do to
another: both reach `pair_request` at once, both prompts are live, one is declined
while the other is accepted, one replaces the peer the other stored. `PairTTL` is 2
ticks, so an entry can age without expiring and two entries can differ in age. The
exchanges differ in nothing, so the run uses their symmetry. Bad requests and
lockouts, which cannot make more happen here than a refusal, are in `pairing_live`.

* `PromptAfterReveal`: no prompt, and nothing to accept, before the nonce is
  revealed.
* `PeersAreAccepted`: a peer on file comes from an exchange whose prompt was
  accepted at the responder, under the one token of that acceptance.
* `MirroredTokens`: two devices that keep a peer of the same exchange agree.
* `PromiseKept`: the exchanges implement `PairingPromise`; `Phase` is the
  refinement mapping.

`pairing_live` (`MCPairingLive.cfg`): one exchange under `FairSpec`, with
failures, and with up to two requests of an address found bad at once
(`MaxRefused`), so that both pass the lockout check before either is counted. Two
attempts lock an address out, for one tick; `PairTTL` is 1.

* `TypeOK`: types, and a failure count that never reaches its limit, though the
  lockout is read under one lock and the failure counted under another.
* `TaskEnds`: a task ends, whether calls are answered or not, unless it is forever
  waiting for the rest of an answer. That exception is the code's: `post_json` times
  the head of a response (peerclient.rs:61), `collect` has no timeout (66-72), and
  while it waits nobody looks at the deadline or at the cancel flag.
* `PendingDrains`, `DialogCloses`.

Assumed fair: what the task's thread does by itself (`TaskStep`), which includes the
timeout of a call that has no answer; the pending write of an acceptance; the sweep;
the page's watch tick; and time. The thread and the loops are the program's own and
nothing else blocks them. Nobody owes a call, an answer, the rest of an answer or a
delivery. The sweep belongs to the server, so `PendingDrains` is about a device that
keeps serving.

`pairing_lag`, `pairing_cross` and `pairing_prompts` find three promises the code
does not keep; they run without failures and under a constraint that leaves out
behaviours with a failed task or a counted attempt.

* `LiveFollowsFile` (models.rs:268, config.rs:216) fails after a single pairing:
  `store_peer` saves the initiator's new peer and does not apply it, so the initiator
  refuses the peer it has on file until some other command, or a restart, applies the
  config.
* `BothCanBrowse` (README.md:45) fails when two devices ask each other at once
  and both people accept: each side's `retain` and `push` replace the peer of the
  other exchange, and the two can keep peers of different exchanges.
* `OneLivePrompt` (peers.rs:329) fails when two requests from one address are
  checked before either is stored.

### What is proved

`PairingProofs.tla` proves for every set of devices and exchanges, every
topology without self-pairing and all positive limits (`DeviceAssumption`,
`TimerAssumption`, `NoExchAssumption`):

* `TypeCorrect`, `NoEarlyPrompt`, `AcceptedPeers`, `TokensMirror`: `TypeOK`,
  `PromptAfterReveal`, `PeersAreAccepted` and `MirroredTokens`, with any number of
  refused requests still to be counted;
* `PairingImplementsPromise`: `Spec => PromiseKept`.

None of these is inductive. `Inv` adds three facts. `FreshInv`: until its request
is stored nothing is known of an exchange, so storing it cannot overwrite a
token. `TokenInv`: the responder mints exactly one token per exchange, an
accepted entry holds it, and whatever the initiator is about to store is that
token; it is what makes a second acceptance and an empty token impossible.
`RevealInv`: a listing or dialog, however stale, only ever names an exchange
whose reveal was sent. `InvStep` has one lemma per conjunct and one step per
action. `MirroredTokens` then follows from the one minted token, and the
refinement from `PhaseStep`: every step moves each exchange along
`open -> confirmed -> granted`, or closes it, or leaves it.

Liveness is only model-checked: the proof system does not handle fairness here.
The three violated promises are counterexamples, not theorems.

### Left out of this model

The peering switch is taken as on and the server as running; the wording of the
dialogs, the derivation of codes and hashes and the parsing of requests are not
modelled (a malformed request is `CheckBadRequest`, then `CountFailure`). The page's own copy of the
config, which can write old peers back, belongs to `ConfigStore`.

## The config store

`ConfigStore.tla` is one device: its config file, what `apply_config_to_state`
made of it, and the page's `state.config`. Commands run one at a time on the main
thread, but a pairing ends with `store_peer` on a thread of its own, and nothing
locks the file between a load and the save that follows.

| Variable | In the code |
|---|---|
| `file` | `config.json`: `Missing`, `Torn` (does not parse) or a config |
| `live` | the `settings`, `shares` and `peers` of `AppState` |
| `page`, `reload` | `state.config`; whether an event handler is about to call `loadConfig` |
| `main` | the command at work: loaded and changed, file truncated, file written |
| `store` | per pairing, the position of `store_peer` and its copy of the config |
| `told` | the device id `start_pair_task` read from the config for its pairing |
| `ids`, `minted` | how many device ids and tokens `normalize` and the commands have invented |
| `revoked` | the links that completed commands regenerated or removed |

A config is reduced to the device id, one token per share (zero: no such share),
`inbox_share_id`, the shares with `is_inbox`, and the paired devices. Ids and
tokens are random in the code and never repeat; they are numbered here. A save is
`fs::write`: it truncates the file and then fills it, so a reader in between finds
a file that does not parse, and so does a reader after two overlapping writes when
the longer one's tail stays behind the shorter one (`Filled`). A load of a missing
or torn file is the default config with a newly invented device id, which stays in
that load's copy until someone saves it. `Faults` lets any save fail and the app
be killed and restarted at any point. `UpdateShare` sends what the page's table
shows, which was read from the live state; `SaveSettings` sends the page's copy.
`Init` is a first start, or a file whose share is already the inbox.

### Runs

One share and one pairing. One pairing thread suffices for what a second writer
can do to the main thread's copy. `MaxIds = 3` lets a file that is lost once give
two further ids after the first; `MaxTokens = 2` is a token and its replacement.

`config_store` (`MCConfigStore.cfg`), with faults:

* `TypeOK`: types, with ids and tokens within `MaxIds` and `MaxTokens`, and at most
  one share marked as the inbox in what is on file, in what is served and in what a
  writer is about to save. The page's own copy may name a share that does not claim
  to be the inbox; `normalize` puts that right when the copy is saved.
* `LiveIsFile`: between commands a file that can be read is what is served,
  through failures, torn files and restarts, unless a `store_peer` has written:
  it saves and does not apply.
* `OnlyCopiesRevive`: a revoked link comes back to the registry only with the
  page's copy, with a pairing's copy or at a restart.
* `IdsComeFromFile`: with a readable file no step brings a new device id into use.
* `RegisterKept`: the commands implement `ConfigPromise`, one register (`served`)
  that a command changes once, by its own effect and from what is served when it
  begins. The mapping takes `live` to `served`, the page's copy without its id to
  `copy`, and the config a command has in hand to `next`. The promise has the
  code's three ways out and no more. A save can lose the file, and what starts
  next starts from nothing. A settings save has the page's copy served. And once
  `store_peer` has written, which applies nothing, file and register are apart
  and nothing further is promised; what then still holds is in the properties
  above.

`config_links` and `config_identity` find promises the code does not keep, neither
with a failure or with two writers at work at once
(`OneWriterAtATime` is the constraint of `config_identity`):

* `OldLinkStaysDead` (tasks.rs:500): the page's copy is not refreshed by the
  share commands, so the next settings save restores the token that
  `regenerate_share_token` replaced, or the share that was removed.
* `PeersKnowUs` (models.rs:884): on a first start page and backend invent
  different ids; after a pairing a settings save replaces the id the peer knows.

There is no liveness here: each writer is a straight line of code, and deadlock is
checked.

### What is proved

`ConfigStoreProofs.tla`, for every set of shares and of pairings and every bound:
`ConfigTypes`, `FileServed` (`LiveIsFile`) and `IdsKept` (`IdsComeFromFile`).
`Inv` is the types with `AtMostOneInbox`, both part of `TypeOK`, and `InStep`.
`AtMostOneInbox` holds because whatever is written has been normalized, also when it
came from the page; it makes reading the file back change nothing, without which
`live` could not equal the file after a restart. `InStep`: as long as no pairing has stored, the
live state is the file's until the command truncates it, and between save and
apply the file is what is about to be applied. Both were checked with TLC on the
instance of `config_store` before they were proved.

`CommandsReviveNone` (`OnlyCopiesRevive`) needs an account of which copies hold
which tokens, `LinkInv`. `TokensMinted`: no copy, on disk, on the page or in any
writer's hands, holds a token that was not minted, and a link that was taken away
is one that was; so a token a command is about to mint is in no copy yet.
`WorkRevivesNone`: what a command has in hand, until a pairing stores, holds no
link that was taken away, unless it is the page's copy. Both are kept by tokens
being minted in increasing order (`MoreTokens`) and by a command starting from the
file, which is what is served then (`LoadedLinks`).

`ConfigPromiseProofs.tla` proves `ConfigImplementsPromise` (`Spec => RegisterKept`)
from `RegisterInv`, which is the above with `AtWork`: between a settings save's
beginning and its end nothing changes the page's copy. Each command is shown to be
an `Ask` (`CommandAsks`), the steps of its save `Tear` and `Write`, its end `Done` or
`Fail`, and a restart, whose outcome depends on how far the save had got, `Restart`.

### Left out of this model

Settings, names and filters, which no property tells apart, are `OtherCommand`.
`accept_pair_request` also runs on the main thread and is in `Pairing`. The three
locks of `apply_config_to_state` are taken in one step, and the sessions it prunes
belong to `Access`. The page's calls return in the order they were made.

## Access

`Access.tla` follows a request from its arrival to its answer, and a command from
its save to its return. A step is what happens under one lock: `settings`,
`registry` and `peer` are the three `RwLock`s of `AppState` that
`apply_config_to_state` replaces one after another (`ApplySettings`,
`ApplyShares`, `ApplyPeers`), `sessions` and `attempts` are the two maps behind
mutexes. `req` is one record per request in progress: what it asks, what it has
read and how far it has got. `plays` is the table of play tokens, the shares of the
links that work in the order in which they expire. `main` is the command on the main thread, of which
there is one at a time.

| Code | Actions |
| --- | --- |
| `session_info` | `AskSession`, `ReadSettings`, `Lookup`, `CreateSession` |
| `auth_pin`, `check_pin` | `GivePin`, `ReadSettings`, `CheckPin`, `CreateSession`, `GoAway` |
| `share_link` | `OpenLink`, `FindShare`, `CreateSession` |
| `logout` | `AskLogout`, `Logout` |
| `AuthedSession`, `scoped_share` | `AskShare`, then `FindPeer`, `AdmitPeer` or `TouchSession`, `AdmitAnyone`, then `Serve`, `Served` |
| `play_link`, `create_play_token` | as the row above with `play` set, then `Serve`, `GoAway`, `NoFile` or `CreatePlay`, where `Room` is the cap |
| `play_stream`, `play_playlist`, `play_target` | `OpenPlay`, `ResolvePlay`, `FindPlayed`, `Served` |
| the commands that decide who gets in | `SetPinEnabled`, `GeneratePin`, `SaveConfig`, `SetShareEnabled`, `RemoveShare`, `RegenerateToken`, `SetPeer`, then the three `Apply...` and `PruneStaleSessions` |
| `revoke_session`, `revoke_all_sessions` | `RevokeSession`, `RevokeAllSessions` |
| `start_server_impl`, `stop_server_impl`, `restart_server_impl` | `StartServer`, `StopServer`, `WaitEnds`, `ClearSessions`, `ClearPlays`, `ClearAttempts`, `StartFails` |

`session_info` sweeps the sessions and looks its own up under the same lock twice
with nothing between that touches them; that is one step. Time is what it brings
about: a session gets old (`SessionAges`), a play link or a lockout ends (`PlayExpires`,
`LockoutEnds`), the five seconds of a stop pass (`WaitEnds`). `WaitEnds` assumes that
five seconds are enough for requests that wait for nothing but locks. What waits for
its client may be left: a PIN check or a request for a play link whose body is still
to come (`AwaitsBody`; `auth_pin` takes it before anything else, `play_link` after
its session was admitted), and an answer that is still being read. So may a file that
is still being looked up.

Three variables are there for the properties and steer nothing. `fresh` marks a
request that arrived while no command was applying and loses its mark when one
begins. `kept` holds the sessions `PruneStaleSessions` left. `guesses` counts, for
each address, the wrong PINs that were compared since it could last guess.

### Runs

| Run | Shows |
| --- | --- |
| `access` | Types. `ConfigTakesEffect`: what arrives after a command has returned is decided by what that command left, though each handler reads the configuration in pieces; that includes the use of a play link minted before. `NoneStaleKept`: pruning leaves no session of an old link. `GuessesBounded`: the limiter hears no more than `max_pin_attempts` wrong PINs, with requests of one address at once, right PINs between, restarts and lockouts. `OnlyBodiesOutlive`: of what a stop left undone, only requests with a body, PIN checks and requests for a play link, still decide anything in the next run, and a session opened through a share link is always of the present one. |
| `access_runs` | A violation. "Sessions are per-server-run" (server.rs:386) fails: a request for a PIN check waits for its body, the stop gives up after five seconds and clears, the server is started again, the body arrives and its session is good in the new run. `shutdown_timeout`, which server.rs:370 relies on, is called only after the draining that the stop gave up on. |

Bounds of both: one share, one session token, two request slots of one address, of
which one uses every route and the other types PINs, one request after another;
`MaxRuns` = 2 starts, `MaxAttempts` = 2, `PlayCap` = 1 play link, so that a second
one displaces the first, and `MaxChanges` = 1 change, from a
configuration with everything on or one with everything off, so that a command
turns each switch either way. A property is about what one command left, one
session or one address; two runs are what a restart needs; the second slot
disturbs the first, and both may check a PIN at once. The proofs have no such
bounds. The run's
constraint, `OneThingAtATime`, leaves out two more things: the first slot's PIN while
the second has none, which is the second's alone with the slots exchanged; and PINs
checked, or failures on record, while a play link works, since no code reads both.
PINs beside a request for a play link are in. When the
session token is used up a further session is not kept (`NoTokenLeft`). Deadlock is
not checked, because a stopped server may stay stopped. All else is safety: a
request's steps are straight-line code.

`ConfigTakesEffect` is only about requests that overlap no command, and that is
where the code draws the line: a request that read the old link before the command
and creates its session after the pruning gets a session for the old link, which
stays until the next pruning. Full sessions stay when the PIN is changed or turned
on. Both are so in the model.

### What is proved

`AccessProofs.tla`, for all shares, addresses, requests, session tokens and bounds:
`AccessTypes` (`TypeOK`), `ChangesTakeEffect` (`ConfigTakesEffect`),
`PrunedStaysPruned` (`NoneStaleKept`), `PinsLimited` (`GuessesBounded`) and `RunsEnd`
(`OnlyBodiesOutlive`). The
assumptions are `AccessAssumption`, that the app starts with a configuration
(`StartAssumption`), and that a token not yet created differs from a session and
from a removed one (`SessionAssumption`). None of these safety properties is
inductive. `FreshReads` says, for each point a fresh request can have reached, what
it has read and that it is still so: the PIN and the switches it copied, the peer
it found, the share it looked up. `GuessesCounted` ties the count of guesses to the
failures on record, which a lockout resets. `KeptMinted` keeps a new session from
being taken for one that was pruned. `RunInv`, for `RunsEnd`, follows a
request through a stop: one that still decides is of a run that serves or drains,
what has a scope other than Full came through a link, and no link's session is made
between the clearing of the sessions and the next start. It is the part of
server.rs:386 that is true; `access_runs` has the rest. TLC checked `Inv` and `RunInv`
on the instance of `access` before they were proved.

### Left out of this model

Peering is on throughout; switched off, a peer's token counts as no token at all.
The PIN is never empty (`start_server` and `set_pin_enabled` give a config without one a PIN), and the roots
of shares resolve. The lifetime of sessions and the limits of the PIN limiter do
not change. A pairing thread that applies its own copy of the configuration is in
`ConfigStore`. The presence stamp of an admitted peer is `StampVisit` in `Presence`;
the activity log, which decides nothing here, is `Activity`.

## Presence

`Presence.tla` follows what one device shows about the others. Time goes in steps
of `ANNOUNCE_EVERY_MS`; every time stamp appears as its age.

| Variable | In the code |
| --- | --- |
| `here`, `phase`, `peering`, `net` | the other devices: which are on this network, what their servers and announce loops are doing, their switch, the datagrams under way |
| `table`, `manual` | `discovered`: the age of `last_seen_ms`, and the `manual` mark |
| `stamp` | `peer_seen` |
| `peer`, `paired` | the live `PeerRegistry`: paired or blocked, and the age of `paired_at_ms` |
| `lister` | `list_peers`: holds the table, then also `peer_seen`, then waits for the registry |
| `change` | a command on the main thread that is about to install a registry |
| `goodbye` | `apply_beacon` on a "bye", which holds the table and waits for `peer_seen` |
| `dial`, `visit`, `adding` | an outgoing request, an admitted request, and `add_peer_by_address`, between two locks |
| `silent`, `left`, `added` | what really happened, for the properties: the time since a device last did something, who said goodbye, how many addresses were typed in |

| Code | Actions |
| --- | --- |
| `announce_loop`, `beacon_action`, stop of the loop, on the other device | `AnnouncePass`, `StartServer`, `StopServer`, `SetPeering` |
| `apply_beacon` | `ReceiveHi`; `ReceiveBye`, then `ForgetContact` |
| `sweep` | `Sweep` |
| `add_peer_by_address` | `HelloAnswered`, `AddByAddress` |
| `apply_config_to_state`, as far as peers | `ChangePeer`, `InstallPeers` |
| `list_peers` | `ListPeers`, three steps; `PeerOnline` is what it says |
| `peer_endpoint`, the request, `note_peer_seen` | `Endpoint`, `Resolve`, `Answer` or `DialFails`, `NotePeerSeen` |
| `AuthedSession` of a peer's request, and its presence stamp | `Admit`, `StampVisit` |

A datagram arrives once, several times, out of order or not at all, but not after
the next announcement. A crash, and a device that leaves the network, is a stop
whose goodbye is lost. While this device's own server is down nothing is received,
swept or admitted, and the table, the stamps and the registry outlive it; as no
step here ever has to happen, that needs no state. A device that could not bind its
discovery socket is one that does not announce. `store_peer` saves without
installing, so a pairing may have any age when a later command installs it.

The lock order is why three threads appear in pieces. `list_peers` takes the table,
`peer_seen` and the registry inside one another; `peer_endpoint` takes the registry
and then the table; `apply_beacon` takes the table and then `peer_seen`. A reader of
the registry also waits for a writer that waits (`Readable`), as std's `RwLock` does
on Linux.

### Run

`presence` (`MCPresence.cfg`):

* `TypeOK`.
* `OnlineWasAlive`: whoever is shown as present gave a sign of life within
  `PEER_OFFLINE_AFTER_MS`, or was paired that recently.
* `GoodbyeHides`: after a goodbye nothing earlier keeps a device on the screen, only
  a recent pairing.
* `TableBounded`: beacons do not grow the table past its cap; addresses typed in may,
  by one each.
* `MakesRoom`: a present device, or one typed in, leaves the table only for as many
  fresher ones as the table holds.
* `NoStandstill`: the locks above never wait for each other in a ring.

Two networks, one after the other in `Network`: a friend alone, whose contact comes
by beacon, by answer and by visit, with all the locks; and three strangers against a
table of two, of which one may be typed in. That is one more than the cap, the least
with an eviction. Being online lasts one tick and eviction comes after two, so a
device is fresh, online, offline and expired in turn. Two of the strangers keep
running and are symmetric. There is no liveness: nothing is assumed fair, because
every datagram may be lost.

### What is proved

`PresenceProofs.tla`, for all devices, friends, networks, caps and thresholds with
`OfflineAfter < EvictAfter` (`PresenceAssumption`): `PresenceTypes` (`TypeOK`),
`PresenceIsFresh` (`OnlineWasAlive`), `GoodbyesCount` (`GoodbyeHides`),
`BeaconsBounded` (`TableBounded`), `OnlyFresherOnesDisplace` (`MakesRoom`) and
`NeverAtAStandstill` (`NoStandstill`). `Inv` adds to the types: `Alive`, no entry,
stamp, datagram or answer under way is younger than the last sign of life it speaks
of; `Farewell`, what a goodbye left behind is neither recent nor stamped;
`LocksApart`, the thread that lists is the one that would change the registry, so it
is never doing both; `Bounded`, the table's size with the address still to be added.
`NoStandstill` follows from `LocksApart` and depends on Tauri running the commands
that are not `async` one at a time. `MakesRoom` needs the cardinality of what is as
fresh as the stalest entry, which is where the finiteness of `Device` is used.

### Left out of this model

Names, ports, operating systems and addresses; the port a beacon announces; which
interfaces are used, and multicast membership; the list of incoming requests.
Pairing itself is in `Pairing`.

## Transfers and the activity log

`Transfers.tla` follows the files that arrive in one folder; `Activity.tla` the log
and the page that shows it. A worker is one thing done: a POST of files to the
inbox, a download from a peer, a response with a body, a point event. `Workload` says
what the workers have to do, which is chosen in `Init` and never changes.

| Variable | In the code |
| --- | --- |
| `dir`, `content` | the folder: which file has the name, "name (2)", ...; whose bytes are in a file, and whether all of them are |
| `wk` | the thread or handler: where it is, which of its files, the name it chose, the file it has open |
| `task`, `flag` | `tasks` and `cancellations`, one entry per download |
| `row` | the page's `state.downloads` |
| `fate` | what became of each file; `raced` marks two workers that held a name at once, `cut` a stream that ended early |
| `nextId`, `ring`, `rec` | `next_activity_id`, `activity_log`, and where each call of `log` and each `CountingBody` stands |
| `tab`, `rows`, `lastId`, `poll`, `clearing` | the page: whether it polls, its rows, `lastActivityId`, the polls it awaits, and whether it awaits the clear command |

| Code | Actions |
| --- | --- |
| `upload` | `UploadStarts`, `SkipField`, then per file `PickName` or `NoName`, `CreateFile` or `CreateFails`, `Chunk`, `StreamEnds`, `StreamBreaks`, `WriteFails`; `HandlerDropped` |
| `startNetDownload`, `peek_peer_download`, `start_peer_download_task` | `Ask`, `NotStarted`, `StartTask` |
| `run_peer_download` | `Listed`, `Quits`, and the file actions above; `Vanish`, `FlushFails`, `ArchiveCut` |
| `cancel_task`, the page's poll of a task | `Cancel`, `PollTask` |
| `unique_destination`, `claim_top_level` | `FirstFree`, `Names` |
| `log`, `finalize`, `CountingBody` | `TakeId`, `Push`, `BodyEnds`, `DropBody` |
| `read_since`, `clear_activity_log`, `pollActivity` | `ReadSince`, `ClearRing`, `ClearRows`, `StartPoll`, `AnswerPoll`, `Refetch`, `PrependRows`, `ReplaceRows` |

Choosing a name (`exists`) and creating the file (`File::create`, which truncates) are
two steps, and a half-written file is removed by its name. All workers want the one
name: with different names they cannot meet. An entry takes its id before it takes
the ring's lock, so the ring need not be in the order of ids, and the page does not
wait for one poll before it sends the next, so answers cross.

### Run

`transfers` (`MCTransfers.cfg`):

* `TypeOK`.
* `HostFileStands`: the file that was in the folder keeps its name and its bytes.
* `DoneIsWhole`: what is reported as saved is in the folder and whole, and stays so
  while others fail and remove theirs. Not promised: a file whose name another
  transfer held at the same time, and an upload or an archive cut short.
* `NoHalfFileKept`: what was given up is not in the folder.
* `SavedMeansAll`: a download of several files is said to be saved, in the task table
  and on the page, only if every file was kept; a refusal, a break or a cancellation
  between files fails all of it.
* `NotTwice`: the page never runs two downloads of the same thing.
* `StartedIsRunning`: an entry says "started" only while its body is being sent.
* `FinalStatusStays`: a final status is never replaced.
* `LogIsHonest`: the log implements `LogPromise`: each transfer appears once, in front,
  over or going on; one that goes on is told once how it ended; entries leave at the
  back when there are too many, or all with a clear. An id counts as used when its entry
  is in the ring (`Written`), not when a thread takes it.
* `PageOnlyBehind`: of a transfer that the page and the log both have, the page shows
  the same end or still none, and it knows no id that was not handed out, however late
  and in whichever order the answers come.
* `PageCatchesUp`: in the end the page shows what a log that is not empty holds.
* `CancelledEnds`: a cancelled download ends, unless the other device is silently
  gone.

`MCWorkload` has six small workloads, each for one thing that can happen: two
downloads of two files beside a file of the host's; one download asked for twice
beside an upload; an archive packed here and one packed there; two uploads that take
only the exact name and one that takes any; four entries in a ring of two; and a log
of two polled by the page, cleared once. Three workers are what it takes for one to
disturb a second while a third has the next name. Three names are enough for three
workers and one too few when the host's file has the first, so that `NoName` happens
too. Two polls at a time let two answers cross. `PageLimit` is one and the ring two, so that a page
of the log is cut off.

Assumed fair: the steps of a thread that can go on (`Runs`), that includes the
arrival of chunks while the other device is there, and the page's timers and what
they start (`Reads`). The threads and timers are the program's own, and no lock is
held across a wait. Nobody owes a stream its end, a download its start, an entry its
push or the user a click. `CancelledEnds` excepts `stalled` because the code has no
timeout there (below). `PageCatchesUp` says nothing about an empty ring: a poll that
answers after the log was cleared leaves its rows on the page until the next entry.

### What is proved

`TransfersProofs.tla`, for all workers, workloads, files, names, ring sizes and page
limits (`ActivityAssumption`, `TransfersAssumption`): `TransfersTypes` (`TypeOK`),
`HostFileIsSafe` (`HostFileStands`), `SavedIsWhole` (`DoneIsWhole`), `HalfFilesGo`
(`NoHalfFileKept`), `SavedIsAll` (`SavedMeansAll`), `OneOfAKind` (`NotTwice`),
`StartedRuns` (`StartedIsRunning`) and `FinalStays` (`FinalStatusStays`), all from
`TransfersInv`.

The invariant has four parts. `Files` follows who could write into whose file:
two workers that hold one name are marked (`Rivals`), so is a worker under whose name
another's file stands (`Trespass`) and one that writes into another's file
(`Sharing`); an unmarked worker fills its own file under its own name (`OwnFile`),
and what it leaves there is out of everyone's reach (`Settled`). `HostKept` adds that
nobody holds the name of the host's file, `Gone` that what was removed has no name.
`Log` says that every id has been given out, at most once, and that an entry called
"started" has a worker with its body open. `Desks` ties task, flag and row to each
other and to the worker. `Whole` is the account of a download's files: it comes to a
file only by keeping all before it, and it is done when it is said to be saved. Every step of a worker is one of five kinds (it moves on,
picks a name, creates, writes, or leaves its file in one of three ways), and the
preservation of `Files` is proved for each kind once. TLC checked the instance first.

`LogPromiseProofs.tla` proves `ThreadsKeepTheLog` (`Spec => LogIsHonest`). Besides `Log`
it needs that no entry begins as an aborted one (`Begins`). Taking an id is a stutter of
the promise (`Taking`), pushing uses exactly the id its thread had taken (`Pushing`), and
ending or dropping a body settles exactly one entry, or none when it was settled before
(`Ending`); all three rest on an id belonging to one thread (`Numbers`).

From the same lemmas it proves `PageIsBehind` (`PageOnlyBehind`), for any number of polls
under way. The page's rows alone are not inductive, because an answer under way becomes
rows later: `PageInv` says the same of the answers, and that all their ids were used
(`Behind`). A step of the log keeps this since it pushes no id that was used before
(`Fresh`) and changes no end that was told (`FinalKept`).

`PageCatchesUp` and `CancelledEnds` are only model-checked.

### Left out of these models

Bytes, sizes, progress, speeds, upload limits other than as an end of the stream, and
the filters of the log's page. Who may upload is in `Access`. A downloaded folder's
subfolders: the claim of its top-level name is that of a file, and below it there is
nobody to meet. Index and prewarm tasks, which use the same task table but write no
file of the user's. Taking a finished download's row off the page.

## Disagreements noted without a run

What the models of this part show, or need, against what the code says of itself.
The properties above are worded so that they hold of the code; these are the places
where they had to be.

* models.rs:1098 calls the presence map a leaf lock with one nesting, and
  discovery.rs:455 repeats it; `list_peers` holds the table and the presence map
  while it takes the registry. It does no harm as long as whoever writes the
  registry is on the same thread.
* models.rs:1101 has the presence map bounded by the peer list; unpairing removes no
  stamp, and a request under way leaves one after its peer was unpaired or blocked.
* A goodbye gives an entry a fixed age, so one that arrives late makes an old entry
  younger and keeps it in the table longer; it never makes it recent.
* The time of a pairing counts as contact, so a device that says goodbye right after
  it was paired stays online in the list of peers until that is no longer recent.
* README.md:301 says that flipping the peering switch pokes the
  announce loop; the loop reads the switch at its next pass.
* README.md:33 ("nothing is ever overwritten"), routes.rs:1299 and the page's text
  hold of a file that was there before, not of two transfers that choose one name at
  the same time: the later `File::create` empties the earlier one's file, and the one
  that fails removes the file of the other by its name (`raced` in `DoneIsWhole`).
* tasks.rs:2216 says that a half-written file is worse than none; a failed flush, and
  a failed step of writing an archive, leave it (`FlushFails`), as does an upload
  whose connection's task is dropped (`HandlerDropped`).
* An upload cut short is kept and logged as a success, and an archive whose reading
  fails on the other device ends as if it were complete (`ArchiveCut`).
* peerclient.rs:214 expects the loop over chunks to notice a dead peer soon enough; a
  peer that vanishes without closing leaves the read waiting, and the cancel flag is
  looked at only when a chunk is here (`Vanish`).
* server.rs:387 says that a play link is no more durable than the session that
  minted it. `Access` has two ways round it: a session that logs out, is revoked or is
  pruned leaves its play links, which last until they expire, are displaced, or their
  share is switched off; and a request for a play link whose body comes after a stop
  gave up on it mints one after the stop has cleared them.
* Cancel and the deadline do not end a pairing that waits for the rest of an answer
  (peerclient.rs:66-72; the antecedent of `TaskEnds`).
* README.md:32 and tasks.rs:532 let the user choose the inbox; `normalize`
  (config.rs:163) drops a chosen inbox whose share does not already have `is_inbox`,
  and no control sets that.
* `startNetDownload` reads the device and the share again after it has awaited, so
  the key it guards and what it requests may differ if the user has moved on.

## Not modelled

* Zip streaming beyond the archive that is cut off (`ArchiveCut`): the packing itself
  is a function from files to bytes, better served by unit tests.
* Thumbnails, interface enumeration, embedded assets, the visitor's page and the
  build scripts: stateless transformations and I/O.
* Path resolution under a share root, which depends on the file system.
* Setting up the discovery sockets and judging their health: system calls whose
  failure is a device that does not announce.
