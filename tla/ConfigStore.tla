---------------------------- MODULE ConfigStore ----------------------------
(***************************************************************************)
(* The config file and its writers on one device (config.rs, tasks.rs) and *)
(* the desktop page's own copy of it (ui/app.js).                          *)
(*                                                                         *)
(* Commands run one at a time on the main thread: load, change, save,      *)
(* apply.  Each pairing task ends with a store_peer on a thread of its     *)
(* own: load, change, save.  No lock spans a load and the save that        *)
(* follows, and a save empties the file before it fills it.                *)
(*                                                                         *)
(* Secrets and ids are counters: the n-th token of a share, the n-th       *)
(* device id normalize invented.  Zero stands for none.                    *)
(***************************************************************************)
EXTENDS Naturals, FiniteSets

CONSTANTS
  Share,       \* the shares that may be added, each under a new id
  Peer,        \* the devices this one may pair with, each in a task of its own
  MaxIds,      \* how many device ids normalize may invent
  MaxTokens,   \* how many tokens a share may get
  Faults,      \* whether saves may fail and the app may be restarted
  NoShare,     \* no share is the inbox
  Missing,     \* there is no config file
  Torn         \* the file does not parse: a save emptied it, or two mixed

ASSUME ConfigAssumption ==
  /\ NoShare \notin Share
  /\ MaxIds \in Nat \ {0} /\ MaxTokens \in Nat \ {0}
  /\ Faults \in BOOLEAN

VARIABLES
  file,        \* Missing, Torn or the config on disk
  live,        \* what apply_config_to_state made of a config
  page,        \* state.config: the config as the page knows it
  reload,      \* whether the page is about to read the config back
  main,        \* the command on the main thread
  store,       \* Peer -> the store_peer at the end of its pairing task
  told,        \* Peer -> the device id its pairing presents
  ids,         \* device ids invented so far
  minted,      \* Share -> tokens minted so far
  revoked      \* the links a completed command took away

vars == <<file, live, page, reload, main, store, told, ids, minted, revoked>>

-----------------------------------------------------------------------------
(* Configs. *)

Config == [id : Nat, shares : [Share -> Nat], inbox : Share \cup {NoShare},
           claims : SUBSET Share, peers : SUBSET Peer]
ASSUME FileAssumption == Missing \notin Config /\ Torn \notin Config /\ Missing # Torn

\* What normalize promises of a config: "at most one inbox" (config.rs:155).
OneInbox(c) == c.claims = {c.inbox} \ {NoShare}

Default(id) == [id |-> id, shares |-> [s \in Share |-> 0], inbox |-> NoShare,
                claims |-> {}, peers |-> {}]

\* At most one inbox.  If several claim it, the one named by inbox wins,
\* otherwise the first; a share that does not already claim it never does.
Normal(c) ==
  LET winner == IF c.inbox \in c.claims THEN c.inbox
                ELSE IF c.claims # {} THEN CHOOSE s \in c.claims : TRUE
                ELSE NoShare
  IN  [c EXCEPT !.inbox = winner, !.claims = {winner} \ {NoShare}]

Readable == file \notin {Missing, Torn}

LoadedNewId == [IF Readable THEN file ELSE Default(0) EXCEPT !.id = ids + 1]  \* mutant

\* load_config_impl: a file that is missing or does not parse is a default
\* config, and normalize gives it a new device id.
Loaded == IF Readable THEN Normal(file) ELSE Default(ids + 1)

\* Loading invents an id, which nothing saves, unless there is a file to read.
Load ==
  /\ Readable \/ ids < MaxIds
  /\ ids' = IF Readable THEN ids ELSE ids + 1

\* What the live state keeps: settings, share registry and peers, no device id.
Applied(c) == [shares |-> c.shares, inbox |-> c.inbox, claims |-> c.claims, peers |-> c.peers]

LiveState == [shares : [Share -> Nat], inbox : Share \cup {NoShare},
              claims : SUBSET Share, peers : SUBSET Peer]
MainState ==
  [pc : {"idle", "loaded", "cut", "saved"},
   cmd : {"none", "add", "remove", "regenerate", "update", "unpair", "pin", "other",
          "settings", "folder"},
   work : Config, form : Config, revokes : SUBSET (Share \X Nat)]
StoreState ==
  [pc : {"idle", "pairing", "loaded", "cut", "stored", "failed"}, work : Config]

Idle == [pc |-> "idle", cmd |-> "none", work |-> Default(0), form |-> Default(0), revokes |-> {}]
Unstored == [pc |-> "idle", work |-> Default(0)]

\* The app on its first start, or with a file that names an inbox, as one
\* edited by hand may: setup and the page have each loaded it.
Init ==
  /\ file \in {Missing} \cup
       {[id |-> 1, shares |-> [r \in Share |-> IF r = s THEN 1 ELSE 0], inbox |-> s,
         claims |-> {s}, peers |-> {}] : s \in Share}
  /\ ids = 1
  /\ page = IF Readable THEN file ELSE Default(1)
  /\ live = Applied(page)
  /\ reload = FALSE
  /\ main = Idle
  /\ store = [p \in Peer |-> Unstored]
  /\ told = [p \in Peer |-> 0]
  /\ minted = page.shares
  /\ revoked = {}

-----------------------------------------------------------------------------
(* Commands.  Each is a mutate_config: it starts from the file. *)

\* A command starts: it has loaded the config and changed its copy to c.
BeginRaw(cmd, c, form, revokes) ==          \* mutant: saved without normalize
  /\ main.pc = "idle"
  /\ main' = [pc |-> "loaded", cmd |-> cmd, work |-> c, form |-> form, revokes |-> revokes]
  /\ UNCHANGED <<file, live, page, reload, store, told, revoked>>

Begin(cmd, c, form, revokes) ==
  /\ main.pc = "idle"
  /\ main' = [pc |-> "loaded", cmd |-> cmd, work |-> Normal(c), form |-> form,
              revokes |-> revokes]
  /\ UNCHANGED <<file, live, page, reload, store, told, revoked>>

Mutate(cmd, c, revokes) == Load /\ Begin(cmd, c, page, revokes)

\* add_shares: a new share has a new id and a new token.
AddShare(s) ==
  /\ minted[s] = 0
  /\ minted' = [minted EXCEPT ![s] = 1]
  /\ Mutate("add", [Loaded EXCEPT !.shares[s] = 1], {})

RemoveShare(s) ==
  /\ Loaded.shares[s] # 0
  /\ Mutate("remove", [Loaded EXCEPT !.shares[s] = 0, !.claims = @ \ {s},
                                     !.inbox = IF @ = s THEN NoShare ELSE @],
            {<<s, Loaded.shares[s]>>})
  /\ UNCHANGED minted

RegenerateToken(s) ==
  /\ Loaded.shares[s] # 0
  /\ minted[s] < MaxTokens
  /\ minted' = [minted EXCEPT ![s] = @ + 1]
  /\ Mutate("regenerate", [Loaded EXCEPT !.shares[s] = minted[s] + 1],
            {<<s, Loaded.shares[s]>>})

UpdateFromPage(s) ==                                        \* mutant
  /\ Loaded.shares[s] # 0 /\ live.shares[s] # 0
  /\ Mutate("update", page, {}) /\ UNCHANGED minted

\* update_share replaces all but the token by what the page's table shows.
UpdateShare(s) ==
  /\ Loaded.shares[s] # 0
  /\ live.shares[s] # 0
  /\ Mutate("update", [Loaded EXCEPT !.claims = IF s \in live.claims THEN @ \cup {s}
                                                ELSE @ \ {s}], {})
  /\ UNCHANGED minted

\* unpair_peer
UnpairPeer(p) ==
  /\ p \in Loaded.peers
  /\ Mutate("unpair", [Loaded EXCEPT !.peers = @ \ {p}], {})
  /\ UNCHANGED minted

OtherFromPage(cmd) == Mutate(cmd, page, {}) /\ UNCHANGED minted   \* mutant

\* Any other command: it changes a part of the config that is not modelled,
\* and after generate_pin the page reads the config back.
OtherCommand(cmd) == Mutate(cmd, Loaded, {}) /\ UNCHANGED minted

\* The page's two ways to call save_config.
FromPage == {"settings", "folder"}

\* saveConfig and saveDownloadDir send the page's copy, with the form's fields
\* in it, and save_config saves it as it is.  The form offers the live shares.
SaveSettings(cmd, inbox) ==
  /\ inbox # NoShare => live.shares[inbox] # 0
  /\ LET form == [page EXCEPT !.inbox = inbox]
     IN  Begin(cmd, form, form, {})
  /\ UNCHANGED <<ids, minted>>

-----------------------------------------------------------------------------
(* A save: fs::write empties the file, then fills it. *)

\* A file that another save filled in the meantime is overwritten in place:
\* if that one was longer, its tail stays and the file does not parse.
Filled(c) == file' = c \/ (file # Torn /\ file' = Torn)

MainCut ==
  /\ main.pc = "loaded"
  /\ main' = [main EXCEPT !.pc = "cut"]
  /\ file' = Torn
  /\ UNCHANGED <<live, page, reload, store, told, ids, minted, revoked>>

MainFill ==
  /\ main.pc = "cut"
  /\ main' = [main EXCEPT !.pc = "saved"]
  /\ Filled(main.work)
  /\ UNCHANGED <<live, page, reload, store, told, ids, minted, revoked>>

\* The command reports the error, applies nothing, and leaves the file as the
\* failed write left it.
MainFails ==
  /\ Faults
  /\ main.pc \in {"loaded", "cut"}
  /\ main' = Idle
  /\ UNCHANGED <<file, live, page, reload, store, told, ids, minted, revoked>>

NowLiveStale(c) == live                                    \* mutant
NowLive(c) == Applied(c)

\* apply_config_to_state, and the command returns.  The page keeps a
\* copy it sent; after a settings save or a new PIN it is about to read the
\* config back.
MainApply ==
  /\ main.pc = "saved"
  /\ main' = Idle
  /\ live' = NowLive(main.work)
  /\ page' = IF main.cmd \in FromPage THEN main.form ELSE page
  /\ reload' = (reload \/ main.cmd \in {"settings", "pin"})
  /\ revoked' = revoked \cup main.revokes
  /\ UNCHANGED <<file, store, told, ids, minted>>

\* The page's loadConfig, a command too.
LoadConfig ==
  /\ main.pc = "idle"
  /\ reload
  /\ Load
  /\ page' = Loaded
  /\ reload' = FALSE
  /\ UNCHANGED <<file, live, main, store, told, minted, revoked>>

-----------------------------------------------------------------------------
(* Pairing tasks. *)

\* start_pair_task: devices to pick appear only once the server has run, which
\* the page starts only with something to share.
StartPairTask(p) ==
  /\ main.pc = "idle"
  /\ store[p].pc = "idle"
  /\ \E s \in Share : minted[s] # 0
  /\ Load
  /\ told' = [told EXCEPT ![p] = Loaded.id]
  /\ store' = [store EXCEPT ![p].pc = "pairing"]
  /\ UNCHANGED <<file, live, page, reload, main, minted, revoked>>

\* store_peer, once the other device has accepted.
StoreLoad(p) ==
  /\ store[p].pc = "pairing"
  /\ Load
  /\ store' = [store EXCEPT ![p] = [pc |-> "loaded",
                                    work |-> [Loaded EXCEPT !.peers = @ \cup {p}]]]
  /\ UNCHANGED <<file, live, page, reload, main, told, minted, revoked>>

StoreCut(p) ==
  /\ store[p].pc = "loaded"
  /\ store' = [store EXCEPT ![p].pc = "cut"]
  /\ file' = Torn
  /\ UNCHANGED <<live, page, reload, main, told, ids, minted, revoked>>

StoreFill(p) ==
  /\ store[p].pc = "cut"
  /\ store' = [store EXCEPT ![p].pc = "stored"]
  /\ Filled(store[p].work)
  /\ UNCHANGED <<live, page, reload, main, told, ids, minted, revoked>>

\* The pairing is refused, or its write fails.
StoreFails(p) ==
  /\ \/ store[p].pc = "pairing"
     \/ Faults /\ store[p].pc \in {"loaded", "cut"}
  /\ store' = [store EXCEPT ![p].pc = "failed"]
  /\ UNCHANGED <<file, live, page, reload, main, told, ids, minted, revoked>>

-----------------------------------------------------------------------------
\* The app is killed, or quits, at any point and starts again: setup applies
\* what the file holds, and the page loads it for itself.
Restart ==
  /\ Faults
  /\ Readable \/ ids + 1 < MaxIds
  /\ ids' = IF Readable THEN ids ELSE ids + 2
  /\ live' = Applied(Loaded)
  /\ page' = IF Readable THEN Loaded ELSE Default(ids + 2)
  /\ reload' = FALSE
  /\ main' = Idle
  /\ store' = [p \in Peer |-> IF store[p].pc \in {"idle", "stored"} THEN store[p]
                              ELSE [store[p] EXCEPT !.pc = "failed"]]
  /\ UNCHANGED <<file, told, minted, revoked>>

Command ==
  \/ \E s \in Share : \/ AddShare(s) \/ RemoveShare(s) \/ RegenerateToken(s)
                      \/ UpdateShare(s)
  \/ \E p \in Peer : UnpairPeer(p)
  \/ \E cmd \in {"pin", "other"} : OtherCommand(cmd)
  \/ \E cmd \in FromPage, s \in Share \cup {NoShare} : SaveSettings(cmd, s)

Next ==
  \/ Command \/ MainCut \/ MainFill \/ MainFails \/ MainApply \/ LoadConfig
  \/ \E p \in Peer : \/ StartPairTask(p) \/ StoreLoad(p) \/ StoreCut(p)
                     \/ StoreFill(p) \/ StoreFails(p)
  \/ Restart

Spec == Init /\ [][Next]_vars

-----------------------------------------------------------------------------
(* Properties. *)

Types ==
  /\ file \in Config \cup {Missing, Torn}
  /\ live \in LiveState
  /\ page \in Config
  /\ reload \in BOOLEAN
  /\ main \in MainState
  /\ store \in [Peer -> StoreState]
  /\ told \in [Peer -> Nat]
  /\ ids \in 1..MaxIds
  /\ minted \in [Share -> 0..MaxTokens]
  /\ revoked \in SUBSET (Share \X Nat)

AtMostOneInbox ==
  /\ OneInbox(live)
  /\ Readable => OneInbox(file)
  /\ main.pc # "idle" => OneInbox(main.work)
  /\ \A p \in Peer : store[p].pc \in {"loaded", "cut"} => OneInbox(store[p].work)

\* Every variable holds a value of its kind, within the bounds on ids and
\* tokens, and what is on file, served, or about to be saved by any writer has
\* at most one inbox, the share it names (config.rs:155), though the copy that
\* the page sends may name a share that does not claim to be it.
TypeOK == Types /\ AtMostOneInbox

Stored == \E p \in Peer : store[p].pc = "stored"

\* mutate_config "keeps the file and the live state in sync" (tasks.rs:225):
\* between commands, whatever failed, was cut short or was restarted, a file
\* that can be read is what the live state serves.  Only a store_peer, which
\* applies nothing, can part them.
LiveIsFile ==
  main.pc = "idle" /\ Readable /\ ~Stored => live = Applied(file)

\* A link that a command took away comes back into the registry only through
\* the settings form's copy, a pairing's copy or a restart: no other command
\* can revive it, however the writers overlap.
OnlyCopiesRevive ==
  [][main.pc = "saved" /\ main.cmd \notin FromPage /\ ~Stored =>
       \A l \in revoked : live'.shares[l[1]] = l[2] => live.shares[l[1]] = l[2]]_vars

\* mutate_config "keeps the file and the live state in sync" (tasks.rs:225).
\* Until a pairing stores its peer the commands implement one register: each
\* changes what was served when it began by its own effect, a restart keeps that
\* effect whole or not at all, and only a lost file makes one start from nothing.
Promise == INSTANCE ConfigPromise WITH
  served <- live, copy <- Applied(page), asked <- main.cmd, next <- Applied(main.work),
  lost <- ~Readable, parted <- Stored
RegisterKept == Promise!Spec

\* The device ids that are on file, or that someone may write or present.
InUse ==
  {page.id} \cup (IF Readable THEN {file.id} ELSE {})
    \cup (IF main.pc = "idle" THEN {} ELSE {main.work.id, main.form.id})
    \cup {store[p].work.id : p \in {q \in Peer : store[q].pc \in {"loaded", "cut"}}}
    \cup {told[p] : p \in {q \in Peer : store[q].pc = "pairing"}}

\* A new device id comes into use only while there is no file to read: with one
\* there, every load, save, failure and restart passes on an id already in use.
IdsComeFromFile == [][Readable => InUse' \subseteq InUse]_vars

\* tasks.rs:500: "the old link stops working immediately".  A link that was
\* replaced or whose share was removed never opens anything again.
OldLinkStaysDead == \A l \in revoked : live.shares[l[1]] # l[2]

\* models.rs:884: the device id "must never be regenerated once a peer has
\* stored it".  A peer on file knows this device by the id on file.
PeersKnowUs == Readable => \A p \in file.peers : told[p] = file.id

=============================================================================
