------------------------------- MODULE Access -------------------------------
(***************************************************************************)
(* Who is let in: sessions, the PIN limiter, share links, play links and   *)
(* paired devices (auth.rs, routes.rs), against configuration changes      *)
(* (config.rs, tasks.rs) and the start and stop of the server (server.rs). *)
(*                                                                         *)
(* Requests run concurrently and take one lock at a time; commands run one *)
(* at a time on the main thread and take their locks in turn.  A step here *)
(* is what happens under one lock.                                         *)
(*                                                                         *)
(* Pins and link tokens are counters: the n-th PIN of the device, the n-th *)
(* token of a share.  Time appears as what it brings about: a session is   *)
(* old once it exceeds its lifetime, a lockout ends, a play link expires.  *)
(***************************************************************************)
EXTENDS Naturals, Sequences

CONSTANTS
  Share,       \* the shares
  AnyShare,    \* what a Full session or a peer is admitted to
  Addr,        \* client addresses
  Request,     \* requests in progress, one after another in each slot
  Ip,          \* Request -> the address a slot's requests come from
  Asks,        \* Request -> the kinds of request a slot is used for
  Sid,         \* session tokens
  Start,       \* the configurations the app may start with
  MaxChanges,  \* how many commands may change the configuration
  MaxRuns,     \* how many times the server may be started
  MaxAttempts, \* max_pin_attempts
  PlayCap,     \* PLAY_TOKEN_CAP
  NoSid,       \* a request without a session token
  Unminted,    \* a session token not created yet
  Gone         \* a session that was removed

Kind == {"info", "pin", "link", "get", "peer", "stream", "logout"}

ASSUME AccessAssumption ==
  /\ Ip \in [Request -> Addr] /\ Asks \in [Request -> SUBSET Kind]
  /\ AnyShare \notin Share /\ NoSid \notin Sid
  /\ MaxChanges \in Nat /\ MaxRuns \in Nat
  /\ MaxAttempts \in Nat \ {0}
  /\ PlayCap \in Nat \ {0}

VARIABLES
  settings,    \* the live ServerSettings, as far as they decide who gets in
  registry,    \* the live ShareRegistry: the token and the switch of each share
  peer,        \* the live PeerRegistry, of one other device
  main,        \* the command on the main thread
  run,         \* how many times the server was started
  serving,     \* whether the server accepts requests
  sessions,    \* Sid -> Unminted, Gone or the session
  plays,       \* the shares of the play links that work, the oldest link first
  attempts,    \* Addr -> its failed PINs
  req,         \* Request -> the request in progress
  changes,     \* commands that have changed the configuration
  kept,        \* sessions that were there when sessions were last pruned
  guesses      \* Addr -> PINs compared and found wrong since it could last guess

config == <<settings, registry, peer>>
vars == <<config, main, run, serving, sessions, plays, attempts, req, changes, kept,
          guesses>>

-----------------------------------------------------------------------------
(* What the state is made of. *)

ServerSettings == [pinOn : BOOLEAN, pin : Nat, browse : BOOLEAN]
\* A removed share has token 0.
ShareRegistry == [token : [Share -> Nat], enabled : SUBSET Share]
PeerState == {"none", "paired", "blocked"}
Config == [settings : ServerSettings, registry : ShareRegistry, peer : PeerState]

ASSUME StartAssumption == Start \subseteq Config

\* SessionScope: every share, or one share through one link.  A peer's scope is
\* never stored.
Full == [share |-> AnyShare, token |-> 0]
Scope == {Full} \cup [share : Share, token : Nat]

\* A session, with the run of the server in which its request arrived.
Session == [scope : Scope, old : BOOLEAN, run : Nat]

ASSUME SessionAssumption == Unminted # Gone /\ Unminted \notin Session

\* Play links, by the share of their file.  All live equally long, so the oldest
\* expires first; one that has expired counts for nothing, and is absent here.
PlayTokens == Seq(Share \cup {AnyShare})

NoAttempts == [failures |-> 0, locked |-> FALSE]

\* Current(sc): a session of this scope would survive prune_stale_sessions.
Open(s) == s \in registry.enabled /\ registry.token[s] # 0
Current(sc) == sc = Full \/ (Open(sc.share) /\ registry.token[sc.share] = sc.token)

\* What a request asks for, what it has read and the scope it has got so far.
\* play: it is for a play link to a file (POST /api/play/link), not for the file.
\* fresh: no command has begun to change the configuration since it arrived.
NoSettings == [pinOn |-> TRUE, pin |-> 0, browse |-> FALSE]
Idle == [pc |-> "idle", kind |-> "none", run |-> 0, sid |-> NoSid, pin |-> 0,
         share |-> AnyShare, token |-> 0, play |-> FALSE, seen |-> NoSettings,
         found |-> "none", scope |-> Full, fresh |-> FALSE]

NoConfig == [settings |-> NoSettings, peer |-> "none",
             registry |-> [token |-> [s \in Share |-> 0], enabled |-> {}]]
MainIdle == [pc |-> "idle", next |-> NoConfig, restart |-> FALSE]

Live(i) == sessions[i] \notin {Unminted, Gone}

Init ==
  /\ \E c \in Start : settings = c.settings /\ registry = c.registry /\ peer = c.peer
  /\ main = MainIdle
  /\ run = 0
  /\ serving = FALSE
  /\ sessions = [i \in Sid |-> Unminted]
  /\ plays = <<>>
  /\ attempts = [a \in Addr |-> NoAttempts]
  /\ req = [r \in Request |-> Idle]
  /\ changes = 0
  /\ kept = {}
  /\ guesses = [a \in Addr |-> 0]

-----------------------------------------------------------------------------
(* Commands on the main thread. *)

Now == [settings |-> settings, registry |-> registry, peer |-> peer]

\* A command that has saved its changes begins to apply them.  From here on
\* no request in progress can count on one configuration.
Change(c, restart) ==
  /\ main.pc = "idle"
  /\ changes < MaxChanges
  /\ changes' = changes + 1
  /\ main' = [pc |-> "settings", next |-> c, restart |-> restart]
  /\ req' = [r \in Request |-> [req[r] EXCEPT !.fresh = FALSE]]
  /\ UNCHANGED <<config, run, serving, sessions, plays, attempts, kept, guesses>>

\* set_pin_enabled
SetPinEnabled(on) ==
  Change([Now EXCEPT !.settings.pinOn = on], FALSE)

GeneratePin ==
  Change([Now EXCEPT !.settings.pin = @ + 1], FALSE)

\* save_config: here only the switch for browsing by peers is changed, and
\* a changed port makes the server restart.
SaveConfig(browse, rebind) ==
  Change([Now EXCEPT !.settings.browse = browse], rebind /\ serving)

SetShareEnabled(s, on) ==
  /\ registry.token[s] # 0
  /\ Change([Now EXCEPT !.registry.enabled = IF on THEN @ \cup {s} ELSE @ \ {s}], FALSE)

RemoveShare(s) ==
  /\ registry.token[s] # 0
  /\ Change([Now EXCEPT !.registry.token[s] = 0, !.registry.enabled = @ \ {s}], FALSE)

RegenerateToken(s) ==
  /\ registry.token[s] # 0
  /\ Change([Now EXCEPT !.registry.token[s] = @ + 1], FALSE)

\* set_peer_blocked and unpair_peer
SetPeer(p) ==
  /\ peer # "none"
  /\ Change([Now EXCEPT !.peer = p], FALSE)

\* apply_config_to_state: four locks, one after another.
ApplySettings ==
  /\ main.pc = "settings"
  /\ main' = [main EXCEPT !.pc = "shares"]
  /\ settings' = main.next.settings
  /\ UNCHANGED <<registry, peer, run, serving, sessions, plays, attempts, req, changes,
                 kept, guesses>>

ApplyShares ==
  /\ main.pc = "shares"
  /\ main' = [main EXCEPT !.pc = "peers"]
  /\ registry' = main.next.registry
  /\ UNCHANGED <<settings, peer, run, serving, sessions, plays, attempts, req, changes,
                 kept, guesses>>

ApplyPeers ==
  /\ main.pc = "peers"
  /\ main' = [main EXCEPT !.pc = "prune"]
  /\ peer' = main.next.peer
  /\ UNCHANGED <<settings, registry, run, serving, sessions, plays, attempts, req, changes,
                 kept, guesses>>

StaleShare(sc) == ~Open(sc.share)   \* mutant

Stale(sc) == ~Current(sc)

Then == IF main.restart THEN [MainIdle EXCEPT !.pc = "stop", !.restart = TRUE] ELSE MainIdle

PruneStaleSessions ==
  /\ main.pc = "prune"
  /\ main' = Then
  /\ sessions' = [i \in Sid |-> IF Live(i) /\ sessions[i].scope # Full /\ Stale(sessions[i].scope)
                                THEN Gone ELSE sessions[i]]
  /\ kept' = {i \in Sid : sessions'[i] \notin {Unminted, Gone}}
  /\ UNCHANGED <<config, run, serving, plays, attempts, req, changes, guesses>>

\* revoke_session, by the prefix the page shows
RevokeSession(i) ==
  /\ main.pc = "idle"
  /\ Live(i)
  /\ sessions' = [sessions EXCEPT ![i] = Gone]
  /\ UNCHANGED <<config, main, run, serving, plays, attempts, req, changes, kept, guesses>>

AllGone == [i \in Sid |-> IF Live(i) THEN Gone ELSE sessions[i]]

RevokeAllSessions ==
  /\ main.pc = "idle"
  /\ \E i \in Sid : Live(i)
  /\ sessions' = AllGone
  /\ UNCHANGED <<config, main, run, serving, plays, attempts, req, changes, kept, guesses>>

-----------------------------------------------------------------------------
(* Start and stop of the server. *)

StartServer ==
  /\ main.pc \in {"idle", "start"}
  /\ ~serving
  /\ run < MaxRuns
  /\ main' = MainIdle
  /\ run' = run + 1
  /\ serving' = TRUE
  /\ UNCHANGED <<config, sessions, plays, attempts, req, changes, kept, guesses>>

\* The port is taken.
StartFails ==
  /\ main.pc = "start"
  /\ main' = MainIdle
  /\ UNCHANGED <<config, run, serving, sessions, plays, attempts, req, changes, kept, guesses>>

StopUnwaited(restart) ==   \* mutant: the thread is not joined
  /\ \/ main.pc = "idle"
     \/ main.pc = "stop" /\ restart
  /\ main' = [MainIdle EXCEPT !.pc = "clear", !.restart = restart]
  /\ serving' = FALSE
  /\ UNCHANGED <<config, run, sessions, plays, attempts, req, changes, kept, guesses>>

\* stop_server_impl and restart_server_impl: no request is accepted from here
\* on, and those in progress run on.  With no server there is none to wait for.
StopServer(restart) ==
  /\ \/ main.pc = "idle"
     \/ main.pc = "stop" /\ restart
  /\ main' = [MainIdle EXCEPT !.pc = IF serving THEN "wait" ELSE "clear", !.restart = restart]
  /\ serving' = FALSE
  /\ UNCHANGED <<config, run, sessions, plays, attempts, req, changes, kept, guesses>>

\* auth_pin and play_link take their Json bodies, auth_pin before anything else,
\* play_link after the extractor has admitted its session.
AwaitsBody(r) ==
  \/ req[r].pc = "arrived" /\ req[r].kind = "pin"
  \/ req[r].pc = "admitted" /\ req[r].play

\* After STOP_TIMEOUT the wait for requests in progress ends.  By then those
\* that only wait for locks have ended; what waits for its client, or for a file
\* to be found, may not have.
WaitsForClient(r) == AwaitsBody(r) \/ req[r].pc \in {"playing", "serving"}

WaitEnds ==
  /\ main.pc = "wait"
  /\ \A r \in Request : req[r].pc = "idle" \/ WaitsForClient(r)
  /\ main' = [main EXCEPT !.pc = "clear"]
  /\ UNCHANGED <<config, run, serving, sessions, plays, attempts, req, changes, kept, guesses>>

ClearSessions ==
  /\ main.pc = "clear"
  /\ main' = [main EXCEPT !.pc = "unlink"]
  /\ sessions' = AllGone
  /\ UNCHANGED <<config, run, serving, plays, attempts, req, changes, kept, guesses>>

ClearPlays ==
  /\ main.pc = "unlink"
  /\ main' = [main EXCEPT !.pc = "forgive"]
  /\ plays' = <<>>
  /\ UNCHANGED <<config, run, serving, sessions, attempts, req, changes, kept, guesses>>

ClearAttempts ==
  /\ main.pc = "forgive"
  /\ main' = IF main.restart THEN [main EXCEPT !.pc = "start"] ELSE MainIdle
  /\ attempts' = [a \in Addr |-> NoAttempts]
  /\ guesses' = [a \in Addr |-> 0]
  /\ UNCHANGED <<config, run, serving, sessions, plays, req, changes, kept>>

-----------------------------------------------------------------------------
(* Requests.  A request is accepted, then takes its locks one at a time. *)

Arrive(r, what) ==
  /\ serving
  /\ req[r].pc = "idle" /\ what.kind \in Asks[r]
  /\ req' = [req EXCEPT ![r] = [what EXCEPT !.pc = "arrived", !.run = run,
                                            !.fresh = (main.pc = "idle")]]
  /\ UNCHANGED <<config, main, run, serving, sessions, plays, attempts, changes, kept, guesses>>

\* GET /api/session, with a session token or without
AskSession(r, i) == Arrive(r, [Idle EXCEPT !.kind = "info", !.sid = i])
\* POST /api/auth, with the PIN of the moment or, as number 0, any other
GivePin(r, n) == Arrive(r, [Idle EXCEPT !.kind = "pin", !.pin = n])
\* GET /s/<token>, with the link of the moment or any other
OpenLink(r, s, n) == Arrive(r, [Idle EXCEPT !.kind = "link", !.share = s, !.token = n])
\* POST /api/logout
AskLogout(r, i) == Arrive(r, [Idle EXCEPT !.kind = "logout", !.sid = i])
\* A request for a file of a share, or for a play link to one, with a session
\* token, the peer's token or nothing
AskShare(r, kind, i, s, play) ==
  Arrive(r, [Idle EXCEPT !.kind = kind, !.sid = i, !.share = s, !.play = play])
\* GET /play/<token> and /playlist/<token>; whose token it is shows when it is
\* resolved
OpenPlay(r) == Arrive(r, [Idle EXCEPT !.kind = "stream"])

Step(r, to) == req' = [req EXCEPT ![r] = to]
Done(r) == Step(r, Idle)
NoneElse == UNCHANGED <<config, main, run, serving, plays, changes, kept>>
OnlyReq == NoneElse /\ UNCHANGED <<sessions, attempts, guesses>>

\* The client goes away while its request's body is awaited, or the body is
\* refused.
GoAway(r) ==
  /\ AwaitsBody(r)
  /\ Done(r) /\ OnlyReq

\* session_info and auth_pin take a copy of the settings.
ReadSettings(r) ==
  /\ req[r].pc = "arrived" /\ req[r].kind \in {"info", "pin"}
  /\ IF req[r].kind = "pin" /\ ~settings.pinOn
     THEN Step(r, [req[r] EXCEPT !.pc = "mint"])
     ELSE Step(r, [req[r] EXCEPT !.pc = "seen", !.seen = settings])
  /\ OnlyReq

\* session_info drops what has expired, then looks its session up.  Play links
\* that have expired, which it sweeps as well, are absent already.
Lookup(r) ==
  /\ req[r].pc = "seen" /\ req[r].kind = "info"
  /\ sessions' = [i \in Sid |-> IF Live(i) /\ sessions[i].old THEN Gone ELSE sessions[i]]
  /\ IF (req[r].sid \in Sid /\ sessions'[req[r].sid] \notin {Unminted, Gone}) \/ req[r].seen.pinOn
     THEN Done(r)
     ELSE Step(r, [req[r] EXCEPT !.pc = "mint", !.seen = NoSettings])
  /\ NoneElse /\ UNCHANGED <<attempts, guesses>>

WrongLate(at) == IF at.failures + 1 > MaxAttempts THEN [failures |-> 0, locked |-> TRUE]
                 ELSE [at EXCEPT !.failures = @ + 1]   \* mutant

Wrong(at) == IF at.failures + 1 >= MaxAttempts THEN [failures |-> 0, locked |-> TRUE]
             ELSE [at EXCEPT !.failures = @ + 1]

\* check_pin: a locked address is not heard, whatever it guesses.
CheckPin(r) ==
  LET a     == Ip[r]
      right == req[r].pin = req[r].seen.pin
  IN  /\ req[r].pc = "seen" /\ req[r].kind = "pin"
      /\ IF attempts[a].locked THEN Done(r) /\ UNCHANGED <<attempts, guesses>>
         ELSE IF right
         THEN /\ Step(r, [req[r] EXCEPT !.pc = "mint", !.seen = NoSettings])
              /\ attempts' = [attempts EXCEPT ![a] = NoAttempts]
              /\ guesses' = [guesses EXCEPT ![a] = 0]
         ELSE /\ Done(r)
              /\ attempts' = [attempts EXCEPT ![a] = Wrong(@)]
              /\ guesses' = [guesses EXCEPT ![a] = @ + 1]
      /\ NoneElse /\ UNCHANGED sessions

\* share_link looks the token up among the shares that can be served.
FindShare(r) ==
  /\ req[r].pc = "arrived" /\ req[r].kind = "link"
  /\ IF Open(req[r].share) /\ registry.token[req[r].share] = req[r].token
     THEN Step(r, [req[r] EXCEPT !.pc = "mint", !.scope = [share |-> req[r].share, token |-> req[r].token]])
     ELSE Done(r)
  /\ OnlyReq

\* create_session, and the answer with its cookie
CreateSession(r, i) ==
  /\ req[r].pc = "mint"
  /\ sessions[i] = Unminted
  /\ sessions' = [sessions EXCEPT ![i] = [scope |-> req[r].scope, old |-> FALSE, run |-> req[r].run]]
  /\ Done(r)
  /\ NoneElse /\ UNCHANGED <<attempts, guesses>>

\* The bound on tokens: with all of Sid minted the session is not kept.
NoTokenLeft(r) ==
  /\ req[r].pc = "mint"
  /\ \A i \in Sid : sessions[i] # Unminted
  /\ Done(r) /\ OnlyReq

Logout(r) ==
  /\ req[r].pc = "arrived" /\ req[r].kind = "logout"
  /\ sessions' = IF req[r].sid \in Sid /\ Live(req[r].sid)
                 THEN [sessions EXCEPT ![req[r].sid] = Gone] ELSE sessions
  /\ Done(r)
  /\ NoneElse /\ UNCHANGED <<attempts, guesses>>

\* The extractor looks for the peer's token first.
FindPeer(r) ==
  /\ req[r].pc = "arrived" /\ req[r].kind = "peer"
  /\ Step(r, [req[r] EXCEPT !.pc = IF peer = "none" THEN "anyone" ELSE "known", !.found = peer])
  /\ OnlyReq

AdmittedKnown(p) == settings.browse   \* mutant

\* A peer that is blocked, or may not browse, is turned away here.
Admitted(p) == settings.browse /\ p # "blocked"

AdmitPeer(r) ==
  /\ req[r].pc = "known"
  /\ IF Admitted(req[r].found) THEN Step(r, [req[r] EXCEPT !.pc = "admitted", !.found = "none"])
     ELSE Done(r)
  /\ OnlyReq

\* touch_session, dropping the session if it has expired
TouchSession(r) ==
  LET i == req[r].sid IN
  /\ req[r].pc = "arrived" /\ req[r].kind = "get"
  /\ IF i \in Sid /\ Live(i) /\ ~sessions[i].old
     THEN /\ Step(r, [req[r] EXCEPT !.pc = "admitted", !.sid = NoSid,
                                           !.scope = sessions[i].scope])
          /\ UNCHANGED sessions
     ELSE /\ Step(r, [req[r] EXCEPT !.pc = "anyone", !.sid = NoSid])
          /\ sessions' = IF i \in Sid /\ Live(i) THEN [sessions EXCEPT ![i] = Gone] ELSE sessions
  /\ NoneElse /\ UNCHANGED <<attempts, guesses>>

\* With the PIN off any request passes as Full, for this once.
AdmitAnyone(r) ==
  /\ req[r].pc = "anyone"
  /\ IF ~settings.pinOn THEN Step(r, [req[r] EXCEPT !.pc = "admitted"]) ELSE Done(r)
  /\ OnlyReq

\* scoped_share; what follows reads files, or looks the file of a play link up
Serve(r) ==
  LET s == req[r].share IN
  /\ req[r].pc = "admitted"
  /\ IF req[r].scope.share \in {AnyShare, s} /\ Open(s)
     THEN Step(r, [req[r] EXCEPT !.pc = IF req[r].play THEN "playing" ELSE "serving"])
     ELSE Done(r)
  /\ OnlyReq

\* create_play_token: in a full table the link that expires first makes room.
Room == IF Len(plays) >= PlayCap THEN Tail(plays) ELSE plays

CreatePlay(r) ==
  /\ req[r].pc = "playing"
  /\ plays' = Append(Room, req[r].share)
  /\ Done(r)
  /\ UNCHANGED <<config, main, run, serving, sessions, attempts, changes, kept, guesses>>

\* resolve_file finds no file.
NoFile(r) ==
  /\ req[r].pc = "playing"
  /\ Done(r) /\ OnlyReq

\* play_target: first the link, if the token is of one that works; then, under
\* another lock, its share.
ResolvePlay(r) ==
  /\ req[r].pc = "arrived" /\ req[r].kind = "stream"
  /\ \/ \E i \in DOMAIN plays :
          Step(r, [req[r] EXCEPT !.pc = "resolved", !.share = plays[i]])
     \/ Done(r)
  /\ OnlyReq

FindPlayed(r) ==
  /\ req[r].pc = "resolved"
  /\ IF Open(req[r].share) THEN Step(r, [req[r] EXCEPT !.pc = "serving"]) ELSE Done(r)
  /\ OnlyReq

Served(r) ==
  /\ req[r].pc = "serving"
  /\ Done(r) /\ OnlyReq

-----------------------------------------------------------------------------
(* Time. *)

SessionAges(i) ==
  /\ Live(i) /\ ~sessions[i].old
  /\ sessions' = [sessions EXCEPT ![i].old = TRUE]
  /\ UNCHANGED <<config, main, run, serving, plays, attempts, req, changes, kept, guesses>>

PlayExpires ==
  /\ plays # <<>>
  /\ plays' = Tail(plays)
  /\ UNCHANGED <<config, main, run, serving, sessions, attempts, req, changes, kept, guesses>>

LockoutEnds(a) ==
  /\ attempts[a].locked
  /\ attempts' = [attempts EXCEPT ![a].locked = FALSE]
  /\ guesses' = [guesses EXCEPT ![a] = 0]
  /\ UNCHANGED <<config, main, run, serving, sessions, plays, req, changes, kept>>

-----------------------------------------------------------------------------
Command ==
  \/ \E on \in BOOLEAN : SetPinEnabled(on)
  \/ GeneratePin
  \/ \E browse, rebind \in BOOLEAN : SaveConfig(browse, rebind)
  \/ \E s \in Share : \/ \E on \in BOOLEAN : SetShareEnabled(s, on)
                      \/ RemoveShare(s) \/ RegenerateToken(s)
  \/ \E p \in PeerState : SetPeer(p)
  \/ \E i \in Sid : RevokeSession(i)
  \/ RevokeAllSessions

Apply == ApplySettings \/ ApplyShares \/ ApplyPeers \/ PruneStaleSessions

Lifecycle ==
  \/ StartServer \/ StartFails
  \/ \E restart \in BOOLEAN : StopServer(restart)
  \/ WaitEnds \/ ClearSessions \/ ClearPlays \/ ClearAttempts

Ask(r) ==
  \/ \E i \in Sid \cup {NoSid} : AskSession(r, i)
  \/ \E n \in {0, settings.pin} : GivePin(r, n)
  \/ \E s \in Share : \E n \in {0, registry.token[s]} : OpenLink(r, s, n)
  \/ \E s \in Share, play \in BOOLEAN :
       \/ AskShare(r, "peer", NoSid, s, play)
       \/ \E i \in Sid \cup {NoSid} : AskShare(r, "get", i, s, play)
  \/ OpenPlay(r)
  \/ \E i \in Sid : AskLogout(r, i)

Handle(r) ==
  \/ GoAway(r) \/ ReadSettings(r) \/ Lookup(r) \/ CheckPin(r) \/ FindShare(r)
  \/ \E i \in Sid : CreateSession(r, i)
  \/ NoTokenLeft(r)
  \/ Logout(r) \/ FindPeer(r) \/ AdmitPeer(r) \/ TouchSession(r) \/ AdmitAnyone(r)
  \/ Serve(r) \/ Served(r) \/ CreatePlay(r) \/ NoFile(r) \/ ResolvePlay(r) \/ FindPlayed(r)

Next ==
  \/ Command \/ Apply \/ Lifecycle
  \/ \E r \in Request : Ask(r) \/ Handle(r)
  \/ \E i \in Sid : SessionAges(i)
  \/ PlayExpires
  \/ \E a \in Addr : LockoutEnds(a)

Spec == Init /\ [][Next]_vars

-----------------------------------------------------------------------------
(* Properties. *)

RequestState ==
  [pc : {"idle", "arrived", "seen", "mint", "known", "anyone", "admitted", "playing",
         "resolved", "serving"},
   kind : Kind \cup {"none"}, run : Nat,
   sid : Sid \cup {NoSid}, pin : Nat, share : Share \cup {AnyShare}, token : Nat,
   play : BOOLEAN, seen : ServerSettings, found : PeerState, scope : Scope, fresh : BOOLEAN]

\* Every variable holds a value of its kind; an address that is not locked out
\* has fewer failures than lock it out.
TypeOK ==
  /\ settings \in ServerSettings /\ registry \in ShareRegistry /\ peer \in PeerState
  /\ main \in [pc : {"idle", "settings", "shares", "peers", "prune", "stop", "wait",
                     "clear", "unlink", "forgive", "start"}, next : Config, restart : BOOLEAN]
  /\ run \in Nat /\ serving \in BOOLEAN
  /\ sessions \in [Sid -> Session \cup {Unminted, Gone}]
  /\ plays \in PlayTokens
  /\ attempts \in [Addr -> [failures : 0..(MaxAttempts - 1), locked : BOOLEAN]]
  /\ req \in [Request -> RequestState]
  /\ changes \in Nat
  /\ kept \in SUBSET Sid /\ guesses \in [Addr -> Nat]

\* config.rs:217: a change takes "effect on the next request with no server
\* restart".  A request that arrives once a command has returned is served, also
\* through a play link minted before, and given a session or a play link, only by
\* what the configuration then says: the share is open, the PIN right or off, the
\* link the present one, the peer paired, not blocked and allowed to browse.
ConfigTakesEffect == \A r \in Request : req[r].fresh =>
  /\ req[r].pc \in {"serving", "playing"} => Open(req[r].share)
  /\ req[r].pc \in {"serving", "playing"} /\ req[r].kind = "peer" =>
       IF peer = "none" THEN ~settings.pinOn ELSE peer = "paired" /\ settings.browse
  /\ req[r].pc = "mint" =>
       IF req[r].kind = "link" THEN Current(req[r].scope)
       ELSE ~settings.pinOn \/ (req[r].kind = "pin" /\ req[r].pin = settings.pin)

\* tasks.rs:500: once a command has returned, no session that was there before
\* it pruned holds a link that was replaced, switched off or removed.
NoneStaleKept ==
  main.pc \notin {"shares", "peers", "prune"} =>
    \A i \in kept : Live(i) => Current(sessions[i].scope)

\* README.md:24: wrong PINs are rate-limited.  However many requests of one
\* address are handled at once, and whatever is reset in between, no more than
\* max_pin_attempts of its wrong guesses are heard before it is locked out.
GuessesBounded == \A a \in Addr : guesses[a] <= MaxAttempts

\* server.rs:386: "Sessions are per-server-run: stopping the server logs
\* everyone out".  A session that is accepted belongs to the present run.
SessionsArePerRun == serving => \A i \in Sid : Live(i) => sessions[i].run = run

\* What is true of that sentence: only a request whose body may keep it waiting
\* outlives the run in which it arrived, a PIN check or one for a play link.  While
\* the server accepts requests, whatever else still decides whom to let in, and
\* every session opened through a share link, is of the present run.
HasBody(x) == x.kind = "pin" \/ x.play
Deciding(x) == x.pc \notin {"idle", "serving"} /\ ~HasBody(x)
OnlyBodiesOutlive == serving =>
  /\ \A r \in Request : Deciding(req[r]) => req[r].run = run
  /\ \A i \in Sid : Live(i) /\ sessions[i].scope # Full => sessions[i].run = run

=============================================================================
