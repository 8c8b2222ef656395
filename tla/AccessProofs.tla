---------------------------- MODULE AccessProofs ----------------------------
(***************************************************************************)
(* Proofs about Access for any shares, addresses, requests and bounds:     *)
(* types, that a change of the configuration decides about every request   *)
(* that arrives after it, that pruning leaves no stale session, and that   *)
(* no address is heard more often than it may guess.                       *)
(***************************************************************************)
EXTENDS Access, TLAPS

KeptMinted == \A i \in kept : sessions[i] # Unminted

\* The failures on record are the guesses that were heard.
GuessesCounted == \A a \in Addr :
  /\ guesses[a] = IF attempts[a].locked THEN MaxAttempts ELSE attempts[a].failures
  /\ attempts[a].locked => attempts[a].failures = 0

Applying == main.pc \in {"settings", "shares", "peers", "prune"}

\* A peer passes as a paired one that may browse, or as anyone with the PIN off.
PeerPasses == IF peer = "none" THEN ~settings.pinOn ELSE peer = "paired" /\ settings.browse

\* What a fresh request has read is still so, however far it has got.
FreshRead(x) == x.fresh =>
  /\ ~Applying
  /\ x.pc = "seen" => x.seen = settings
  /\ x.pc = "known" => x.found = peer /\ peer # "none"
  /\ x.pc = "anyone" /\ x.kind = "peer" => peer = "none"
  /\ x.pc \in {"admitted", "playing", "serving"} /\ x.kind = "peer" => PeerPasses
  /\ x.pc = "resolved" => x.kind = "stream"
  /\ x.pc \in {"playing", "serving"} => Open(x.share)
  /\ x.pc = "mint" =>
       IF x.kind = "link" THEN Current(x.scope)
       ELSE ~settings.pinOn \/ (x.kind = "pin" /\ x.pin = settings.pin)

FreshReads == \A r \in Request : FreshRead(req[r])

Inv == TypeOK /\ KeptMinted /\ NoneStaleKept /\ GuessesCounted /\ FreshReads
MainTypes == [pc : {"idle", "settings", "shares", "peers", "prune", "stop", "wait",
                    "clear", "unlink", "forgive", "start"}, next : Config, restart : BOOLEAN]
Attempts == [failures : 0..(MaxAttempts - 1), locked : BOOLEAN]

-----------------------------------------------------------------------------
(* Values. *)

LEMMA IdleTypes ==
  /\ Idle \in RequestState /\ MainIdle \in MainTypes
  /\ NoSettings \in ServerSettings /\ Full \in Scope
<1>1. NoSettings \in ServerSettings /\ Full \in Scope
  BY DEF NoSettings, ServerSettings, Full, Scope
<1>2. NoConfig \in Config
  BY <1>1 DEF NoConfig, Config, ShareRegistry, PeerState
<1>3. MainIdle \in MainTypes
  BY <1>2 DEF MainIdle, MainTypes
<1>4. Idle \in RequestState
  BY <1>1 DEF Idle, RequestState, PeerState
<1> QED BY <1>1, <1>3, <1>4

\* A live session is a session: its scope is one.
LEMMA LiveTypes ==
  ASSUME TypeOK, NEW i \in Sid, Live(i)
  PROVE  sessions[i] \in Session /\ sessions[i].scope \in Scope
<1>1. sessions[i] \in Session
  BY DEF TypeOK, Live
<1> QED BY <1>1 DEF Session

LEMMA NoAttemptsTypes == NoAttempts \in Attempts
  BY AccessAssumption DEF NoAttempts, Attempts

\* The limiter keeps its failures below the limit and locks when they reach it.
LEMMA WrongFacts ==
  ASSUME NEW at \in Attempts, ~at.locked
  PROVE  /\ Wrong(at) \in Attempts
         /\ Wrong(at).locked => Wrong(at).failures = 0
         /\ (IF Wrong(at).locked THEN MaxAttempts ELSE Wrong(at).failures) = at.failures + 1
<1> USE AccessAssumption DEF Attempts, Wrong
<1>1. CASE at.failures + 1 >= MaxAttempts
  <2>1. Wrong(at) = [failures |-> 0, locked |-> TRUE]
    BY <1>1
  <2> QED BY <1>1, <2>1
<1>2. CASE ~(at.failures + 1 >= MaxAttempts)
  <2>1. Wrong(at) = [at EXCEPT !.failures = at.failures + 1]
    BY <1>2
  <2> QED BY <1>2, <2>1
<1> QED BY <1>1, <1>2

-----------------------------------------------------------------------------
LEMMA InitInv == Init => Inv
<1> SUFFICES ASSUME Init PROVE Inv
  OBVIOUS
<1> USE AccessAssumption, SessionAssumption DEF Init
<1>0. plays \in PlayTokens
  BY DEF PlayTokens
<1>1. TypeOK
  BY <1>0, StartAssumption, IdleTypes, NoAttemptsTypes DEF TypeOK, Config, MainTypes, Attempts
<1>2. KeptMinted /\ NoneStaleKept
  BY DEF KeptMinted, NoneStaleKept
<1>3. GuessesCounted
  BY DEF GuessesCounted, NoAttempts
<1>4. FreshReads
  BY DEF FreshReads, FreshRead, Idle
<1> QED BY <1>1, <1>2, <1>3, <1>4 DEF Inv

-----------------------------------------------------------------------------
(* Commands: they disturb no request, because they make all of them old.   *)

\* Nothing that a fresh request has read changes.
LEMMA FreshKept ==
  ASSUME FreshReads, UNCHANGED <<config, req>>, Applying' => Applying
  PROVE  FreshReads'
  BY DEF FreshReads, FreshRead, PeerPasses, Open, Current, config

LEMMA ChangeStep ==
  ASSUME Inv, NEW c \in Config, NEW restart \in BOOLEAN, Change(c, restart)
  PROVE  Inv'
<1> USE DEF Inv, Change, config
<1>1. TypeOK'
  <2>1. ASSUME NEW x \in RequestState PROVE [x EXCEPT !.fresh = FALSE] \in RequestState
    BY DEF RequestState
  <2>2. req' \in [Request -> RequestState]
    BY <2>1 DEF TypeOK
  <2>3. main' \in MainTypes
    BY DEF MainTypes
  <2> QED BY <2>2, <2>3 DEF TypeOK, MainTypes
<1>2. KeptMinted' /\ NoneStaleKept' /\ GuessesCounted'
  BY DEF KeptMinted, NoneStaleKept, GuessesCounted, Live, Current, Open
<1>3. \A r \in Request : req'[r].fresh = FALSE
  BY DEF TypeOK, RequestState
<1>4. FreshReads'
  BY <1>3 DEF FreshReads, FreshRead
<1> QED BY <1>1, <1>2, <1>4

LEMMA CommandStep == Inv /\ Command => Inv'
<1> SUFFICES ASSUME Inv, Command PROVE Inv'
  OBVIOUS
<1> USE DEF Inv
<1>1. Now \in Config
  BY DEF Now, Config, TypeOK
<1>2. ASSUME NEW on \in BOOLEAN, SetPinEnabled(on) PROVE Inv'
  <2>1. [Now EXCEPT !.settings.pinOn = on] \in Config
    BY <1>1 DEF Config, ServerSettings
  <2> QED BY <1>2, <2>1, ChangeStep DEF SetPinEnabled
<1>3. CASE GeneratePin
  <2>1. [Now EXCEPT !.settings.pin = @ + 1] \in Config
    BY <1>1 DEF Config, ServerSettings
  <2> QED BY <1>3, <2>1, ChangeStep DEF GeneratePin
<1>4. ASSUME NEW browse \in BOOLEAN, NEW rebind \in BOOLEAN, SaveConfig(browse, rebind)
      PROVE  Inv'
  <2>1. [Now EXCEPT !.settings.browse = browse] \in Config
    BY <1>1 DEF Config, ServerSettings
  <2>2. (rebind /\ serving) \in BOOLEAN
    OBVIOUS
  <2> QED BY <1>4, <2>1, <2>2, ChangeStep DEF SaveConfig
<1>5. ASSUME NEW s \in Share, NEW on \in BOOLEAN, SetShareEnabled(s, on) PROVE Inv'
  <2>1. [Now EXCEPT !.registry.enabled = IF on THEN @ \cup {s} ELSE @ \ {s}] \in Config
    BY <1>1 DEF Config, ShareRegistry
  <2> QED BY <1>5, <2>1, ChangeStep DEF SetShareEnabled
<1>6. ASSUME NEW s \in Share, RemoveShare(s) PROVE Inv'
  <2>1. [Now EXCEPT !.registry.token[s] = 0, !.registry.enabled = @ \ {s}] \in Config
    BY <1>1 DEF Config, ShareRegistry
  <2> QED BY <1>6, <2>1, ChangeStep DEF RemoveShare
<1>7. ASSUME NEW s \in Share, RegenerateToken(s) PROVE Inv'
  <2>1. [Now EXCEPT !.registry.token[s] = @ + 1] \in Config
    BY <1>1 DEF Config, ShareRegistry
  <2> QED BY <1>7, <2>1, ChangeStep DEF RegenerateToken
<1>8. ASSUME NEW p \in PeerState, SetPeer(p) PROVE Inv'
  <2>1. [Now EXCEPT !.peer = p] \in Config
    BY <1>1 DEF Config
  <2> QED BY <1>8, <2>1, ChangeStep DEF SetPeer
<1>9. ASSUME NEW i \in Sid, RevokeSession(i) PROVE Inv'
  <2> USE <1>9, SessionAssumption DEF RevokeSession
  <2>1. TypeOK'
    BY DEF TypeOK, config
  <2>2. KeptMinted' /\ NoneStaleKept' /\ GuessesCounted'
    BY DEF KeptMinted, NoneStaleKept, GuessesCounted, Live, Current, Open, config, TypeOK
  <2> QED BY <2>1, <2>2, FreshKept DEF Applying
<1>10. CASE RevokeAllSessions
  <2> USE <1>10, SessionAssumption DEF RevokeAllSessions, AllGone
  <2>1. TypeOK'
    BY DEF TypeOK, config
  <2>2. KeptMinted' /\ NoneStaleKept' /\ GuessesCounted'
    BY DEF KeptMinted, NoneStaleKept, GuessesCounted, Live, Current, Open, config, TypeOK
  <2> QED BY <2>1, <2>2, FreshKept DEF Applying
<1> QED BY <1>2, <1>3, <1>4, <1>5, <1>6, <1>7, <1>8, <1>9, <1>10 DEF Command

\* While a command applies its changes no request in progress is fresh.
LEMMA ApplyStep == Inv /\ Apply => Inv'
<1> SUFFICES ASSUME Inv, Apply PROVE Inv'
  OBVIOUS
<1> USE DEF Inv
<1>1. Applying /\ req' = req
  BY DEF Apply, ApplySettings, ApplyShares, ApplyPeers, PruneStaleSessions, Applying
<1>2. \A r \in Request : ~req[r].fresh
  BY <1>1 DEF FreshReads, FreshRead
<1>3. FreshReads'
  BY <1>1, <1>2 DEF FreshReads, FreshRead
<1>4. ASSUME ApplySettings \/ ApplyShares \/ ApplyPeers
      PROVE  TypeOK' /\ KeptMinted' /\ NoneStaleKept' /\ GuessesCounted'
  <2> USE <1>4 DEF ApplySettings, ApplyShares, ApplyPeers
  <2>1. TypeOK'
    BY DEF TypeOK, Config
  <2>2. main'.pc \in {"shares", "peers", "prune"}
    BY DEF TypeOK
  <2>3. KeptMinted' /\ NoneStaleKept' /\ GuessesCounted'
    BY <2>2 DEF KeptMinted, NoneStaleKept, GuessesCounted
  <2> QED BY <2>1, <2>3
<1>5. ASSUME PruneStaleSessions
      PROVE  TypeOK' /\ KeptMinted' /\ NoneStaleKept' /\ GuessesCounted'
  <2> USE <1>5, SessionAssumption DEF PruneStaleSessions, config
  <2>1. Then \in MainTypes
    BY IdleTypes DEF Then, TypeOK, MainTypes
  <2>2. TypeOK'
    BY <2>1 DEF TypeOK, MainTypes
  <2>3. ASSUME NEW i \in Sid, Live(i)'
        PROVE  sessions'[i] = sessions[i] /\ Current(sessions[i].scope)
    <3>1. sessions'[i] = sessions[i] /\ Live(i)
      BY <2>3 DEF Live
    <3>2. sessions[i].scope = Full \/ ~Stale(sessions[i].scope)
      BY <2>3, <3>1 DEF Live
    <3> QED BY <3>1, <3>2 DEF Stale, Current
  <2>4. \A i \in kept' : i \in Sid /\ Live(i)'
    BY DEF Live
  <2>5. KeptMinted'
    BY <2>4 DEF KeptMinted, Live
  <2>6. NoneStaleKept'
    BY <2>3, <2>4 DEF NoneStaleKept, Current, Open
  <2>7. GuessesCounted'
    BY DEF GuessesCounted
  <2> QED BY <2>2, <2>5, <2>6, <2>7
<1> QED BY <1>3, <1>4, <1>5 DEF Apply

LEMMA LifecycleStep == Inv /\ Lifecycle => Inv'
<1> SUFFICES ASSUME Inv, Lifecycle PROVE Inv'
  OBVIOUS
<1> USE SessionAssumption DEF Inv, config
<1>1. MainIdle \in MainTypes /\ main \in MainTypes /\ NoAttempts \in Attempts
  BY IdleTypes, NoAttemptsTypes DEF TypeOK, MainTypes
<1>2. CASE StartServer \/ StartFails
  <2>1. /\ main' = MainIdle /\ main.pc \in {"idle", "start"}
        /\ (run' = run + 1 /\ serving' = TRUE) \/ UNCHANGED <<run, serving>>
        /\ UNCHANGED <<settings, registry, peer, sessions, plays, attempts, req, changes, kept,
                       guesses>>
    BY <1>2 DEF StartServer, StartFails
  <2>2. main' \in MainTypes
    BY <1>1, <2>1
  <2>3. run' \in Nat
    BY <2>1 DEF TypeOK
  <2>4. serving' \in BOOLEAN
    BY <2>1, Zenon DEF TypeOK
  <2>5. TypeOK'
    BY <2>1, <2>2, <2>3, <2>4 DEF TypeOK, MainTypes
  <2>6. KeptMinted' /\ NoneStaleKept' /\ GuessesCounted'
    BY <2>1 DEF KeptMinted, NoneStaleKept, GuessesCounted, Live, Current, Open
  <2> QED BY <2>1, <2>5, <2>6, FreshKept DEF Applying, MainIdle
<1>3. ASSUME NEW restart \in BOOLEAN, StopServer(restart) PROVE Inv'
  <2> USE <1>3 DEF StopServer
  <2>1. main' \in MainTypes /\ main'.pc \in {"wait", "clear"} /\ main.pc \in {"idle", "stop"}
    BY <1>1 DEF MainTypes
  <2>2. TypeOK'
    BY <2>1 DEF TypeOK, MainTypes
  <2>3. KeptMinted' /\ NoneStaleKept' /\ GuessesCounted'
    BY <2>1 DEF KeptMinted, NoneStaleKept, GuessesCounted, Live, Current, Open
  <2> QED BY <2>1, <2>2, <2>3, FreshKept DEF Applying
<1>4. CASE WaitEnds
  <2> USE <1>4 DEF WaitEnds
  <2>1. main' \in MainTypes /\ main'.pc = "clear"
    BY <1>1 DEF MainTypes
  <2>2. TypeOK'
    BY <2>1 DEF TypeOK, MainTypes
  <2>3. KeptMinted' /\ NoneStaleKept' /\ GuessesCounted'
    BY <2>1 DEF KeptMinted, NoneStaleKept, GuessesCounted, Live, Current, Open
  <2> QED BY <2>1, <2>2, <2>3, FreshKept DEF Applying
<1>5. CASE ClearSessions
  <2> USE <1>5 DEF ClearSessions
  <2>1. main' \in MainTypes /\ main'.pc = "unlink"
    BY <1>1 DEF MainTypes
  <2>2. sessions' \in [Sid -> Session \cup {Unminted, Gone}]
    BY DEF TypeOK, AllGone
  <2>3. TypeOK'
    BY <2>1, <2>2 DEF TypeOK, MainTypes
  <2>4. \A i \in Sid : ~Live(i)' /\ (sessions[i] # Unminted => sessions'[i] # Unminted)
    BY DEF AllGone, Live
  <2>5. KeptMinted' /\ NoneStaleKept' /\ GuessesCounted'
    BY <2>4 DEF KeptMinted, NoneStaleKept, GuessesCounted, TypeOK
  <2> QED BY <2>1, <2>3, <2>5, FreshKept DEF Applying
<1>6. CASE ClearAttempts
  <2> USE <1>6 DEF ClearAttempts
  <2>1. main' \in MainTypes /\ main'.pc \in {"start", "idle"} /\ main.pc = "forgive"
    BY <1>1 DEF MainTypes, MainIdle
  <2>2. attempts' \in [Addr -> Attempts]
    BY <1>1
  <2>3. TypeOK'
    BY <2>1, <2>2 DEF TypeOK, MainTypes, Attempts
  <2>4. KeptMinted' /\ NoneStaleKept'
    BY <2>1 DEF KeptMinted, NoneStaleKept, Live, Current, Open
  <2>5. GuessesCounted'
    BY DEF GuessesCounted, NoAttempts
  <2> QED BY <2>1, <2>3, <2>4, <2>5, FreshKept DEF Applying
<1>7. CASE ClearPlays
  <2> USE <1>7 DEF ClearPlays
  <2>1. main' \in MainTypes /\ main'.pc = "forgive" /\ plays' \in PlayTokens
    BY <1>1 DEF MainTypes, PlayTokens
  <2>2. TypeOK'
    BY <2>1 DEF TypeOK, MainTypes
  <2>3. KeptMinted' /\ NoneStaleKept' /\ GuessesCounted'
    BY <2>1 DEF KeptMinted, NoneStaleKept, GuessesCounted, Live, Current, Open
  <2> QED BY <2>1, <2>2, <2>3, FreshKept DEF Applying
<1> QED BY <1>2, <1>3, <1>4, <1>5, <1>6, <1>7 DEF Lifecycle

-----------------------------------------------------------------------------
(* Requests. *)

\* What a step of a request has to show of the request it leaves behind.
LEMMA RequestStep ==
  ASSUME Inv, NEW r \in Request, NEW to \in RequestState, FreshRead(to), Step(r, to),
         UNCHANGED <<config, main>>
  PROVE  req' \in [Request -> RequestState] /\ FreshReads'
<1>1. req' \in [Request -> RequestState]
  BY DEF Inv, TypeOK, Step
<1>2. ASSUME NEW q \in Request PROVE FreshRead(req'[q]) /\ req'[q] \in RequestState
  <2>1. req'[q] = to \/ req'[q] = req[q]
    BY DEF Step, Inv, TypeOK
  <2> QED BY <1>1, <2>1 DEF Inv, FreshReads
<1>3. ASSUME NEW x \in RequestState, FreshRead(x) PROVE FreshRead(x)'
  BY <1>3 DEF FreshRead, Applying, PeerPasses, Open, Current, config
<1>4. \A q \in Request : FreshRead(req[q])'
  BY <1>2, <1>3 DEF FreshRead, Applying, PeerPasses, Open, Current, config
<1> QED BY <1>1, <1>4 DEF FreshReads

LEMMA IdleRequest == Idle \in RequestState /\ FreshRead(Idle)
  BY IdleTypes DEF Idle, FreshRead

\* A step that changes requests alone keeps the rest of the invariant.
LEMMA OnlyRequestStep ==
  ASSUME Inv, OnlyReq, req' \in [Request -> RequestState], FreshReads'
  PROVE  Inv'
<1> USE DEF Inv, OnlyReq, NoneElse, config
<1>1. TypeOK'
  BY DEF TypeOK
<1>2. KeptMinted' /\ NoneStaleKept' /\ GuessesCounted'
  BY DEF KeptMinted, NoneStaleKept, GuessesCounted, Live, Current, Open
<1> QED BY <1>1, <1>2

\* A step that only takes sessions away, or leaves them, keeps them right.
LEMMA SessionsLeave ==
  ASSUME Inv, UNCHANGED <<config, main, kept>>,
         sessions' \in [Sid -> Session \cup {Unminted, Gone}],
         \A i \in Sid : sessions'[i] = sessions[i] \/ sessions'[i] = Gone
  PROVE  KeptMinted' /\ NoneStaleKept'
  BY SessionAssumption
     DEF Inv, TypeOK, KeptMinted, NoneStaleKept, Live, Current, Open, config

LEMMA OnlyRequestTo ==
  ASSUME Inv, NEW r \in Request, NEW to \in RequestState, FreshRead(to), Step(r, to), OnlyReq
  PROVE  Inv'
<1>1. UNCHANGED <<config, main>>
  BY DEF OnlyReq, NoneElse, config
<1> QED BY <1>1, RequestStep, OnlyRequestStep

\* A request that arrives while no command is applying is fresh.
LEMMA AskStep ==
  ASSUME Inv, NEW r \in Request, Ask(r)
  PROVE  Inv'
<1>1. ASSUME NEW what \in RequestState, Arrive(r, what) PROVE Inv'
  <2> DEFINE to == [what EXCEPT !.pc = "arrived", !.run = run, !.fresh = (main.pc = "idle")]
  <2>1. to \in RequestState
    BY DEF Inv, TypeOK, RequestState
  <2>2. to.pc = "arrived" /\ (to.fresh => main.pc = "idle")
    BY DEF RequestState
  <2>3. FreshRead(to)
    BY <2>2 DEF FreshRead, Applying
  <2>4. OnlyReq /\ Step(r, to)
    BY <1>1 DEF Arrive, Step, OnlyReq, NoneElse
  <2> HIDE DEF to
  <2> QED BY <2>1, <2>3, <2>4, OnlyRequestTo
<1>2. ASSUME NEW kind \in Kind, NEW i \in Sid \cup {NoSid}, NEW n \in Nat,
             NEW s \in Share \cup {AnyShare}, NEW play \in BOOLEAN
      PROVE  /\ [Idle EXCEPT !.kind = kind, !.sid = i] \in RequestState
             /\ [Idle EXCEPT !.kind = kind, !.pin = n] \in RequestState
             /\ [Idle EXCEPT !.kind = kind, !.share = s, !.token = n] \in RequestState
             /\ [Idle EXCEPT !.kind = kind, !.sid = i, !.share = s, !.play = play]
                  \in RequestState
             /\ [Idle EXCEPT !.kind = kind] \in RequestState
  BY IdleTypes DEF RequestState
<1>3. /\ {"info", "pin", "link", "get", "peer", "stream", "logout"} \subseteq Kind
      /\ 0 \in Nat /\ settings.pin \in Nat /\ \A s \in Share : registry.token[s] \in Nat
  BY DEF Kind, Inv, TypeOK, ServerSettings, ShareRegistry
<1>4. ASSUME NEW i \in Sid \cup {NoSid}, AskSession(r, i) PROVE Inv'
  <2>1. [Idle EXCEPT !.kind = "info", !.sid = i] \in RequestState
    BY <1>2, <1>3
  <2> QED BY <1>1, <1>4, <2>1 DEF AskSession
<1>5. ASSUME NEW n \in {0, settings.pin}, GivePin(r, n) PROVE Inv'
  <2>1. [Idle EXCEPT !.kind = "pin", !.pin = n] \in RequestState
    BY <1>2, <1>3
  <2> QED BY <1>1, <1>5, <2>1 DEF GivePin
<1>6. ASSUME NEW s \in Share, NEW n \in {0, registry.token[s]}, OpenLink(r, s, n) PROVE Inv'
  <2>1. [Idle EXCEPT !.kind = "link", !.share = s, !.token = n] \in RequestState
    BY <1>2, <1>3
  <2> QED BY <1>1, <1>6, <2>1 DEF OpenLink
<1>7. ASSUME NEW s \in Share, NEW i \in Sid \cup {NoSid}, NEW kind \in {"get", "peer"},
             NEW play \in BOOLEAN, AskShare(r, kind, i, s, play)
      PROVE  Inv'
  <2>1. [Idle EXCEPT !.kind = kind, !.sid = i, !.share = s, !.play = play] \in RequestState
    BY <1>2, <1>3
  <2> QED BY <1>1, <1>7, <2>1 DEF AskShare
<1>8. ASSUME NEW i \in Sid, AskLogout(r, i) PROVE Inv'
  <2>1. [Idle EXCEPT !.kind = "logout", !.sid = i] \in RequestState
    BY <1>2, <1>3
  <2> QED BY <1>1, <1>8, <2>1 DEF AskLogout
<1>9. CASE OpenPlay(r)
  <2>1. [Idle EXCEPT !.kind = "stream"] \in RequestState
    BY <1>2, <1>3
  <2> QED BY <1>1, <1>9, <2>1 DEF OpenPlay
<1> QED BY <1>4, <1>5, <1>6, <1>7, <1>8, <1>9 DEF Ask

\* The steps that read one part of the configuration and go on, or end.
LEMMA ReadStep ==
  ASSUME Inv, NEW r \in Request,
         \/ GoAway(r) \/ ReadSettings(r) \/ FindShare(r) \/ NoTokenLeft(r) \/ FindPeer(r)
         \/ AdmitPeer(r) \/ AdmitAnyone(r) \/ Serve(r) \/ Served(r) \/ NoFile(r)
         \/ ResolvePlay(r) \/ FindPlayed(r)
  PROVE  Inv'
<1>1. req[r] \in RequestState /\ FreshRead(req[r])
  BY DEF Inv, TypeOK, FreshReads
<1>2. settings \in ServerSettings /\ registry \in ShareRegistry /\ peer \in PeerState
  BY DEF Inv, TypeOK
<1>3. CASE Done(r) /\ OnlyReq
  BY <1>3, IdleRequest, OnlyRequestTo DEF Done
<1>4. CASE ReadSettings(r)
  <2>1. CASE req[r].kind = "pin" /\ ~settings.pinOn
    <3> DEFINE to == [req[r] EXCEPT !.pc = "mint"]
    <3>1. to \in RequestState
      BY <1>1 DEF RequestState
    <3>2. FreshRead(to)
      BY <1>1, <2>1 DEF RequestState, FreshRead
    <3> QED BY <1>4, <2>1, <3>1, <3>2, OnlyRequestTo DEF ReadSettings
  <2>2. CASE ~(req[r].kind = "pin" /\ ~settings.pinOn)
    <3> DEFINE to == [req[r] EXCEPT !.pc = "seen", !.seen = settings]
    <3>1. to \in RequestState
      BY <1>1, <1>2 DEF RequestState
    <3>2. FreshRead(to)
      BY <1>1 DEF RequestState, FreshRead
    <3> QED BY <1>4, <2>2, <3>1, <3>2, OnlyRequestTo DEF ReadSettings
  <2> QED BY <2>1, <2>2
<1>5. CASE FindShare(r) /\ ~(Done(r) /\ OnlyReq)
  <2> DEFINE to == [req[r] EXCEPT !.pc = "mint",
                                  !.scope = [share |-> req[r].share, token |-> req[r].token]]
  <2>1. /\ Open(req[r].share) /\ registry.token[req[r].share] = req[r].token
        /\ req[r].kind = "link" /\ Step(r, to) /\ OnlyReq
    BY <1>5 DEF FindShare
  <2>2. req[r].share \in Share
    BY <1>2, <2>1 DEF Open, ShareRegistry
  <2>3. to \in RequestState
    BY <1>1, <2>2 DEF RequestState, Scope
  <2>4. Current(to.scope) /\ to.pc = "mint" /\ to.kind = "link" /\ to.fresh = req[r].fresh
    BY <1>1, <2>1 DEF RequestState, Current
  <2>5. FreshRead(to)
    BY <1>1, <2>4 DEF FreshRead
  <2> QED BY <2>1, <2>3, <2>5, OnlyRequestTo
<1>6. CASE FindPeer(r)
  <2> DEFINE to == [req[r] EXCEPT !.pc = IF peer = "none" THEN "anyone" ELSE "known",
                                  !.found = peer]
  <2>1. to \in RequestState
    BY <1>1, <1>2 DEF RequestState
  <2>2. FreshRead(to)
    BY <1>1 DEF RequestState, FreshRead
  <2> QED BY <1>6, <2>1, <2>2, OnlyRequestTo DEF FindPeer
<1>7. CASE AdmitPeer(r) /\ ~(Done(r) /\ OnlyReq)
  <2> DEFINE to == [req[r] EXCEPT !.pc = "admitted", !.found = "none"]
  <2>1. settings.browse /\ req[r].found # "blocked" /\ req[r].pc = "known" /\ Step(r, to) /\ OnlyReq
    BY <1>7 DEF AdmitPeer, Admitted
  <2>2. to \in RequestState
    BY <1>1 DEF RequestState, PeerState
  <2>3. req[r].fresh => PeerPasses /\ ~Applying
    BY <1>1, <1>2, <2>1 DEF FreshRead, PeerState, PeerPasses
  <2>4. FreshRead(to)
    BY <1>1, <2>3 DEF RequestState, FreshRead
  <2> QED BY <2>1, <2>2, <2>4, OnlyRequestTo
<1>8. CASE AdmitAnyone(r) /\ ~(Done(r) /\ OnlyReq)
  <2> DEFINE to == [req[r] EXCEPT !.pc = "admitted"]
  <2>1. ~settings.pinOn /\ req[r].pc = "anyone" /\ Step(r, to) /\ OnlyReq
    BY <1>8 DEF AdmitAnyone
  <2>2. to \in RequestState
    BY <1>1 DEF RequestState
  <2>3. FreshRead(to)
    BY <1>1, <2>1 DEF RequestState, FreshRead, PeerPasses
  <2> QED BY <2>1, <2>2, <2>3, OnlyRequestTo
<1>9. CASE Serve(r) /\ ~(Done(r) /\ OnlyReq)
  <2> DEFINE to == [req[r] EXCEPT !.pc = IF req[r].play THEN "playing" ELSE "serving"]
  <2>1. Open(req[r].share) /\ req[r].pc = "admitted" /\ Step(r, to) /\ OnlyReq
    BY <1>9 DEF Serve
  <2>2. to \in RequestState
    BY <1>1 DEF RequestState
  <2>3. FreshRead(to)
    BY <1>1, <2>1 DEF RequestState, FreshRead
  <2> QED BY <2>1, <2>2, <2>3, OnlyRequestTo
<1>10. CASE ResolvePlay(r) /\ ~(Done(r) /\ OnlyReq)
  <2>1. PICK i \in DOMAIN plays :
          Step(r, [req[r] EXCEPT !.pc = "resolved", !.share = plays[i]])
    BY <1>10 DEF ResolvePlay
  <2> DEFINE to == [req[r] EXCEPT !.pc = "resolved", !.share = plays[i]]
  <2>2. plays[i] \in Share \cup {AnyShare}
    BY DEF Inv, TypeOK, PlayTokens
  <2>3. to \in RequestState
    BY <1>1, <2>2 DEF RequestState
  <2>4. req[r].kind = "stream" /\ OnlyReq
    BY <1>10 DEF ResolvePlay
  <2>5. FreshRead(to)
    BY <1>1, <2>4 DEF RequestState, FreshRead
  <2> HIDE DEF to
  <2> QED BY <2>1, <2>3, <2>4, <2>5, OnlyRequestTo DEF to
<1>11. CASE FindPlayed(r) /\ ~(Done(r) /\ OnlyReq)
  <2> DEFINE to == [req[r] EXCEPT !.pc = "serving"]
  <2>1. Open(req[r].share) /\ req[r].pc = "resolved" /\ Step(r, to) /\ OnlyReq
    BY <1>11 DEF FindPlayed
  <2>2. to \in RequestState
    BY <1>1 DEF RequestState
  <2>3. FreshRead(to)
    BY <1>1, <2>1 DEF RequestState, FreshRead
  <2> QED BY <2>1, <2>2, <2>3, OnlyRequestTo
<1> QED BY <1>3, <1>4, <1>5, <1>6, <1>7, <1>8, <1>9, <1>10, <1>11
       DEF GoAway, NoTokenLeft, Served, NoFile

\* A step that takes sessions away and goes on with its request.
LEMMA SessionsLeaveStep ==
  ASSUME Inv, NEW r \in Request, NEW to \in RequestState, FreshRead(to), Step(r, to),
         NoneElse, UNCHANGED <<attempts, guesses>>,
         sessions' \in [Sid -> Session \cup {Unminted, Gone}],
         \A i \in Sid : sessions'[i] = sessions[i] \/ sessions'[i] = Gone
  PROVE  Inv'
<1>1. UNCHANGED <<settings, registry, peer, main, run, serving, plays, changes, kept, attempts,
                  guesses>>
  BY DEF NoneElse, config
<1>2. req' \in [Request -> RequestState] /\ FreshReads'
  BY <1>1, RequestStep DEF config
<1>3. TypeOK'
  BY <1>1, <1>2 DEF Inv, TypeOK
<1>4. KeptMinted' /\ NoneStaleKept'
  BY <1>1, SessionsLeave DEF config
<1>5. GuessesCounted'
  BY <1>1 DEF Inv, GuessesCounted
<1> QED BY <1>2, <1>3, <1>4, <1>5 DEF Inv

LEMMA LookupStep ==
  ASSUME Inv, NEW r \in Request, Lookup(r)
  PROVE  Inv'
<1> DEFINE on == [req[r] EXCEPT !.pc = "mint", !.seen = NoSettings]
<1>1. req[r] \in RequestState /\ FreshRead(req[r])
  BY DEF Inv, TypeOK, FreshReads
<1>2. /\ sessions' \in [Sid -> Session \cup {Unminted, Gone}]
      /\ \A i \in Sid : sessions'[i] = sessions[i] \/ sessions'[i] = Gone
  BY DEF Lookup, Inv, TypeOK
<1>3. NoneElse /\ UNCHANGED <<attempts, guesses>> /\ req[r].pc = "seen" /\ req[r].kind = "info"
  BY DEF Lookup
<1>4. CASE Done(r)
  BY <1>2, <1>3, <1>4, IdleRequest, SessionsLeaveStep DEF Done
<1>5. CASE ~Done(r)
  <2>1. ~req[r].seen.pinOn /\ Step(r, on)
    BY <1>5 DEF Lookup
  <2>2. on \in RequestState
    BY <1>1, IdleTypes DEF RequestState
  <2>3. req[r].fresh => ~settings.pinOn /\ ~Applying
    BY <1>1, <1>3, <2>1 DEF FreshRead
  <2>4. FreshRead(on)
    BY <1>1, <1>3, <2>3 DEF RequestState, FreshRead
  <2> HIDE DEF on
  <2> QED BY <1>2, <1>3, <2>1, <2>2, <2>4, SessionsLeaveStep
<1> QED BY <1>4, <1>5

LEMMA LogoutStep ==
  ASSUME Inv, NEW r \in Request, Logout(r)
  PROVE  Inv'
<1>1. /\ sessions' \in [Sid -> Session \cup {Unminted, Gone}]
      /\ \A i \in Sid : sessions'[i] = sessions[i] \/ sessions'[i] = Gone
  BY DEF Logout, Inv, TypeOK
<1> QED BY <1>1, IdleRequest, SessionsLeaveStep DEF Logout, Done

LEMMA TouchStep ==
  ASSUME Inv, NEW r \in Request, TouchSession(r)
  PROVE  Inv'
<1> DEFINE i == req[r].sid
           in == [req[r] EXCEPT !.pc = "admitted", !.sid = NoSid, !.scope = sessions[i].scope]
           out == [req[r] EXCEPT !.pc = "anyone", !.sid = NoSid]
<1>1. req[r] \in RequestState /\ FreshRead(req[r])
  BY DEF Inv, TypeOK, FreshReads
<1>2. /\ sessions' \in [Sid -> Session \cup {Unminted, Gone}]
      /\ \A j \in Sid : sessions'[j] = sessions[j] \/ sessions'[j] = Gone
  BY DEF TouchSession, Inv, TypeOK
<1>3. NoneElse /\ UNCHANGED <<attempts, guesses>> /\ req[r].pc = "arrived" /\ req[r].kind = "get"
  BY DEF TouchSession
<1>4. CASE i \in Sid /\ Live(i) /\ Step(r, in)
  <2>1. sessions[i].scope \in Scope
    BY <1>4, LiveTypes DEF Inv
  <2>2. in \in RequestState
    BY <1>1, <2>1 DEF RequestState
  <2>3. FreshRead(in)
    BY <1>1, <1>3 DEF RequestState, FreshRead
  <2> HIDE DEF in
  <2> QED BY <1>2, <1>3, <1>4, <2>2, <2>3, SessionsLeaveStep
<1>5. CASE Step(r, out)
  <2>1. out \in RequestState
    BY <1>1 DEF RequestState
  <2>2. FreshRead(out)
    BY <1>1, <1>3 DEF RequestState, FreshRead
  <2> HIDE DEF out
  <2> QED BY <1>2, <1>3, <1>5, <2>1, <2>2, SessionsLeaveStep
<1> QED BY <1>4, <1>5 DEF TouchSession

\* A heard guess is counted once, in the limiter and by the ghost.
LEMMA CheckPinStep ==
  ASSUME Inv, NEW r \in Request, CheckPin(r)
  PROVE  Inv'
<1> DEFINE a == Ip[r]
           on == [req[r] EXCEPT !.pc = "mint", !.seen = NoSettings]
<1>1. req[r] \in RequestState /\ FreshRead(req[r])
  BY DEF Inv, TypeOK, FreshReads
<1>2. /\ a \in Addr /\ attempts \in [Addr -> Attempts] /\ guesses \in [Addr -> Nat]
      /\ attempts[a] \in Attempts
  BY AccessAssumption DEF Inv, TypeOK, Attempts
<1>3. UNCHANGED <<settings, registry, peer, main, run, serving, sessions, plays, changes, kept>>
  BY DEF CheckPin, NoneElse, config
<1>4. CASE Done(r) /\ UNCHANGED <<attempts, guesses>>
  BY <1>4, IdleRequest, OnlyRequestTo DEF CheckPin, OnlyReq, Done
<1>5. CASE ~(Done(r) /\ UNCHANGED <<attempts, guesses>>)
  <2>1. ~attempts[a].locked
    BY <1>5 DEF CheckPin
  <2>2. /\ attempts' \in [Addr -> Attempts] /\ guesses' \in [Addr -> Nat]
        /\ GuessesCounted'
    <3>1. CASE req[r].pin = req[r].seen.pin
      <4>1. /\ attempts' = [attempts EXCEPT ![a] = NoAttempts]
            /\ guesses' = [guesses EXCEPT ![a] = 0]
        BY <1>5, <2>1, <3>1 DEF CheckPin
      <4>2. attempts' \in [Addr -> Attempts] /\ guesses' \in [Addr -> Nat]
        BY <1>2, <4>1, NoAttemptsTypes
      <4> QED BY <1>2, <4>1, <4>2 DEF Inv, GuessesCounted, NoAttempts
    <3>2. CASE req[r].pin # req[r].seen.pin
      <4>1. /\ attempts' = [attempts EXCEPT ![a] = Wrong(attempts[a])]
            /\ guesses' = [guesses EXCEPT ![a] = guesses[a] + 1]
        BY <1>5, <2>1, <3>2 DEF CheckPin
      <4>2. /\ Wrong(attempts[a]) \in Attempts
            /\ Wrong(attempts[a]).locked => Wrong(attempts[a]).failures = 0
            /\ (IF Wrong(attempts[a]).locked THEN MaxAttempts ELSE Wrong(attempts[a]).failures)
               = guesses[a] + 1
        BY <1>2, <2>1, WrongFacts DEF Inv, GuessesCounted
      <4>3. attempts' \in [Addr -> Attempts] /\ guesses' \in [Addr -> Nat]
        BY <1>2, <4>1, <4>2
      <4> QED BY <1>2, <4>1, <4>2, <4>3 DEF Inv, GuessesCounted
    <3> QED BY <3>1, <3>2
  <2>3. req' \in [Request -> RequestState] /\ FreshReads'
    <3>1. CASE Done(r)
      BY <1>3, <3>1, IdleRequest, RequestStep DEF Done, config
    <3>2. CASE ~Done(r)
      <4>1. /\ req[r].pin = req[r].seen.pin /\ Step(r, on)
            /\ req[r].pc = "seen" /\ req[r].kind = "pin"
        BY <2>1, <3>2 DEF CheckPin
      <4>2. on \in RequestState
        BY <1>1, IdleTypes DEF RequestState
      <4>3. FreshRead(on)
        BY <1>1, <4>1 DEF RequestState, FreshRead
      <4> HIDE DEF on
      <4> QED BY <1>3, <4>1, <4>2, <4>3, RequestStep DEF config
    <3> QED BY <3>1, <3>2
  <2>4. TypeOK'
    BY <1>3, <2>2, <2>3 DEF Inv, TypeOK, Attempts
  <2>5. KeptMinted' /\ NoneStaleKept'
    BY <1>3 DEF Inv, KeptMinted, NoneStaleKept, Live, Current, Open
  <2> QED BY <2>2, <2>3, <2>4, <2>5 DEF Inv
<1> QED BY <1>4, <1>5

\* A new session was not there at the last pruning.
LEMMA CreateStep ==
  ASSUME Inv, NEW r \in Request, NEW i \in Sid, CreateSession(r, i)
  PROVE  Inv'
<1> DEFINE new == [scope |-> req[r].scope, old |-> FALSE, run |-> req[r].run]
<1>1. UNCHANGED <<settings, registry, peer, main, run, serving, plays, changes, kept, attempts,
                  guesses>>
  BY DEF CreateSession, NoneElse, config
<1>2. req' \in [Request -> RequestState] /\ FreshReads'
  BY <1>1, IdleRequest, RequestStep DEF CreateSession, Done, config
<1>3. new \in Session
  BY DEF Inv, TypeOK, RequestState, Session
<1>4. sessions' = [sessions EXCEPT ![i] = new] /\ sessions[i] = Unminted
  BY DEF CreateSession
<1> HIDE DEF new
<1>5. TypeOK'
  BY <1>1, <1>2, <1>3, <1>4 DEF Inv, TypeOK
<1>6. KeptMinted'
  BY <1>1, <1>3, <1>4, SessionAssumption DEF Inv, TypeOK, KeptMinted
<1>7. i \notin kept
  BY <1>4 DEF Inv, KeptMinted
<1>8. NoneStaleKept'
  BY <1>1, <1>4, <1>7 DEF Inv, TypeOK, NoneStaleKept, Live, Current, Open
<1>9. GuessesCounted'
  BY <1>1 DEF Inv, GuessesCounted
<1> QED BY <1>2, <1>5, <1>6, <1>8, <1>9 DEF Inv

LEMMA CreatePlayStep ==
  ASSUME Inv, NEW r \in Request, CreatePlay(r)
  PROVE  Inv'
<1>1. UNCHANGED <<settings, registry, peer, main, run, serving, sessions, changes, kept, attempts,
                  guesses>>
  BY DEF CreatePlay, config
<1>2. req' \in [Request -> RequestState] /\ FreshReads'
  BY <1>1, IdleRequest, RequestStep DEF CreatePlay, Done, config
<1>3. plays' \in PlayTokens
  <2>1. plays \in PlayTokens /\ req[r].share \in Share \cup {AnyShare}
    BY DEF Inv, TypeOK, RequestState
  <2>2. Room \in PlayTokens
    BY <2>1, AccessAssumption DEF Room, PlayTokens
  <2> QED BY <2>1, <2>2 DEF CreatePlay, PlayTokens
<1>4. TypeOK'
  BY <1>1, <1>2, <1>3 DEF Inv, TypeOK
<1>5. KeptMinted' /\ NoneStaleKept' /\ GuessesCounted'
  BY <1>1 DEF Inv, KeptMinted, NoneStaleKept, GuessesCounted, Live, Current, Open
<1> QED BY <1>2, <1>4, <1>5 DEF Inv

LEMMA HandleStep ==
  ASSUME Inv, NEW r \in Request, Handle(r)
  PROVE  Inv'
  BY ReadStep, LookupStep, LogoutStep, TouchStep, CheckPinStep, CreateStep, CreatePlayStep
     DEF Handle

-----------------------------------------------------------------------------
LEMMA TimeStep ==
  ASSUME Inv, \/ \E i \in Sid : SessionAges(i)
              \/ PlayExpires
              \/ \E a \in Addr : LockoutEnds(a)
  PROVE  Inv'
<1>1. ASSUME NEW i \in Sid, SessionAges(i) PROVE Inv'
  <2> USE <1>1 DEF SessionAges, Inv, config
  <2>1. [sessions[i] EXCEPT !.old = TRUE] \in Session
    BY LiveTypes DEF Session
  <2>2. sessions' = [sessions EXCEPT ![i] = [sessions[i] EXCEPT !.old = TRUE]]
    OBVIOUS
  <2>3. TypeOK'
    BY <2>1, <2>2 DEF TypeOK
  <2>4. [sessions[i] EXCEPT !.old = TRUE].scope = sessions[i].scope
    BY LiveTypes DEF Session
  <2>5. KeptMinted'
    BY <2>1, <2>2, SessionAssumption DEF TypeOK, KeptMinted
  <2>6. NoneStaleKept'
    BY <2>2, <2>4 DEF TypeOK, NoneStaleKept, Live, Current, Open
  <2>7. GuessesCounted'
    BY DEF GuessesCounted
  <2> QED BY <2>3, <2>5, <2>6, <2>7, FreshKept DEF Applying
<1>2. ASSUME NEW a \in Addr, LockoutEnds(a) PROVE Inv'
  <2> USE <1>2 DEF LockoutEnds, Inv, config
  <2>1. [attempts[a] EXCEPT !.locked = FALSE] \in Attempts
    BY DEF TypeOK, Attempts
  <2>2. attempts' = [attempts EXCEPT ![a] = [attempts[a] EXCEPT !.locked = FALSE]]
    OBVIOUS
  <2>3. TypeOK'
    BY <2>1, <2>2 DEF TypeOK, Attempts
  <2>4. KeptMinted' /\ NoneStaleKept'
    BY DEF KeptMinted, NoneStaleKept, Live, Current, Open
  <2>5. GuessesCounted'
    BY <2>2 DEF TypeOK, GuessesCounted
  <2> QED BY <2>3, <2>4, <2>5, FreshKept DEF Applying
<1>3. CASE PlayExpires
  <2> USE <1>3 DEF PlayExpires, Inv, config
  <2>1. plays' \in PlayTokens
    BY DEF TypeOK, PlayTokens
  <2>2. TypeOK'
    BY <2>1 DEF TypeOK
  <2>3. KeptMinted' /\ NoneStaleKept' /\ GuessesCounted'
    BY DEF KeptMinted, NoneStaleKept, GuessesCounted, Live, Current, Open
  <2> QED BY <2>2, <2>3, FreshKept DEF Applying
<1> QED BY <1>1, <1>2, <1>3

\* No step of a command, a request or the clock breaks the invariant.
LEMMA StepInv == Inv /\ [Next]_vars => Inv'
<1> SUFFICES ASSUME Inv, [Next]_vars PROVE Inv'
  OBVIOUS
<1>1. CASE Next
  BY <1>1, CommandStep, ApplyStep, LifecycleStep, AskStep, HandleStep, TimeStep DEF Next
<1>2. CASE UNCHANGED vars
  <2> USE <1>2 DEF Inv, vars, config
  <2>1. TypeOK'
    BY DEF TypeOK
  <2>2. KeptMinted' /\ NoneStaleKept' /\ GuessesCounted'
    BY DEF KeptMinted, NoneStaleKept, GuessesCounted, Live, Current, Open
  <2> QED BY <2>1, <2>2, FreshKept DEF Applying
<1> QED BY <1>1, <1>2

-----------------------------------------------------------------------------
THEOREM AccessInv == Spec => []Inv
<1> QED BY InitInv, StepInv, PTL DEF Spec

\* Sessions, failed attempts and requests keep their types through every
\* command, stop and start; an address that may guess has failures left.
THEOREM AccessTypes == Spec => []TypeOK
<1>1. Inv => TypeOK
  BY DEF Inv
<1> QED BY <1>1, AccessInv, PTL

\* A request that arrives after a command has returned is let in only by the
\* configuration the command left (apply_config_to_state, the extractor).
THEOREM ChangesTakeEffect == Spec => []ConfigTakesEffect
<1>1. Inv => ConfigTakesEffect
  BY DEF Inv, FreshReads, FreshRead, PeerPasses, ConfigTakesEffect
<1> QED BY <1>1, AccessInv, PTL

\* prune_stale_sessions leaves no session of a replaced, closed or removed link.
THEOREM PrunedStaysPruned == Spec => []NoneStaleKept
<1>1. Inv => NoneStaleKept
  BY DEF Inv
<1> QED BY <1>1, AccessInv, PTL

\* check_pin hears no more wrong PINs of an address than it may guess.
THEOREM PinsLimited == Spec => []GuessesBounded
<1>1. Inv => GuessesBounded
  <2> SUFFICES ASSUME Inv, NEW a \in Addr PROVE guesses[a] <= MaxAttempts
    BY DEF GuessesBounded
  <2>1. attempts[a].failures \in 0..(MaxAttempts - 1)
    BY DEF Inv, TypeOK
  <2> QED BY <2>1, AccessAssumption DEF Inv, GuessesCounted
<1> QED BY <1>1, AccessInv, PTL

-----------------------------------------------------------------------------
(* Runs of the server. *)

\* Requests of the present run are accepted or waited for.
Draining == serving \/ main.pc = "wait"

\* A request that still decides is of the present run, which is not over; and only
\* a link gives a scope that is not Full.
RunReq(x) ==
  /\ Deciding(x) => Draining /\ x.run = run
  /\ (x.play => x.kind \in {"get", "peer"}) /\ (x.pc = "playing" => x.play)
  /\ x.pc \in {"arrived", "seen", "mint"} /\ x.kind # "link" => x.scope = Full

\* A session of a link is of the present run, until the sessions are cleared.
RunSession(i) ==
  Live(i) /\ sessions[i].scope # Full =>
    sessions[i].run = run /\ (Draining \/ main.pc = "clear")

RunInv ==
  /\ main.pc \in {"wait", "clear", "unlink", "forgive", "start"} => ~serving
  /\ \A r \in Request : RunReq(req[r])
  /\ \A i \in Sid : RunSession(i)

\* A step of one request, while the server and its commands stand still.
LEMMA OneRequestRuns ==
  ASSUME Inv, RunInv, NEW r \in Request, NEW to, Step(r, to), RunReq(to),
         UNCHANGED <<main, run, serving>>
  PROVE  \A q \in Request : RunReq(req[q])'
<1>1. \A q \in Request : req'[q] = to \/ req'[q] = req[q]
  BY DEF Step, Inv, TypeOK
<1>2. \A q \in Request : RunReq(req'[q])
  BY <1>1 DEF RunInv
<1> QED BY <1>2 DEF RunReq, Draining, Deciding, HasBody

LEMMA SessionsStay ==
  ASSUME RunInv, UNCHANGED <<main, run, serving>>,
         \A i \in Sid : sessions'[i] = sessions[i] \/ sessions'[i] = Gone
  PROVE  \A i \in Sid : RunSession(i)'
  BY DEF RunInv, RunSession, Live, Draining

LEMMA IdleRuns == RunReq(Idle)
  BY DEF RunReq, Deciding, HasBody, Idle

\* A step that ends a request and leaves the sessions, or takes some away.
LEMMA DoneRuns ==
  ASSUME Inv, RunInv, NEW r \in Request, NEW to, Step(r, to), RunReq(to),
         UNCHANGED <<main, run, serving>>,
         \A i \in Sid : sessions'[i] = sessions[i] \/ sessions'[i] = Gone
  PROVE  RunInv'
<1>1. \A q \in Request : RunReq(req[q])'
  BY OneRequestRuns
<1>2. \A i \in Sid : RunSession(i)'
  BY SessionsStay
<1> QED BY <1>1, <1>2 DEF RunInv

LEMMA AskRuns ==
  ASSUME Inv, RunInv, NEW r \in Request, Ask(r)
  PROVE  RunInv'
<1>1. ASSUME NEW what \in RequestState, what.scope = Full, Arrive(r, what),
             what.play => what.kind \in {"get", "peer"}
      PROVE  RunInv'
  <2> DEFINE to == [what EXCEPT !.pc = "arrived", !.run = run, !.fresh = (main.pc = "idle")]
  <2>1. RunReq(to)
    BY <1>1 DEF RunReq, Draining, Arrive, RequestState
  <2>2. UNCHANGED <<main, run, serving, sessions>> /\ Step(r, to)
    BY <1>1 DEF Arrive, Step
  <2> HIDE DEF to
  <2> QED BY <2>1, <2>2, DoneRuns
<1>2. ASSUME NEW kind \in Kind, NEW i \in Sid \cup {NoSid}, NEW n \in Nat,
             NEW s \in Share \cup {AnyShare}, NEW play \in BOOLEAN
      PROVE  /\ [Idle EXCEPT !.kind = kind, !.sid = i] \in RequestState
             /\ [Idle EXCEPT !.kind = kind, !.pin = n] \in RequestState
             /\ [Idle EXCEPT !.kind = kind, !.share = s, !.token = n] \in RequestState
             /\ [Idle EXCEPT !.kind = kind, !.sid = i, !.share = s, !.play = play]
                  \in RequestState
             /\ [Idle EXCEPT !.kind = kind] \in RequestState
  BY IdleTypes DEF RequestState
<1>3. /\ {"info", "pin", "link", "get", "peer", "stream", "logout"} \subseteq Kind
      /\ 0 \in Nat /\ settings.pin \in Nat /\ \A s \in Share : registry.token[s] \in Nat
  BY DEF Kind, Inv, TypeOK, ServerSettings, ShareRegistry
<1>4. ASSUME NEW i \in Sid \cup {NoSid}, AskSession(r, i) PROVE RunInv'
  <2>1. [Idle EXCEPT !.kind = "info", !.sid = i] \in RequestState
    BY <1>2, <1>3
  <2>2. [Idle EXCEPT !.kind = "info", !.sid = i].scope = Full
        /\ ~[Idle EXCEPT !.kind = "info", !.sid = i].play
    BY DEF Idle
  <2> QED BY <1>1, <1>4, <2>1, <2>2 DEF AskSession
<1>5. ASSUME NEW n \in {0, settings.pin}, GivePin(r, n) PROVE RunInv'
  <2>1. [Idle EXCEPT !.kind = "pin", !.pin = n] \in RequestState
    BY <1>2, <1>3
  <2>2. [Idle EXCEPT !.kind = "pin", !.pin = n].scope = Full
        /\ ~[Idle EXCEPT !.kind = "pin", !.pin = n].play
    BY DEF Idle
  <2> QED BY <1>1, <1>5, <2>1, <2>2 DEF GivePin
<1>6. ASSUME NEW s \in Share, NEW n \in {0, registry.token[s]}, OpenLink(r, s, n)
      PROVE  RunInv'
  <2>1. [Idle EXCEPT !.kind = "link", !.share = s, !.token = n] \in RequestState
    BY <1>2, <1>3
  <2>2. [Idle EXCEPT !.kind = "link", !.share = s, !.token = n].scope = Full
        /\ ~[Idle EXCEPT !.kind = "link", !.share = s, !.token = n].play
    BY DEF Idle
  <2> QED BY <1>1, <1>6, <2>1, <2>2 DEF OpenLink
<1>7. ASSUME NEW s \in Share, NEW i \in Sid \cup {NoSid}, NEW kind \in {"get", "peer"},
             NEW play \in BOOLEAN, AskShare(r, kind, i, s, play)
      PROVE  RunInv'
  <2>1. [Idle EXCEPT !.kind = kind, !.sid = i, !.share = s, !.play = play] \in RequestState
    BY <1>2, <1>3
  <2>2. [Idle EXCEPT !.kind = kind, !.sid = i, !.share = s, !.play = play].scope = Full
        /\ [Idle EXCEPT !.kind = kind, !.sid = i, !.share = s, !.play = play].kind = kind
    BY DEF Idle
  <2> QED BY <1>1, <1>7, <2>1, <2>2 DEF AskShare
<1>8. ASSUME NEW i \in Sid, AskLogout(r, i) PROVE RunInv'
  <2>1. [Idle EXCEPT !.kind = "logout", !.sid = i] \in RequestState
    BY <1>2, <1>3
  <2>2. [Idle EXCEPT !.kind = "logout", !.sid = i].scope = Full
        /\ ~[Idle EXCEPT !.kind = "logout", !.sid = i].play
    BY DEF Idle
  <2> QED BY <1>1, <1>8, <2>1, <2>2 DEF AskLogout
<1>9. CASE OpenPlay(r)
  <2>1. [Idle EXCEPT !.kind = "stream"] \in RequestState
    BY <1>2, <1>3
  <2>2. [Idle EXCEPT !.kind = "stream"].scope = Full /\ ~[Idle EXCEPT !.kind = "stream"].play
    BY DEF Idle
  <2> QED BY <1>1, <1>9, <2>1, <2>2 DEF OpenPlay
<1> QED BY <1>4, <1>5, <1>6, <1>7, <1>8, <1>9 DEF Ask

\* A request that goes on decides no later than it did, and only a link's gets
\* a scope with which a session is created.
LEMMA HandleRuns ==
  ASSUME Inv, RunInv, NEW r \in Request, Handle(r)
  PROVE  RunInv'
<1>0. req[r] \in RequestState /\ RunReq(req[r])
      /\ UNCHANGED <<main, run, serving>>
  BY DEF Inv, TypeOK, RunInv, Handle, GoAway, ReadSettings, Lookup, CheckPin, FindShare,
         CreateSession, NoTokenLeft, Logout, FindPeer, AdmitPeer, TouchSession, AdmitAnyone,
         Serve, Served, CreatePlay, NoFile, ResolvePlay, FindPlayed, OnlyReq, NoneElse
<1>1. CASE Done(r) /\ \A i \in Sid : sessions'[i] = sessions[i] \/ sessions'[i] = Gone
  BY <1>0, <1>1, IdleRuns, DoneRuns DEF Done
<1>2. ASSUME NEW i \in Sid, CreateSession(r, i) PROVE RunInv'
  <2>1. UNCHANGED <<main, run, serving>> /\ req[r].pc = "mint" /\ Done(r)
    BY <1>0, <1>2 DEF CreateSession
  <2>2. \A q \in Request : RunReq(req[q])'
    BY <2>1, IdleRuns, OneRequestRuns DEF Done
  <2>3. req[r].scope # Full => Draining /\ req[r].run = run
    BY <1>0, <2>1 DEF RunReq, Deciding, HasBody
  <2> DEFINE new == [scope |-> req[r].scope, old |-> FALSE, run |-> req[r].run]
  <2>4. sessions' = [sessions EXCEPT ![i] = new] /\ new.scope = req[r].scope
        /\ new.run = req[r].run
    BY <1>2 DEF CreateSession
  <2> HIDE DEF new
  <2>5. ASSUME NEW j \in Sid PROVE RunSession(j)'
    <3>1. sessions'[j] = IF j = i THEN new ELSE sessions[j]
      BY <2>4 DEF Inv, TypeOK
    <3> QED BY <2>1, <2>3, <2>4, <3>1 DEF RunInv, RunSession, Draining, Live
  <2> QED BY <2>1, <2>2, <2>5 DEF RunInv
<1>3. CASE ReadSettings(r)
  <2>1. PICK to : Step(r, to) /\ to \in {[req[r] EXCEPT !.pc = "mint"],
                                        [req[r] EXCEPT !.pc = "seen", !.seen = settings]}
    BY <1>3 DEF ReadSettings
  <2>2. RunReq(to)
    BY <1>0, <1>3, <2>1 DEF RunReq, Deciding, HasBody, ReadSettings, RequestState
  <2> QED BY <1>0, <1>3, <2>1, <2>2, DoneRuns DEF ReadSettings, OnlyReq
<1>4. CASE (Lookup(r) \/ CheckPin(r)) /\ ~Done(r)
  <2> DEFINE to == [req[r] EXCEPT !.pc = "mint", !.seen = NoSettings]
  <2>1. Step(r, to) /\ req[r].pc = "seen" /\ req[r].kind # "link"
    BY <1>4 DEF Lookup, CheckPin
  <2>2. RunReq(to)
    BY <1>0, <2>1 DEF RunReq, Deciding, HasBody, RequestState
  <2>3. \A i \in Sid : sessions'[i] = sessions[i] \/ sessions'[i] = Gone
    BY <1>4 DEF Lookup, CheckPin, Inv, TypeOK
  <2> HIDE DEF to
  <2> QED BY <1>0, <2>1, <2>2, <2>3, DoneRuns
<1>5. CASE FindShare(r) /\ ~Done(r)
  <2> DEFINE to == [req[r] EXCEPT !.pc = "mint",
                                  !.scope = [share |-> req[r].share, token |-> req[r].token]]
  <2>1. Step(r, to) /\ req[r].pc = "arrived" /\ req[r].kind = "link" /\ UNCHANGED sessions
    BY <1>5 DEF FindShare, OnlyReq
  <2>2. RunReq(to)
    BY <1>0, <2>1 DEF RunReq, Deciding, HasBody, RequestState
  <2> HIDE DEF to
  <2> QED BY <1>0, <2>1, <2>2, DoneRuns
<1>6. CASE (FindPeer(r) \/ AdmitPeer(r) \/ AdmitAnyone(r) \/ Serve(r) \/ FindPlayed(r)) /\ ~Done(r)
  <2>1. /\ req[r].pc \in {"arrived", "known", "anyone", "admitted", "resolved"}
        /\ UNCHANGED sessions
    BY <1>6 DEF FindPeer, AdmitPeer, AdmitAnyone, Serve, FindPlayed, OnlyReq
  <2>2. ASSUME NEW pc \in {"admitted", "playing", "serving"}, pc = "playing" => req[r].play,
               Step(r, [req[r] EXCEPT !.pc = pc])
        PROVE  RunInv'
    <3> DEFINE to == [req[r] EXCEPT !.pc = pc]
    <3>1. RunReq(to)
      BY <1>0, <2>1, <2>2 DEF RunReq, Deciding, HasBody, RequestState
    <3> HIDE DEF to
    <3> QED BY <1>0, <2>1, <2>2, <3>1, DoneRuns DEF to
  <2>3. ASSUME NEW pc \in {"anyone", "known", "admitted", "serving"}, NEW f,
               Step(r, [req[r] EXCEPT !.pc = pc, !.found = f])
        PROVE  RunInv'
    <3> DEFINE to == [req[r] EXCEPT !.pc = pc, !.found = f]
    <3>1. RunReq(to)
      BY <1>0, <2>1 DEF RunReq, Deciding, HasBody, RequestState
    <3> HIDE DEF to
    <3> QED BY <1>0, <2>1, <2>3, <3>1, DoneRuns DEF to
  <2>4. CASE FindPeer(r)
    BY <2>3, <2>4 DEF FindPeer
  <2>5. CASE AdmitPeer(r)
    BY <1>6, <2>3, <2>5 DEF AdmitPeer
  <2>6. CASE AdmitAnyone(r) \/ Serve(r) \/ FindPlayed(r)
    BY <1>6, <2>2, <2>6 DEF AdmitAnyone, Serve, FindPlayed
  <2> QED BY <1>6, <2>4, <2>5, <2>6
<1>7. CASE TouchSession(r)
  <2>1. req[r].pc = "arrived"
        /\ \A i \in Sid : sessions'[i] = sessions[i] \/ sessions'[i] = Gone
    BY <1>7 DEF TouchSession, Inv, TypeOK
  <2> DEFINE in == [req[r] EXCEPT !.pc = "admitted", !.sid = NoSid,
                                  !.scope = sessions[req[r].sid].scope]
             out == [req[r] EXCEPT !.pc = "anyone", !.sid = NoSid]
  <2>2. RunReq(in) /\ RunReq(out)
    BY <1>0, <2>1 DEF RunReq, Deciding, HasBody, RequestState
  <2>3. Step(r, in) \/ Step(r, out)
    BY <1>7 DEF TouchSession
  <2> HIDE DEF in, out
  <2> QED BY <1>0, <2>1, <2>2, <2>3, DoneRuns
<1>8. \A i \in Sid : (~CreateSession(r, i) /\ Done(r)) =>
        \/ sessions'[i] = sessions[i] \/ sessions'[i] = Gone \/ \E j \in Sid : CreateSession(r, j)
  BY DEF Handle, GoAway, ReadSettings, Lookup, CheckPin, FindShare, NoTokenLeft, Logout,
         FindPeer, AdmitPeer, TouchSession, AdmitAnyone, Serve, Served, CreatePlay, NoFile,
         ResolvePlay, FindPlayed, OnlyReq, Inv, TypeOK
<1>9. GoAway(r) \/ NoTokenLeft(r) \/ Served(r) \/ Logout(r) \/ CreatePlay(r) \/ NoFile(r) => Done(r)
  BY DEF GoAway, NoTokenLeft, Served, Logout, CreatePlay, NoFile
<1>10. CASE ResolvePlay(r) /\ ~Done(r)
  <2>1. PICK i \in DOMAIN plays :
          Step(r, [req[r] EXCEPT !.pc = "resolved", !.share = plays[i]])
    BY <1>10 DEF ResolvePlay
  <2> DEFINE to == [req[r] EXCEPT !.pc = "resolved", !.share = plays[i]]
  <2>2. req[r].pc = "arrived" /\ req[r].kind = "stream" /\ UNCHANGED sessions
    BY <1>10 DEF ResolvePlay, OnlyReq
  <2>3. RunReq(to)
    BY <1>0, <2>2 DEF RunReq, Deciding, HasBody, RequestState
  <2> HIDE DEF to
  <2> QED BY <1>0, <2>1, <2>2, <2>3, DoneRuns DEF to
<1> QED BY <1>1, <1>2, <1>3, <1>4, <1>5, <1>6, <1>7, <1>8, <1>9, <1>10 DEF Handle

\* Commands and the clock change neither the run nor who is waited for.
LEMMA CommandRuns ==
  ASSUME Inv, RunInv, Command \/ Apply \/ PlayExpires \/ (\E i \in Sid : SessionAges(i))
                      \/ (\E a \in Addr : LockoutEnds(a))
  PROVE  RunInv'
<1>1. ASSUME UNCHANGED <<run, serving>>,
             main.pc \in {"idle", "settings", "shares", "peers", "prune"} \/ main'.pc = main.pc,
             main'.pc \in {"idle", "settings", "shares", "peers", "prune", "stop"}
               \/ main'.pc = main.pc,
             \A r \in Request : req'[r] = [req[r] EXCEPT !.fresh = FALSE] \/ req'[r] = req[r],
             \A i \in Sid : Live(i)' => Live(i) /\ sessions'[i].scope = sessions[i].scope
                                              /\ sessions'[i].run = sessions[i].run
      PROVE  RunInv'
  <2>1. \A r \in Request : /\ req'[r].pc = req[r].pc /\ req'[r].kind = req[r].kind
                           /\ req'[r].run = req[r].run /\ req'[r].scope = req[r].scope
                           /\ req'[r].play = req[r].play
    <3>1. ASSUME NEW x \in RequestState
          PROVE  /\ [x EXCEPT !.fresh = FALSE].pc = x.pc /\ [x EXCEPT !.fresh = FALSE].kind = x.kind
                 /\ [x EXCEPT !.fresh = FALSE].run = x.run
                 /\ [x EXCEPT !.fresh = FALSE].scope = x.scope
                 /\ [x EXCEPT !.fresh = FALSE].play = x.play
      BY DEF RequestState
    <3>2. \A r \in Request : req[r] \in RequestState
      BY DEF Inv, TypeOK
    <3> QED BY <1>1, <3>1, <3>2
  <2>2. Draining' = Draining /\ (main.pc = "clear" => main'.pc = "clear")
    BY <1>1 DEF Draining
  <2>3. \A r \in Request : RunReq(req[r])'
    BY <1>1, <2>1, <2>2 DEF RunInv, RunReq, Deciding, HasBody
  <2>4. \A i \in Sid : RunSession(i)'
    BY <1>1, <2>2 DEF RunInv, RunSession
  <2> QED BY <1>1, <2>3, <2>4 DEF RunInv
<1>2. ASSUME NEW c, NEW restart, Change(c, restart) PROVE RunInv'
  BY <1>1, <1>2 DEF Change, Live
<1>3. ASSUME NEW i \in Sid, RevokeSession(i) PROVE RunInv'
  BY <1>1, <1>3 DEF RevokeSession, Live, Inv, TypeOK
<1>4. CASE RevokeAllSessions
  BY <1>1, <1>4 DEF RevokeAllSessions, AllGone, Live, Inv, TypeOK
<1>5. CASE Command
  BY <1>2, <1>3, <1>4, <1>5 DEF Command, SetPinEnabled, GeneratePin, SaveConfig,
     SetShareEnabled, RemoveShare, RegenerateToken, SetPeer
<1>6. CASE ApplySettings \/ ApplyShares \/ ApplyPeers
  <2>1. main'.pc \in {"shares", "peers", "prune"}
    BY <1>6 DEF ApplySettings, ApplyShares, ApplyPeers, Inv, TypeOK
  <2> QED BY <1>1, <1>6, <2>1 DEF ApplySettings, ApplyShares, ApplyPeers, Live
<1>7. CASE PruneStaleSessions
  <2>1. main'.pc \in {"idle", "stop"}
    BY <1>7 DEF PruneStaleSessions, Then, MainIdle
  <2>2. \A i \in Sid : Live(i)' => Live(i) /\ sessions'[i] = sessions[i]
    BY <1>7 DEF PruneStaleSessions, Live
  <2> QED BY <1>1, <1>7, <2>1, <2>2 DEF PruneStaleSessions
<1>8. ASSUME NEW i \in Sid, SessionAges(i) PROVE RunInv'
  <2>1. sessions[i] \in Session
    BY <1>8, LiveTypes DEF Inv, SessionAges
  <2>2. \A j \in Sid : Live(j)' => Live(j) /\ sessions'[j].scope = sessions[j].scope
                                        /\ sessions'[j].run = sessions[j].run
    BY <1>8, <2>1 DEF SessionAges, Live, Session, Inv, TypeOK
  <2> QED BY <1>1, <1>8, <2>2 DEF SessionAges
<1>9. ASSUME NEW a \in Addr, LockoutEnds(a) PROVE RunInv'
  BY <1>1, <1>9 DEF LockoutEnds, Live
<1>10. CASE PlayExpires
  BY <1>1, <1>10 DEF PlayExpires, Live
<1> QED BY <1>5, <1>6, <1>7, <1>8, <1>9, <1>10 DEF Apply

\* A stop waits until nothing but requests with a body and answers is left of its run, and
\* then clears the sessions; the next start finds no request that still decides
\* and no session of a link.
LEMMA LifecycleRuns == Inv /\ RunInv /\ Lifecycle => RunInv'
<1> SUFFICES ASSUME Inv, RunInv, Lifecycle PROVE RunInv'
  OBVIOUS
<1>0. main \in MainTypes
  BY DEF Inv, TypeOK, MainTypes
<1> USE DEF RunInv, RunReq, RunSession, Draining
<1>1. CASE StartServer
  BY <1>1 DEF StartServer, MainIdle, Deciding, HasBody, Live
<1>2. CASE StartFails
  BY <1>2 DEF StartFails, MainIdle, Deciding, HasBody, Live
<1>3. ASSUME NEW restart \in BOOLEAN, StopServer(restart) PROVE RunInv'
  <2>1. /\ main.pc \in {"idle", "stop"} /\ ~serving'
        /\ main'.pc = IF serving THEN "wait" ELSE "clear"
        /\ UNCHANGED <<run, sessions, req>>
    BY <1>3 DEF StopServer, MainIdle
  <2> QED BY <2>1 DEF Deciding, HasBody, Live
<1>4. CASE WaitEnds
  <2>1. main.pc = "wait" /\ main'.pc = "clear" /\ ~serving /\ UNCHANGED <<run, serving, sessions, req>>
    BY <1>0, <1>4 DEF WaitEnds, MainTypes
  <2>2. \A r \in Request : ~Deciding(req[r])
    BY <1>4 DEF WaitEnds, WaitsForClient, AwaitsBody, Deciding, HasBody
  <2> QED BY <2>1, <2>2 DEF Deciding, HasBody, Live
<1>5. CASE ClearSessions
  <2>1. /\ main.pc = "clear" /\ main'.pc = "unlink" /\ UNCHANGED <<run, serving, req>>
        /\ \A i \in Sid : ~Live(i)'
    BY <1>0, <1>5 DEF ClearSessions, AllGone, Live, MainTypes
  <2> QED BY <2>1 DEF Deciding, HasBody
<1>6. CASE ClearAttempts
  <2>1. /\ main.pc = "forgive" /\ main'.pc \in {"start", "idle"}
        /\ UNCHANGED <<run, serving, req, sessions>>
    BY <1>0, <1>6 DEF ClearAttempts, MainIdle, MainTypes
  <2> QED BY <2>1 DEF Deciding, HasBody, Live
<1>7. CASE ClearPlays
  <2>1. /\ main.pc = "unlink" /\ main'.pc = "forgive"
        /\ UNCHANGED <<run, serving, req, sessions>>
    BY <1>0, <1>7 DEF ClearPlays, MainTypes
  <2> QED BY <2>1 DEF Deciding, HasBody, Live
<1> QED BY <1>1, <1>2, <1>3, <1>4, <1>5, <1>6, <1>7 DEF Lifecycle

LEMMA RunStep == Inv /\ RunInv /\ [Next]_vars => RunInv'
<1> SUFFICES ASSUME Inv, RunInv, [Next]_vars PROVE RunInv'
  OBVIOUS
<1>1. CASE Next
  BY <1>1, CommandRuns, LifecycleRuns, AskRuns, HandleRuns DEF Next
<1>2. CASE UNCHANGED vars
  BY <1>2 DEF vars, RunInv, RunReq, RunSession, Draining, Deciding, HasBody, Live
<1> QED BY <1>1, <1>2

\* stop_server_impl ends its run for every request but a PIN check and one for a
\* play link, which may wait for their bodies longer than it waits for them: no
\* other request decides, and no session of a link is accepted, in a later run.
THEOREM RunsEnd == Spec => []OnlyBodiesOutlive
<1>1. Init => RunInv
  BY SessionAssumption DEF Init, RunInv, RunReq, RunSession, Deciding, HasBody, Live, MainIdle, Idle
<1>2. Spec => []RunInv
  BY <1>1, RunStep, AccessInv, PTL DEF Spec
<1>3. RunInv => OnlyBodiesOutlive
  BY DEF RunInv, RunReq, RunSession, OnlyBodiesOutlive
<1> QED BY <1>2, <1>3, PTL

=============================================================================
