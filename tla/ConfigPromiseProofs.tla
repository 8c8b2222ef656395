------------------------ MODULE ConfigPromiseProofs ------------------------
(***************************************************************************)
(* Proof that, until a pairing stores its peer, the commands of ConfigStore*)
(* implement the register of ConfigPromise: the mapping takes the live     *)
(* state to what is served, the page's copy without its id to copy, and    *)
(* the config a command has in hand to what it will have served.           *)
(***************************************************************************)
EXTENDS ConfigStoreProofs

\* A command is at work exactly while it has a name, and what the page sent is
\* the page's copy with another inbox: nothing changes the copy in between.
AtWork ==
  /\ main.pc = "idle" <=> main.cmd = "none"
  /\ main.pc = "idle" => main = Idle
  /\ main.cmd \in FromPage =>
       \E s \in Share \cup {NoShare} : main.form = [page EXCEPT !.inbox = s]

RegisterInv == Inv /\ LinkInv /\ AtWork

-----------------------------------------------------------------------------
(* What a command begins with. *)

LEMMA BeginsAtWork ==
  ASSUME AtWork, NEW cmd \in Commands \ {"none"}, NEW c, NEW form, NEW revokes,
         Begin(cmd, c, form, revokes),
         cmd \in FromPage =>
           \E s \in Share \cup {NoShare} : form = [page EXCEPT !.inbox = s]
  PROVE  AtWork'
  BY DEF AtWork, Begin, Commands, FromPage

LEMMA AtWorkStep == Inv /\ AtWork /\ [Next]_vars => AtWork'
<1> SUFFICES ASSUME Inv, AtWork, [Next]_vars PROVE AtWork'
  OBVIOUS
<1> USE DEF AtWork
<1>0. main \in MainState
  BY DEF Inv, Types, MainState, Commands
<1>1. CASE UNCHANGED vars
  BY <1>1 DEF vars
<1>2. CASE Command
  <2>1. ASSUME NEW cmd \in Commands \ {"none"}, cmd \notin FromPage, NEW c, NEW revokes,
               Mutate(cmd, c, revokes)
        PROVE  AtWork'
    BY <2>1, BeginsAtWork DEF Mutate
  <2>2. /\ {"add", "remove", "regenerate", "update", "unpair", "pin", "other"}
             \subseteq (Commands \ {"none"}) \ FromPage
        /\ FromPage \subseteq Commands \ {"none"}
    BY DEF Commands, FromPage
  <2>3. ASSUME NEW s \in Share,
               AddShare(s) \/ RemoveShare(s) \/ RegenerateToken(s) \/ UpdateShare(s)
        PROVE  AtWork'
    BY <2>1, <2>2, <2>3 DEF AddShare, RemoveShare, RegenerateToken, UpdateShare
  <2>4. ASSUME NEW p \in Peer, UnpairPeer(p) PROVE AtWork'
    BY <2>1, <2>2, <2>4 DEF UnpairPeer
  <2>5. ASSUME NEW cmd \in {"pin", "other"}, OtherCommand(cmd) PROVE AtWork'
    BY <2>1, <2>2, <2>5 DEF OtherCommand
  <2>6. ASSUME NEW cmd \in FromPage, NEW s \in Share \cup {NoShare}, SaveSettings(cmd, s)
        PROVE  AtWork'
    BY <2>2, <2>6, BeginsAtWork DEF SaveSettings
  <2> QED BY <1>2, <2>3, <2>4, <2>5, <2>6 DEF Command
<1>3. CASE MainCut \/ MainFill
  BY <1>0, <1>3 DEF MainCut, MainFill, MainState
<1>4. CASE MainFails \/ MainApply \/ Restart
  BY <1>4 DEF MainFails, MainApply, Restart, Idle, FromPage
<1>5. CASE LoadConfig
  BY <1>5 DEF LoadConfig, Idle, FromPage
<1>6. CASE \E p \in Peer : \/ StartPairTask(p) \/ StoreLoad(p) \/ StoreCut(p)
                           \/ StoreFill(p) \/ StoreFails(p)
  BY <1>6 DEF StartPairTask, StoreLoad, StoreCut, StoreFill, StoreFails
<1> QED BY <1>1, <1>2, <1>3, <1>4, <1>5, <1>6 DEF Next

LEMMA RegisterAlways == Spec => []RegisterInv
<1>1. Init => AtWork
  BY DEF Init, AtWork, Idle, FromPage
<1>2. Spec => []LinkInv
  BY InitLinks, LinkInvStep, InvAlways, PTL DEF Spec
<1>3. Spec => []AtWork
  BY <1>1, AtWorkStep, InvAlways, PTL DEF Spec
<1> QED BY <1>2, <1>3, InvAlways, PTL DEF RegisterInv

-----------------------------------------------------------------------------
(* The register. *)

\* What a command starts from is what the register has: the file is what is
\* served, or there is no file and it starts from nothing.
LEMMA SourceLoaded ==
  ASSUME Inv, ~Stored, main.pc = "idle"
  PROVE  Applied(Loaded) = Promise!Source
<1>1. CASE Readable
  <2>1. Loaded = file /\ live = Applied(file)
    BY <1>1, LoadedFacts DEF Inv, InStep
  <2> QED BY <1>1, <2>1 DEF Promise!Source
<1>2. CASE ~Readable
  BY <1>2 DEF Loaded, Default, Applied, Promise!Source, Promise!Nothing
<1> QED BY <1>1, <1>2

\* A pairing that has stored its peer stays so.
LEMMA StoredStays == Inv /\ Stored /\ [Next]_vars => Stored'
<1> SUFFICES ASSUME Inv, [Next]_vars, NEW p \in Peer, store[p].pc = "stored"
             PROVE  store'[p].pc = "stored"
  BY DEF Stored
<1>0. store \in [Peer -> StoreState]
  BY DEF Inv, Types, StoreState
<1>1. ASSUME NEW q \in Peer,
             StartPairTask(q) \/ StoreLoad(q) \/ StoreCut(q) \/ StoreFill(q) \/ StoreFails(q)
      PROVE  store'[p].pc = "stored"
  BY <1>0, <1>1 DEF StartPairTask, StoreLoad, StoreCut, StoreFill, StoreFails, StoreState
<1>2. CASE Restart
  BY <1>2 DEF Restart
<1>3. CASE UNCHANGED store
  BY <1>3
<1>4. Command \/ MainCut \/ MainFill \/ MainFails \/ MainApply \/ LoadConfig \/ UNCHANGED vars
        => UNCHANGED store
  BY DEF Command, AddShare, RemoveShare, RegenerateToken, UpdateShare, UnpairPeer,
         OtherCommand, SaveSettings, Mutate, Begin, MainCut, MainFill, MainFails,
         MainApply, LoadConfig, vars
<1> QED BY <1>1, <1>2, <1>3, <1>4 DEF Next

-----------------------------------------------------------------------------
(* Commands. *)

Ours == {"add", "remove", "regenerate", "update", "unpair", "pin", "other",
         "settings", "folder"}

\* Applying leaves out the id and nothing else.
LEMMA AppliedFields ==
  ASSUME NEW c
  PROVE  /\ Applied(c).shares = c.shares /\ Applied(c).inbox = c.inbox
         /\ Applied(c).claims = c.claims /\ Applied(c).peers = c.peers
  BY DEF Applied

\* A command that begins asks the register for its effect.
LEMMA BeginAsks ==
  ASSUME AtWork, ~Stored, NEW cmd \in Ours, NEW c, NEW form, NEW revokes,
         Begin(cmd, c, form, revokes),
         Promise!Effect(cmd, Promise!Source, Applied(Normal(c)))
  PROVE  Promise!Next
<1>1. main.cmd = "none" /\ main'.cmd = cmd /\ main'.work = Normal(c)
  BY DEF AtWork, Begin
<1>2. UNCHANGED <<live, page, file, store>>
  BY DEF Begin
<1>3. Applied(page)' = Applied(page) /\ Readable' = Readable /\ Stored' = Stored
      /\ Applied(main.work)' = Applied(Normal(c))
  BY <1>1, <1>2 DEF Readable, Stored, Applied
<1>4. Promise!Ask(cmd)
  BY <1>1, <1>2, <1>3 DEF Promise!Ask
<1> QED BY <1>4 DEF Promise!Next, Ours

LEMMA AddEffect ==
  ASSUME NEW l \in Config, OneInbox(l), NEW s \in Share, l.shares[s] = 0,
         NEW c, c = [l EXCEPT !.shares[s] = 1]
  PROVE  Promise!Effect("add", Applied(l), Applied(Normal(c)))
<1>1. c \in Config /\ OneInbox(c)
  BY DEF Config, OneInbox
<1>2. Normal(c) = c
  BY <1>1, NormalClean
<1>3. Applied(c) = [Applied(l) EXCEPT !.shares[s] = 1]
  BY DEF Applied, Config
<1> QED BY <1>2, <1>3, AppliedFields DEF Promise!Effect

LEMMA RemoveEffect ==
  ASSUME NEW l \in Config, OneInbox(l), NEW s \in Share, l.shares[s] # 0,
         NEW c, c = [l EXCEPT !.shares[s] = 0, !.claims = @ \ {s},
                              !.inbox = IF @ = s THEN NoShare ELSE @]
  PROVE  Promise!Effect("remove", Applied(l), Applied(Normal(c)))
<1>1. c \in Config /\ OneInbox(c)
  BY ConfigAssumption DEF Config, OneInbox
<1>2. Normal(c) = c
  BY <1>1, NormalClean
<1>3. /\ c.shares = [l.shares EXCEPT ![s] = 0] /\ c.claims = l.claims \ {s}
      /\ c.inbox = (IF l.inbox = s THEN NoShare ELSE l.inbox) /\ c.peers = l.peers
  BY DEF Config
<1>4. Applied(c) = Promise!Without(Applied(l), s)
  BY <1>3 DEF Applied, Promise!Without
<1> QED BY <1>2, <1>4, AppliedFields DEF Promise!Effect

LEMMA RegenerateEffect ==
  ASSUME NEW l \in Config, OneInbox(l), NEW s \in Share, l.shares[s] # 0,
         NEW n \in Nat, n > l.shares[s], n > page.shares[s],
         NEW c, c = [l EXCEPT !.shares[s] = n]
  PROVE  Promise!Effect("regenerate", Applied(l), Applied(Normal(c)))
<1>1. c \in Config /\ OneInbox(c) /\ c.shares[s] = n
  BY DEF Config, OneInbox
<1>2. Normal(c) = c
  BY <1>1, NormalClean
<1> DEFINE d == Applied(c)
<1>3. d = [Applied(l) EXCEPT !.shares[s] = n] /\ d.shares[s] = n
  BY <1>1 DEF Applied, Config
<1>4. /\ Applied(l).shares[s] # 0 /\ n > Applied(l).shares[s] /\ n > Applied(page).shares[s]
      /\ Applied(Normal(c)) = d
  BY <1>2, AppliedFields
<1> HIDE DEF d
<1> QED BY <1>3, <1>4 DEF Promise!Effect

LEMMA UnpairEffect ==
  ASSUME NEW l \in Config, OneInbox(l), NEW p \in l.peers,
         NEW c, c = [l EXCEPT !.peers = @ \ {p}]
  PROVE  Promise!Effect("unpair", Applied(l), Applied(Normal(c)))
<1>1. c \in Config /\ OneInbox(c)
  BY DEF Config, OneInbox
<1>2. Normal(c) = c
  BY <1>1, NormalClean
<1>3. Applied(c) = [Applied(l) EXCEPT !.peers = @ \ {p}]
  BY DEF Applied, Config
<1> QED BY <1>2, <1>3, AppliedFields DEF Promise!Effect

\* The page's table shows the live shares: while the file is what is served,
\* update_share writes back what was there.
LEMMA SameEffect ==
  ASSUME NEW l \in Config, OneInbox(l), NEW cmd \in {"update", "pin", "other"}
  PROVE  Promise!Effect(cmd, Applied(l), Applied(Normal(l)))
  BY NormalClean DEF Promise!Effect

LEMMA FormEffect ==
  ASSUME NEW l, NEW s \in Share \cup {NoShare}, NEW cmd \in FromPage, page \in Config,
         NEW c, c = [page EXCEPT !.inbox = s]
  PROVE  Promise!Effect(cmd, l, Applied(Normal(c)))
<1> DEFINE d == Applied(Normal(c))
<1>1. /\ c \in Config /\ Normal(c) \in Config
      /\ c.claims = page.claims /\ c.shares = page.shares /\ c.peers = page.peers
  BY NormalFacts DEF Config
<1>2. Promise!Tidy(d)
  BY <1>1, NormalFacts DEF OneInbox, Applied, Promise!Tidy
<1>3. d.inbox \in page.claims \cup {NoShare}
  <2>1. Normal(c).inbox \in c.claims \cup {NoShare}
    BY <1>1 DEF Normal, Config
  <2> QED BY <1>1, <2>1 DEF Applied
<1>4. d.shares = page.shares /\ d.peers = page.peers
  BY <1>1 DEF Normal, Config, Applied
<1> HIDE DEF d
<1>6. d.shares = Applied(page).shares /\ d.peers = Applied(page).peers
  BY <1>4, AppliedFields
<1>5. d.inbox \in Applied(page).claims \cup {NoShare}
  BY <1>3, AppliedFields
<1>7. Promise!Effect(cmd, l, d)
  BY <1>2, <1>5, <1>6 DEF Promise!Effect, FromPage
<1> QED BY <1>7 DEF d

\* Every command, when it begins, asks for its own effect on what is served.
LEMMA CommandAsks == RegisterInv /\ ~Stored /\ Command => Promise!Next
<1> SUFFICES ASSUME RegisterInv, ~Stored, Command PROVE Promise!Next
  OBVIOUS
<1>0. /\ Inv /\ AtWork /\ Loaded \in Config /\ OneInbox(Loaded)
      /\ page \in Config /\ live \in LiveState /\ minted \in [Share -> Nat]
      /\ \A s \in Share : Loaded.shares[s] <= minted[s] /\ page.shares[s] <= minted[s]
  BY LoadedFacts, LoadedLinks DEF RegisterInv, Inv, Types, LiveState, LinkInv, TokensMinted, Sound
<1>1. ASSUME NEW cmd \in Ours, NEW c, NEW revokes, Mutate(cmd, c, revokes),
             Promise!Effect(cmd, Applied(Loaded), Applied(Normal(c)))
      PROVE  Promise!Next
  <2>1. Begin(cmd, c, page, revokes) /\ main.pc = "idle"
    BY <1>1 DEF Mutate, Begin
  <2>2. Applied(Loaded) = Promise!Source
    BY <1>0, <2>1, SourceLoaded
  <2> QED BY <1>0, <1>1, <2>1, <2>2, BeginAsks
<1>2. \A s \in Share : Loaded.shares[s] \in Nat /\ page.shares[s] \in Nat /\ minted[s] \in Nat
  BY <1>0 DEF Config
<1>3. ASSUME NEW s \in Share, AddShare(s) PROVE Promise!Next
  <2>1. Loaded.shares[s] = 0
    BY <1>0, <1>2, <1>3 DEF AddShare
  <2>2. Promise!Effect("add", Applied(Loaded), Applied(Normal([Loaded EXCEPT !.shares[s] = 1])))
    BY <1>0, <2>1, AddEffect
  <2> QED BY <1>1, <1>3, <2>2 DEF AddShare, Ours
<1>4. ASSUME NEW s \in Share, RemoveShare(s) PROVE Promise!Next
  <2> DEFINE c == [Loaded EXCEPT !.shares[s] = 0, !.claims = @ \ {s},
                                 !.inbox = IF @ = s THEN NoShare ELSE @]
  <2>1. Mutate("remove", c, {<<s, Loaded.shares[s]>>}) /\ Loaded.shares[s] # 0
    BY <1>4 DEF RemoveShare
  <2>2. Promise!Effect("remove", Applied(Loaded), Applied(Normal(c)))
    BY <1>0, <2>1, RemoveEffect
  <2> HIDE DEF c
  <2> QED BY <1>1, <2>1, <2>2 DEF Ours
<1>5. ASSUME NEW s \in Share, RegenerateToken(s) PROVE Promise!Next
  <2> DEFINE n == minted[s] + 1
             c == [Loaded EXCEPT !.shares[s] = n]
  <2>1. Mutate("regenerate", c, {<<s, Loaded.shares[s]>>}) /\ Loaded.shares[s] # 0
    BY <1>5 DEF RegenerateToken
  <2>2. n \in Nat /\ n > Loaded.shares[s] /\ n > page.shares[s]
    BY <1>0, <1>2
  <2> HIDE DEF n
  <2>3. Promise!Effect("regenerate", Applied(Loaded), Applied(Normal(c)))
    BY <1>0, <2>1, <2>2, RegenerateEffect
  <2> HIDE DEF c
  <2> QED BY <1>1, <2>1, <2>3 DEF Ours
<1>6. ASSUME NEW s \in Share, UpdateShare(s) PROVE Promise!Next
  <2> DEFINE c == [Loaded EXCEPT !.claims = IF s \in live.claims THEN @ \cup {s}
                                            ELSE @ \ {s}]
  <2>1. Mutate("update", c, {}) /\ Loaded.shares[s] # 0 /\ main.pc = "idle"
    BY <1>6 DEF UpdateShare, Mutate, Begin
  <2>2. Readable
    BY <2>1 DEF Loaded, Default
  <2>3. live.claims = Loaded.claims
    BY <1>0, <2>1, <2>2, LoadedFacts DEF Inv, InStep, Applied
  <2>4. c = Loaded
    BY <1>0, <2>3 DEF Config
  <2>5. Promise!Effect("update", Applied(Loaded), Applied(Normal(c)))
    BY <1>0, <2>4, SameEffect
  <2> HIDE DEF c
  <2> QED BY <1>1, <2>1, <2>5 DEF Ours
<1>7. ASSUME NEW p \in Peer, UnpairPeer(p) PROVE Promise!Next
  <2> DEFINE c == [Loaded EXCEPT !.peers = @ \ {p}]
  <2>1. Mutate("unpair", c, {}) /\ p \in Loaded.peers
    BY <1>7 DEF UnpairPeer
  <2>2. Promise!Effect("unpair", Applied(Loaded), Applied(Normal(c)))
    BY <1>0, <2>1, UnpairEffect
  <2> HIDE DEF c
  <2> QED BY <1>1, <2>1, <2>2 DEF Ours
<1>8. ASSUME NEW cmd \in {"pin", "other"}, OtherCommand(cmd) PROVE Promise!Next
  BY <1>0, <1>1, <1>8, SameEffect DEF OtherCommand, Ours
<1>9. ASSUME NEW cmd \in FromPage, NEW s \in Share \cup {NoShare}, SaveSettings(cmd, s)
      PROVE  Promise!Next
  <2> DEFINE c == [page EXCEPT !.inbox = s]
  <2>1. Begin(cmd, c, c, {}) /\ cmd \in Ours
    BY <1>9 DEF SaveSettings, FromPage, Ours
  <2>2. Promise!Effect(cmd, Promise!Source, Applied(Normal(c)))
    BY <1>0, FormEffect
  <2> HIDE DEF c
  <2> QED BY <1>0, <2>1, <2>2, BeginAsks
<1> QED BY <1>3, <1>4, <1>5, <1>6, <1>7, <1>8, <1>9 DEF Command

-----------------------------------------------------------------------------
(* Everything else. *)

LEMMA IdleAsksNothing ==
  Idle.cmd = "none" /\ Applied(Idle.work) = Promise!Nothing
  BY DEF Idle, Applied, Default, Promise!Nothing

LEMMA OtherSteps ==
  ASSUME RegisterInv, ~Stored, Next, ~Command
  PROVE  [Promise!Next]_Promise!vars
<1>0. /\ Inv /\ AtWork /\ main \in MainState /\ store \in [Peer -> StoreState] /\ page \in Config
      /\ live \in LiveState
  BY DEF RegisterInv, Inv, Types, MainState, StoreState, Commands, LiveState
<1> USE DEF Promise!vars
<1>1. CASE MainCut
  <2>1. /\ UNCHANGED <<live, page, store>> /\ main'.cmd = main.cmd /\ main'.work = main.work
        /\ ~Readable'
    BY <1>0, <1>1 DEF MainCut, MainState, Readable
  <2>2. Promise!Tear
    BY <2>1 DEF Promise!Tear, Applied, Stored
  <2> QED BY <2>2 DEF Promise!Next
<1>2. CASE MainFill
  <2>1. /\ UNCHANGED <<live, page, store>> /\ main'.cmd = main.cmd /\ main'.work = main.work
        /\ main.cmd # "none"
    BY <1>0, <1>2 DEF MainFill, MainState, AtWork
  <2>2. Promise!Tear \/ Promise!Write
    BY <2>1 DEF Promise!Tear, Promise!Write, Applied, Stored, Readable
  <2> QED BY <2>2 DEF Promise!Next
<1>3. CASE MainFails
  <2>1. UNCHANGED <<live, page, store, file>> /\ main' = Idle /\ main.cmd # "none"
    BY <1>0, <1>3 DEF MainFails, AtWork
  <2>2. Promise!Fail
    BY <2>1, IdleAsksNothing DEF Promise!Fail, Applied, Stored, Readable
  <2> QED BY <2>2 DEF Promise!Next
<1>4. CASE MainApply
  <2>1. /\ UNCHANGED <<store, file>> /\ main' = Idle /\ main.cmd # "none"
        /\ live' = Applied(main.work)
        /\ page' = IF main.cmd \in FromPage THEN main.form ELSE page
    BY <1>0, <1>4 DEF MainApply, NowLive, AtWork
  <2>2. CASE main.cmd \in FromPage
    <3>1. PICK s \in Share \cup {NoShare} : page' = [page EXCEPT !.inbox = s]
      BY <1>0, <2>1, <2>2 DEF AtWork
    <3>2. Applied(page') = [Applied(page) EXCEPT !.inbox = s]
      BY <1>0, <3>1 DEF Applied, Config
    <3>3. Promise!Done
      BY <2>1, <2>2, <3>2, IdleAsksNothing DEF Promise!Done, FromPage, Stored, Readable
    <3> QED BY <3>3 DEF Promise!Next
  <2>3. CASE main.cmd \notin FromPage
    <3>1. Promise!Done
      BY <2>1, <2>3, IdleAsksNothing DEF Promise!Done, FromPage, Stored, Readable
    <3> QED BY <3>1 DEF Promise!Next
  <2> QED BY <2>2, <2>3
<1>5. CASE LoadConfig
  <2>1. /\ UNCHANGED <<live, main, store, file>> /\ main.pc = "idle" /\ main.cmd = "none"
        /\ page' = Loaded /\ Applied(Loaded) = Promise!Source
    BY <1>0, <1>5, SourceLoaded DEF LoadConfig, AtWork
  <2>2. Promise!Read
    BY <2>1 DEF Promise!Read, Stored, Readable
  <2> QED BY <2>2 DEF Promise!Next
<1>6. ASSUME NEW p \in Peer, StartPairTask(p) \/ StoreLoad(p) \/ StoreFails(p)
      PROVE  UNCHANGED Promise!vars
  <2>1. /\ UNCHANGED <<live, page, main, file>>
        /\ \A q \in Peer : store'[q].pc = "stored" <=> store[q].pc = "stored"
    BY <1>0, <1>6 DEF StartPairTask, StoreLoad, StoreFails, StoreState
  <2> QED BY <2>1 DEF Applied, Stored, Readable
<1>7. ASSUME NEW p \in Peer, StoreCut(p)
      PROVE  Promise!Next
  <2>1. /\ UNCHANGED <<live, page, main>> /\ ~Readable'
        /\ \A q \in Peer : store'[q].pc = "stored" <=> store[q].pc = "stored"
    BY <1>0, <1>7 DEF StoreCut, StoreState, Readable
  <2>2. Promise!Tear
    BY <2>1 DEF Promise!Tear, Applied, Stored
  <2> QED BY <2>2 DEF Promise!Next
<1>8. ASSUME NEW p \in Peer, StoreFill(p)
      PROVE  Promise!Next
  <2>1. UNCHANGED <<live, page, main>> /\ Stored'
    BY <1>0, <1>8 DEF StoreFill, StoreState, Stored
  <2>2. Promise!Part
    BY <2>1 DEF Promise!Part, Applied
  <2> QED BY <2>2 DEF Promise!Next
<1>9. CASE Restart
  <2>1. /\ file' = file /\ main' = Idle /\ live' = Applied(Loaded)
        /\ Applied(page') = live'
    BY <1>9 DEF Restart, Loaded, Default, Applied
  <2>2. Stored' = Stored
    BY <1>0, <1>9 DEF Restart, Stored, StoreState
  <2>3. live' \in IF ~Readable \/ main.cmd = "none" THEN {Promise!Source}
                  ELSE {live, Applied(main.work)}
    <3>1. CASE ~Readable
      BY <2>1, <3>1 DEF Loaded, Default, Applied, Promise!Source, Promise!Nothing
    <3>2. CASE main.cmd = "none"
      BY <1>0, <2>1, <3>2, SourceLoaded DEF AtWork
    <3>3. CASE Readable /\ main.cmd # "none"
      <4>1. main.pc \in {"loaded", "saved"} /\ Loaded = file
        BY <1>0, <3>3, LoadedFacts DEF AtWork, MainState, Inv, InStep, Readable
      <4> QED BY <1>0, <2>1, <3>3, <4>1 DEF Inv, InStep
    <3> QED BY <3>1, <3>2, <3>3
  <2>4. Promise!Restart
    BY <2>1, <2>2, <2>3, IdleAsksNothing DEF Promise!Restart, Readable
  <2> QED BY <2>4 DEF Promise!Next
<1> QED BY <1>1, <1>2, <1>3, <1>4, <1>5, <1>6, <1>7, <1>8, <1>9 DEF Next

LEMMA RegisterStep == RegisterInv /\ [Next]_vars => [Promise!Next]_Promise!vars
<1> SUFFICES ASSUME RegisterInv, [Next]_vars PROVE [Promise!Next]_Promise!vars
  OBVIOUS
<1>1. CASE UNCHANGED vars
  BY <1>1 DEF vars, Promise!vars, Applied, Readable, Stored
<1>2. CASE Stored
  BY <1>2, StoredStays DEF RegisterInv, Promise!Next
<1>3. CASE ~Stored /\ Next
  BY <1>3, CommandAsks, OtherSteps
<1> QED BY <1>1, <1>2, <1>3

\* mutate_config, save_config, loadConfig and setup implement the register of
\* ConfigPromise until store_peer has written: no command undoes another's change,
\* and a restart keeps a change whole or not at all unless the file was lost.
THEOREM ConfigImplementsPromise == Spec => RegisterKept
<1>1. Init => Promise!Init
  <2> SUFFICES ASSUME Init PROVE Promise!Init
    OBVIOUS
  <2>1. Inv
    BY InitInv
  <2>2. page \in Config /\ OneInbox(page) /\ live = Applied(page) /\ main = Idle /\ ~Stored
    BY DefaultFacts, ConfigAssumption, <2>1
    DEF Init, Unstored, Stored, Readable, Inv, Types, AtMostOneInbox
  <2> QED BY <2>2, IdleAsksNothing DEF Promise!Init, Promise!Tidy, OneInbox, Applied
<1> QED BY <1>1, RegisterStep, RegisterAlways, PTL DEF Spec, RegisterKept, Promise!Spec

=============================================================================
