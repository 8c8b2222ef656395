------------------------- MODULE ConfigStoreProofs -------------------------
(***************************************************************************)
(* Proofs about the config file for any shares, pairings and bounds: types,*)
(* that the live state is the file's between commands, that device ids     *)
(* come from the file, and that commands revive no link.                   *)
(***************************************************************************)
EXTENDS ConfigStore, TLAPS

\* How far the command on the main thread has got, as long as no pairing has
\* stored anything: before its save the live state is the file's, between save
\* and apply the file is what it is about to apply.
InStep == ~Stored =>
  /\ main.pc \in {"idle", "loaded"} /\ Readable => live = Applied(file)
  /\ main.pc = "cut" => file = Torn
  /\ main.pc = "saved" /\ Readable => file = main.work

USE DEF LiveState, MainState, StoreState

Inv == Types /\ AtMostOneInbox /\ InStep

-----------------------------------------------------------------------------
(* Configs. *)

\* Normalizing keeps a config a config and makes it clean.
LEMMA NormalFacts ==
  ASSUME NEW c \in Config
  PROVE  Normal(c) \in Config /\ OneInbox(Normal(c)) /\ Normal(c).id = c.id
<1> DEFINE winner == IF c.inbox \in c.claims THEN c.inbox
                     ELSE IF c.claims # {} THEN CHOOSE s \in c.claims : TRUE
                     ELSE NoShare
<1>1. winner \in Share \cup {NoShare}
  <2>1. CASE c.claims # {}
    <3>1. (CHOOSE s \in c.claims : TRUE) \in c.claims
      BY <2>1
    <3> QED BY <3>1 DEF Config
  <2>2. CASE c.claims = {}
    BY <2>2 DEF Config
  <2> QED BY <2>1, <2>2
<1>2. Normal(c) = [c EXCEPT !.inbox = winner, !.claims = {winner} \ {NoShare}]
  BY DEF Normal
<1> HIDE DEF winner
<1> QED BY <1>1, <1>2 DEF Config, OneInbox

\* Normalizing a clean config does nothing.
LEMMA NormalClean ==
  ASSUME NEW c \in Config, OneInbox(c)
  PROVE  Normal(c) = c
<1>1. CASE c.inbox = NoShare
  <2>1. c.claims = {} /\ c.inbox \notin c.claims
    BY <1>1 DEF OneInbox
  <2> QED BY <1>1, <2>1 DEF Normal, Config
<1>2. CASE c.inbox # NoShare
  BY <1>2 DEF Normal, Config, OneInbox
<1> QED BY <1>1, <1>2

LEMMA DefaultFacts ==
  ASSUME NEW i \in Nat
  PROVE  Default(i) \in Config /\ OneInbox(Default(i))
  BY DEF Default, Config, OneInbox

\* What is loaded is a config, clean, and the file if it can be read.
LEMMA LoadedFacts ==
  ASSUME Inv
  PROVE  Loaded \in Config /\ OneInbox(Loaded) /\ (Readable => Loaded = file)
<1>1. CASE Readable
  <2>1. file \in Config /\ OneInbox(file)
    BY <1>1 DEF Inv, Types, AtMostOneInbox, Readable
  <2> QED BY <1>1, <2>1, NormalClean DEF Loaded
<1>2. CASE ~Readable
  BY <1>2, DefaultFacts DEF Inv, Types, Loaded
<1> QED BY <1>1, <1>2

LEMMA AppliedLive ==
  ASSUME NEW c \in Config
  PROVE  Applied(c) \in LiveState
  BY DEF Config, Applied, LiveState

Commands == {"none", "add", "remove", "regenerate", "update", "unpair", "pin",
             "other", "settings", "folder"}

LEMMA IdleTypes == Idle \in MainState /\ Unstored \in StoreState
  BY DefaultFacts DEF Idle, Unstored, MainState, StoreState, Commands

-----------------------------------------------------------------------------
LEMMA InitInv == Init => Inv
<1> SUFFICES ASSUME Init PROVE Inv
  OBVIOUS
<1> USE ConfigAssumption, FileAssumption
<1>1. /\ file \in Config \cup {Missing}
      /\ file \in Config => OneInbox(file)
  BY DEF Init, Config, OneInbox
<1>2. page \in Config /\ OneInbox(page) /\ (Readable => file = page)
  BY <1>1, DefaultFacts DEF Init, Readable
<1>3. live \in LiveState /\ live = Applied(page)
  BY <1>2, AppliedLive DEF Init
<1>4. main \in MainState /\ store \in [Peer -> StoreState]
  BY IdleTypes DEF Init
<1>5. minted \in [Share -> 0..MaxTokens]
  <2>1. 1 \in 0..MaxTokens /\ 0 \in 0..MaxTokens
    OBVIOUS
  <2>2. page.shares \in [Share -> 0..MaxTokens]
    BY <2>1 DEF Init, Readable, Default
  <2> QED BY <2>2 DEF Init
<1>6. Types
  <2>1. ids \in 1..MaxIds
    BY DEF Init
  <2> QED
  BY <2>1, <1>1, <1>2, <1>3, <1>4, <1>5 DEF Init, Types, LiveState, MainState, StoreState, Commands
<1>7. AtMostOneInbox
  <2>1. OneInbox(live)
    BY <1>2, <1>3 DEF OneInbox, Applied
  <2> QED BY <1>1, <2>1 DEF Init, AtMostOneInbox, Idle, Unstored, Readable
<1>8. InStep
  BY <1>2, <1>3 DEF Init, InStep, Idle
<1> QED BY <1>6, <1>7, <1>8 DEF Inv

-----------------------------------------------------------------------------
(* Commands. *)

\* A command that starts, whatever it is about to save, disturbs nothing yet.
LEMMA BeginStep ==
  ASSUME Inv, NEW cmd \in Commands, NEW c \in Config, NEW form \in Config,
         NEW revokes \in SUBSET (Share \X Nat), Begin(cmd, c, form, revokes),
         ids' \in 1..MaxIds, minted' \in [Share -> 0..MaxTokens]
  PROVE  Inv'
<1> USE DEF Inv, Begin
<1>1. Normal(c) \in Config /\ OneInbox(Normal(c))
  BY NormalFacts
<1>2. Types'
  BY <1>1 DEF Types, Commands
<1>3. AtMostOneInbox'
  BY <1>1 DEF AtMostOneInbox, Readable
<1>4. InStep'
  BY DEF InStep, Stored, Readable
<1> QED BY <1>2, <1>3, <1>4

\* Loading makes no more ids than there may be.
LEMMA LoadIds == Inv /\ Load => ids' \in 1..MaxIds
  BY ConfigAssumption DEF Inv, Types, Load

LEMMA MutateStep ==
  ASSUME Inv, NEW cmd \in Commands, NEW c \in Config,
         NEW revokes \in SUBSET (Share \X Nat), Mutate(cmd, c, revokes),
         minted' \in [Share -> 0..MaxTokens]
  PROVE  Inv'
<1>1. ids' \in 1..MaxIds /\ page \in Config
  BY LoadIds DEF Inv, Types, Mutate
<1> QED BY <1>1, BeginStep DEF Mutate

\* Every command starts from a config and makes a config of it.
LEMMA CommandStep == Inv /\ Command => Inv'
<1> SUFFICES ASSUME Inv, Command PROVE Inv'
  OBVIOUS
<1> USE LoadedFacts, ConfigAssumption
<1>0. /\ minted \in [Share -> 0..MaxTokens] /\ page \in Config /\ live \in LiveState /\ ids \in 1..MaxIds
      /\ Loaded \in Config
  BY DEF Inv, Types, LiveState
<1>1. ASSUME NEW s \in Share, AddShare(s) PROVE Inv'
  <2>1. [Loaded EXCEPT !.shares[s] = 1] \in Config
    BY <1>0 DEF Config
  <2>2. minted' \in [Share -> 0..MaxTokens]
    BY <1>0, <1>1 DEF AddShare
  <2> QED BY <1>1, <2>1, <2>2, MutateStep DEF AddShare, Commands
<1>2. ASSUME NEW s \in Share, RemoveShare(s) PROVE Inv'
  <2>1. [Loaded EXCEPT !.shares[s] = 0, !.claims = @ \ {s},
                       !.inbox = IF @ = s THEN NoShare ELSE @] \in Config
    BY <1>0 DEF Config
  <2>2. {<<s, Loaded.shares[s]>>} \in SUBSET (Share \X Nat)
    BY <1>0 DEF Config
  <2> QED BY <1>0, <1>2, <2>1, <2>2, MutateStep DEF RemoveShare, Commands
<1>3. ASSUME NEW s \in Share, RegenerateToken(s) PROVE Inv'
  <2>1. [Loaded EXCEPT !.shares[s] = minted[s] + 1] \in Config
    BY <1>0 DEF Config
  <2>2. {<<s, Loaded.shares[s]>>} \in SUBSET (Share \X Nat)
    BY <1>0 DEF Config
  <2>3. minted' \in [Share -> 0..MaxTokens]
    BY <1>0, <1>3 DEF RegenerateToken
  <2> QED BY <1>3, <2>1, <2>2, <2>3, MutateStep DEF RegenerateToken, Commands
<1>4. ASSUME NEW s \in Share, UpdateShare(s) PROVE Inv'
  <2>1. [Loaded EXCEPT !.claims = IF s \in live.claims THEN @ \cup {s} ELSE @ \ {s}]
          \in Config
    BY <1>0 DEF Config
  <2>2. "update" \in Commands /\ minted' = minted
    BY <1>4 DEF Commands, UpdateShare
  <2>3. Mutate("update", [Loaded EXCEPT !.claims = IF s \in live.claims THEN @ \cup {s}
                                                   ELSE @ \ {s}], {})
    BY <1>4 DEF UpdateShare
  <2> QED BY <1>0, <2>1, <2>2, <2>3, MutateStep
<1>5. ASSUME NEW p \in Peer, UnpairPeer(p) PROVE Inv'
  <2>1. [Loaded EXCEPT !.peers = @ \ {p}] \in Config
    BY <1>0 DEF Config
  <2> QED BY <1>0, <1>5, <2>1, MutateStep DEF UnpairPeer, Commands
<1>6. ASSUME NEW cmd \in {"pin", "other"}, OtherCommand(cmd) PROVE Inv'
  BY <1>0, <1>6, MutateStep DEF OtherCommand, Commands
<1>7. ASSUME NEW cmd \in FromPage, NEW s \in Share \cup {NoShare}, SaveSettings(cmd, s)
     PROVE  Inv'
  <2>1. [page EXCEPT !.inbox = s] \in Config
    BY <1>0 DEF Config
  <2> QED BY <1>0, <1>7, <2>1, BeginStep DEF SaveSettings, Commands, FromPage
<1> QED BY <1>1, <1>2, <1>3, <1>4, <1>5, <1>6, <1>7 DEF Command

-----------------------------------------------------------------------------
(* Saves. *)

LEMMA MainCutStep == Inv /\ MainCut => Inv'
<1> SUFFICES ASSUME Inv, MainCut PROVE Inv'
  OBVIOUS
<1> USE DEF Inv, MainCut
<1>1. Types'
  BY DEF Types
<1>2. AtMostOneInbox'
  BY DEF AtMostOneInbox, Readable, Types
<1>3. InStep'
  BY DEF InStep, Stored, Readable, Types
<1> QED BY <1>1, <1>2, <1>3

LEMMA MainFillStep == Inv /\ MainFill => Inv'
<1> SUFFICES ASSUME Inv, MainFill PROVE Inv'
  OBVIOUS
<1> USE DEF Inv, MainFill
<1>1. main.work \in Config /\ OneInbox(main.work) /\ (file' = main.work \/ file' = Torn)
  BY DEF Types, AtMostOneInbox, Filled
<1>2. Types'
  BY <1>1 DEF Types
<1>3. AtMostOneInbox'
  BY <1>1 DEF AtMostOneInbox, Readable, Types
<1>4. InStep'
  BY <1>1 DEF InStep, Stored, Readable, Types
<1> QED BY <1>2, <1>3, <1>4

LEMMA MainFailsStep == Inv /\ MainFails => Inv'
<1> SUFFICES ASSUME Inv, MainFails PROVE Inv'
  OBVIOUS
<1> USE DEF Inv, MainFails
<1>1. Types'
  BY IdleTypes DEF Types, MainState, Commands
<1>2. AtMostOneInbox'
  BY DEF AtMostOneInbox, Readable, Idle
<1>3. InStep'
  BY DEF InStep, Stored, Readable, Idle
<1> QED BY <1>1, <1>2, <1>3

LEMMA MainApplyStep == Inv /\ MainApply => Inv'
<1> SUFFICES ASSUME Inv, MainApply PROVE Inv'
  OBVIOUS
<1> USE DEF Inv, MainApply
<1>1. live' = Applied(main.work) /\ live' \in LiveState
  BY AppliedLive DEF NowLive, Types
<1>2. Types'
  BY <1>1, IdleTypes DEF Types, MainState, Commands, LiveState
<1>3. AtMostOneInbox'
  <2>1. OneInbox(live')
    BY <1>1 DEF AtMostOneInbox, OneInbox, Applied
  <2> QED BY <2>1 DEF AtMostOneInbox, Readable, Idle
<1>4. InStep'
  BY <1>1 DEF InStep, Stored, Readable, Idle
<1> QED BY <1>2, <1>3, <1>4

LEMMA LoadConfigStep == Inv /\ LoadConfig => Inv'
<1> SUFFICES ASSUME Inv, LoadConfig PROVE Inv'
  OBVIOUS
<1> USE DEF Inv, LoadConfig
<1>0. Loaded \in Config /\ ids' \in 1..MaxIds
  BY LoadedFacts, LoadIds
<1>1. Types'
  BY <1>0 DEF Types
<1>2. AtMostOneInbox'
  BY DEF AtMostOneInbox, Readable
<1>3. InStep'
  BY DEF InStep, Stored, Readable
<1> QED BY <1>1, <1>2, <1>3

-----------------------------------------------------------------------------
(* Pairing tasks. *)

LEMMA StoreStep ==
  ASSUME NEW p \in Peer, Inv,
         StartPairTask(p) \/ StoreLoad(p) \/ StoreCut(p) \/ StoreFill(p) \/ StoreFails(p)
  PROVE  Inv'
<1> USE DEF Inv
<1>0. store \in [Peer -> StoreState] /\ ids \in 1..MaxIds /\ Loaded \in Config /\ OneInbox(Loaded)
  BY LoadedFacts DEF Types, StoreState
<1>1. CASE StartPairTask(p)
  <2>0. /\ Loaded.id \in Nat /\ ids' \in 1..MaxIds
        /\ store' \in [Peer -> StoreState]
    BY <1>0, <1>1, LoadIds DEF StartPairTask, Config
  <2>1. Types'
    BY <2>0, <1>1 DEF StartPairTask, Types, StoreState
  <2>2. AtMostOneInbox'
    BY <1>0, <1>1 DEF StartPairTask, AtMostOneInbox, Readable, StoreState
  <2>3. InStep'
    BY <1>0, <1>1 DEF StartPairTask, InStep, Stored, Readable, StoreState
  <2> QED BY <2>1, <2>2, <2>3
<1>2. CASE StoreLoad(p)
  <2>1. [Loaded EXCEPT !.peers = @ \cup {p}] \in Config
        /\ OneInbox([Loaded EXCEPT !.peers = @ \cup {p}])
    BY <1>0 DEF Config, OneInbox
  <2>2. Types'
    BY <1>0, <1>2, <2>1, LoadIds DEF StoreLoad, Types
  <2>3. AtMostOneInbox'
    BY <1>0, <1>2, <2>1 DEF StoreLoad, AtMostOneInbox, Readable, StoreState
  <2>4. InStep'
    BY <1>0, <1>2 DEF StoreLoad, InStep, Stored, Readable, StoreState
  <2> QED BY <2>2, <2>3, <2>4
<1>3. CASE StoreCut(p)
  <2>1. Types'
    BY <1>0, <1>3 DEF StoreCut, Types
  <2>2. AtMostOneInbox'
    BY <1>0, <1>3 DEF StoreCut, AtMostOneInbox, Readable, StoreState
  <2>3. InStep'
    BY <1>0, <1>3 DEF StoreCut, InStep, Stored, Readable, StoreState
  <2> QED BY <2>1, <2>2, <2>3
<1>4. CASE StoreFill(p)
  <2>1. store[p].work \in Config /\ OneInbox(store[p].work)
        /\ (file' = store[p].work \/ file' = Torn)
    BY <1>0, <1>4 DEF StoreFill, AtMostOneInbox, Filled, StoreState
  <2>2. Types'
    BY <1>0, <1>4, <2>1 DEF StoreFill, Types
  <2>3. AtMostOneInbox'
    BY <1>0, <1>4, <2>1 DEF StoreFill, AtMostOneInbox, Readable, StoreState
  <2>4. InStep'
    BY <1>0, <1>4 DEF StoreFill, InStep, Stored, StoreState
  <2> QED BY <2>2, <2>3, <2>4
<1>5. CASE StoreFails(p)
  <2>1. Types'
    BY <1>0, <1>5 DEF StoreFails, Types
  <2>2. AtMostOneInbox'
    BY <1>0, <1>5 DEF StoreFails, AtMostOneInbox, Readable, StoreState
  <2>3. InStep'
    BY <1>0, <1>5 DEF StoreFails, InStep, Stored, Readable, StoreState
  <2> QED BY <2>1, <2>2, <2>3
<1> QED BY <1>1, <1>2, <1>3, <1>4, <1>5

LEMMA RestartStep == Inv /\ Restart => Inv'
<1> SUFFICES ASSUME Inv, Restart PROVE Inv'
  OBVIOUS
<1> USE DEF Inv, Restart
<1>1. /\ store \in [Peer -> StoreState] /\ ids \in 1..MaxIds /\ ids' \in 1..MaxIds
      /\ Loaded \in Config /\ (Readable => Loaded = file)
  <2>1. ids' \in 1..MaxIds
    BY ConfigAssumption DEF Types
  <2> QED BY <2>1, LoadedFacts DEF Types
<1>2. page' \in Config
  BY <1>1, DefaultFacts
<1>3. live' \in LiveState
  BY <1>1, AppliedLive
<1>4. store' \in [Peer -> StoreState]
  BY <1>1 DEF StoreState
<1>5. Types'
  BY <1>1, <1>2, <1>3, <1>4, IdleTypes DEF Types, MainState, StoreState, LiveState, Commands
<1>6. AtMostOneInbox'
  <2>1. OneInbox(live')
    BY LoadedFacts DEF OneInbox, Applied
  <2> QED BY <1>1, <2>1 DEF AtMostOneInbox, Readable, Idle, StoreState
<1>7. InStep'
  BY <1>1 DEF InStep, Stored, Readable, Idle, StoreState
<1> QED BY <1>5, <1>6, <1>7

LEMMA InvStep == Inv /\ [Next]_vars => Inv'
<1> SUFFICES ASSUME Inv, [Next]_vars PROVE Inv'
  OBVIOUS
<1>1. CASE UNCHANGED vars
  BY <1>1 DEF vars, OneInbox, Inv, Types, AtMostOneInbox, InStep, Stored, Readable
<1>2. CASE Next
  BY <1>2, CommandStep, MainCutStep, MainFillStep, MainFailsStep, MainApplyStep,
     LoadConfigStep, StoreStep, RestartStep DEF Next
<1> QED BY <1>1, <1>2

LEMMA InvAlways == Spec => []Inv
  BY InitInv, InvStep, PTL DEF Spec

-----------------------------------------------------------------------------
\* Types of the file, its copies and its writers, and at most one inbox in each
\* that is read or served (config.rs:155, tasks.rs).
THEOREM ConfigTypes == Spec => []TypeOK
<1>1. Inv => TypeOK
  BY DEF Inv, TypeOK
<1> QED BY <1>1, InvAlways, PTL

\* mutate_config, save_config and setup leave the live state equal to the file
\* between commands, whatever fails or restarts, until a pairing stores a peer.
THEOREM FileServed == Spec => []LiveIsFile
<1>1. Inv => LiveIsFile
  BY DEF Inv, InStep, LiveIsFile
<1> QED BY <1>1, InvAlways, PTL


-----------------------------------------------------------------------------
(* Device ids. *)

\* What a command is about to save bears an id that is in use already.
LEMMA CommandIds ==
  ASSUME Inv, Readable, Command
  PROVE  /\ main'.work.id \in InUse /\ main'.form.id \in InUse
         /\ UNCHANGED <<file, page, store, told>>
<1> DEFINE Goal == /\ main'.work.id \in InUse /\ main'.form.id \in InUse
                   /\ UNCHANGED <<file, page, store, told>>
<1>1. /\ Loaded \in Config /\ Loaded.id \in InUse
      /\ page \in Config /\ page.id \in InUse /\ minted \in [Share -> 0..MaxTokens]
  BY LoadedFacts DEF Inv, Types, InUse
<1>2. ASSUME NEW cmd, NEW c \in Config, NEW form, NEW revokes, Begin(cmd, c, form, revokes),
             c.id \in InUse, form.id \in InUse
      PROVE  Goal
  <2>1. Normal(c).id = c.id
    BY NormalFacts
  <2> QED BY <1>2, <2>1 DEF Begin
<1>3. ASSUME NEW cmd, NEW c \in Config, NEW revokes, Mutate(cmd, c, revokes),
             c.id \in InUse
      PROVE  Goal
  BY <1>1, <1>2, <1>3 DEF Mutate
<1> HIDE DEF Goal
<1>4. ASSUME NEW s \in Share, AddShare(s) PROVE Goal
  <2> DEFINE c == [Loaded EXCEPT !.shares[s] = 1]
  <2>1. c \in Config /\ c.id = Loaded.id
    BY <1>1 DEF Config
  <2> QED BY <1>1, <1>3, <1>4, <2>1 DEF AddShare
<1>5. ASSUME NEW s \in Share, RemoveShare(s) PROVE Goal
  <2> DEFINE c == [Loaded EXCEPT !.shares[s] = 0, !.claims = @ \ {s},
                                 !.inbox = IF @ = s THEN NoShare ELSE @]
  <2>1. c \in Config /\ c.id = Loaded.id
    BY <1>1 DEF Config
  <2> QED BY <1>1, <1>3, <1>5, <2>1 DEF RemoveShare
<1>6. ASSUME NEW s \in Share, RegenerateToken(s) PROVE Goal
  <2> DEFINE c == [Loaded EXCEPT !.shares[s] = minted[s] + 1]
  <2>1. c \in Config /\ c.id = Loaded.id
    BY <1>1 DEF Config
  <2> QED BY <1>1, <1>3, <1>6, <2>1 DEF RegenerateToken
<1>7. ASSUME NEW s \in Share, UpdateShare(s) PROVE Goal
  <2> DEFINE c == [Loaded EXCEPT !.claims = IF s \in live.claims THEN @ \cup {s}
                                            ELSE @ \ {s}]
  <2>1. c \in Config /\ c.id = Loaded.id
    BY <1>1 DEF Config
  <2> QED BY <1>1, <1>3, <1>7, <2>1 DEF UpdateShare
<1>8. ASSUME NEW p \in Peer, UnpairPeer(p) PROVE Goal
  <2> DEFINE c == [Loaded EXCEPT !.peers = @ \ {p}]
  <2>1. c \in Config /\ c.id = Loaded.id
    BY <1>1 DEF Config
  <2> QED BY <1>1, <1>3, <1>8, <2>1 DEF UnpairPeer
<1>9. ASSUME NEW cmd \in {"pin", "other"}, OtherCommand(cmd) PROVE Goal
  BY <1>1, <1>3, <1>9 DEF OtherCommand
<1>10. ASSUME NEW cmd \in FromPage, NEW s \in Share \cup {NoShare}, SaveSettings(cmd, s)
     PROVE  Goal
  <2> DEFINE c == [page EXCEPT !.inbox = s]
  <2>1. c \in Config /\ c.id = page.id
    BY <1>1 DEF Config
  <2> QED BY <1>1, <1>2, <1>10, <2>1 DEF SaveSettings
<1>11. Goal
  BY <1>4, <1>5, <1>6, <1>7, <1>8, <1>9, <1>10 DEF Command
<1> QED BY <1>11 DEF Goal

\* The members of InUse, one by one.
LEMMA InUseMembers ==
  /\ \A p \in Peer : store[p].pc \in {"loaded", "cut"} => store[p].work.id \in InUse
  /\ \A p \in Peer : store[p].pc = "pairing" => told[p] \in InUse
<1>1. ASSUME NEW p \in Peer, store[p].pc \in {"loaded", "cut"}
      PROVE  store[p].work.id \in InUse
  <2> DEFINE W == {store[q].work.id : q \in {r \in Peer : store[r].pc \in {"loaded", "cut"}}}
  <2>1. store[p].work.id \in W
    BY <1>1
  <2>2. W \subseteq InUse
    BY DEF InUse
  <2> QED BY <2>1, <2>2
<1>2. ASSUME NEW p \in Peer, store[p].pc = "pairing"
      PROVE  told[p] \in InUse
  <2> DEFINE W == {told[q] : q \in {r \in Peer : store[r].pc = "pairing"}}
  <2>1. told[p] \in W
    BY <1>2
  <2>2. W \subseteq InUse
    BY DEF InUse
  <2> QED BY <2>1, <2>2
<1> QED BY <1>1, <1>2

\* A step from a file that can be read brings no new id into use.
LEMMA IdStep ==
  ASSUME Inv, Readable, [Next]_vars
  PROVE  InUse' \subseteq InUse
<1>0. /\ file \in Config /\ store \in [Peer -> StoreState] /\ main \in MainState
      /\ file.id \in InUse /\ page.id \in InUse /\ Loaded.id \in InUse
      /\ told \in [Peer -> Nat]
  BY LoadedFacts DEF Inv, Types, Readable, MainState, StoreState, Commands, InUse
<1>1. CASE UNCHANGED vars
  BY <1>1 DEF vars, InUse, Readable
<1>2. CASE Command
  BY <1>2, CommandIds DEF InUse, Readable
<1>3. CASE MainCut
  BY <1>3 DEF MainCut, InUse, Readable, Inv, Types
<1>4. CASE MainFill
  BY <1>0, <1>4 DEF MainFill, Filled, InUse, Readable, MainState
<1>5. CASE MainFails
  BY <1>5 DEF MainFails, Idle, InUse, Readable
<1>6. CASE MainApply
  BY <1>0, <1>6 DEF MainApply, Idle, InUse, Readable
<1>7. CASE LoadConfig
  BY <1>0, <1>7 DEF LoadConfig, InUse, Readable
<1>8. ASSUME NEW p \in Peer,
             StartPairTask(p) \/ StoreLoad(p) \/ StoreCut(p) \/ StoreFill(p) \/ StoreFails(p)
      PROVE  InUse' \subseteq InUse
  <2>1. CASE StartPairTask(p)
    <3>1. \A q \in Peer : /\ store'[q].work = store[q].work
                          /\ store'[q].pc \in {"loaded", "cut"} => store'[q].pc = store[q].pc
                          /\ q # p => store'[q].pc = store[q].pc /\ told'[q] = told[q]
      BY <1>0, <2>1 DEF StartPairTask, StoreState
    <3>2. told'[p] = Loaded.id
      BY <1>0, <2>1 DEF StartPairTask
    <3>3. ASSUME NEW q \in Peer, store'[q].pc \in {"loaded", "cut"}
          PROVE  store'[q].work.id \in InUse
      <4>1. store[q].pc \in {"loaded", "cut"}
        BY <3>1, <3>3
      <4>2. store[q].work.id \in InUse
        BY <4>1, InUseMembers
      <4> QED BY <3>1, <4>2
    <3>4. ASSUME NEW q \in Peer, store'[q].pc = "pairing"
          PROVE  told'[q] \in InUse
      <4>1. CASE q = p
        BY <1>0, <3>2, <4>1
      <4>2. CASE q # p
        <5>1. store[q].pc = "pairing" /\ told'[q] = told[q]
          BY <3>1, <3>4, <4>2
        <5> QED BY <5>1, InUseMembers
      <4> QED BY <4>1, <4>2
    <3>5. {page'.id} \cup (IF Readable' THEN {file'.id} ELSE {})
            \cup (IF main'.pc = "idle" THEN {} ELSE {main'.work.id, main'.form.id})
          \subseteq InUse
      BY <1>0, <2>1 DEF StartPairTask, InUse, Readable
    <3> QED BY <3>3, <3>4, <3>5 DEF InUse
  <2>2. CASE StoreLoad(p)
    <3>1. [Loaded EXCEPT !.peers = @ \cup {p}].id = Loaded.id
      BY LoadedFacts DEF Config
    <3> QED BY <1>0, <2>2, <3>1 DEF StoreLoad, InUse, Readable, StoreState
  <2>3. CASE StoreCut(p)
    BY <1>0, <2>3 DEF StoreCut, InUse, Readable, StoreState
  <2>4. CASE StoreFill(p)
    BY <1>0, <2>4 DEF StoreFill, Filled, InUse, Readable, StoreState
  <2>5. CASE StoreFails(p)
    BY <1>0, <2>5 DEF StoreFails, InUse, Readable, StoreState
  <2> QED BY <1>8, <2>1, <2>2, <2>3, <2>4, <2>5
<1>9. CASE Restart
  <2>1. /\ page' = Loaded /\ main'.pc = "idle" /\ UNCHANGED <<file, told>>
        /\ Loaded.id = file.id
    BY <1>0, <1>9, LoadedFacts DEF Restart, Idle
  <2>2. \A p \in Peer : store'[p].pc \notin {"pairing", "loaded", "cut"}
    BY <1>0, <1>9 DEF Restart
  <2> QED BY <1>0, <2>1, <2>2 DEF InUse, Readable
<1> QED BY <1>1, <1>2, <1>3, <1>4, <1>5, <1>6, <1>7, <1>8, <1>9 DEF Next

\* While there is a file to read, load_config_impl, every save and setup pass
\* on device ids already in use: normalize invents none.
THEOREM IdsKept == Spec => IdsComeFromFile
<1>1. Inv /\ [Next]_vars => [Readable => InUse' \subseteq InUse]_vars
  BY IdStep
<1> QED BY <1>1, InvAlways, PTL DEF Spec, IdsComeFromFile

-----------------------------------------------------------------------------
(* Links. *)

\* No copy of the config, wherever it is, holds a token that was not minted; and
\* a token that was or is about to be taken away is one that was minted.
Sound(c, m) == \A s \in Share : c.shares[s] <= m[s]
Links(m) == {l \in Share \X Nat : l[2] \in 1..m[l[1]]}

TokensMinted ==
  /\ Readable => Sound(file, minted)
  /\ Sound(page, minted)
  /\ Sound(main.work, minted) /\ Sound(main.form, minted)
  /\ \A p \in Peer : Sound(store[p].work, minted)
  /\ revoked \subseteq Links(minted) /\ main.revokes \subseteq Links(minted)

\* A link that was taken away and is not being served is not in c.
Revives(c) == \E l \in revoked : c.shares[l[1]] = l[2] /\ live.shares[l[1]] # l[2]

\* What a command is about to apply revives no link, unless it came from the page
\* or a pairing has stored its copy.
WorkRevivesNone ==
  main.pc # "idle" /\ main.cmd \notin FromPage /\ ~Stored => ~Revives(main.work)

LinkInv == TokensMinted /\ WorkRevivesNone

\* Tokens are only ever added, so what was sound and what was a link stays so.
LEMMA MoreTokens ==
  ASSUME NEW m \in [Share -> Nat], NEW n \in [Share -> Nat], \A s \in Share : m[s] <= n[s]
  PROVE  /\ \A c \in Config : Sound(c, m) => Sound(c, n)
         /\ Links(m) \subseteq Links(n)
<1>1. ASSUME NEW c \in Config, Sound(c, m)
      PROVE  Sound(c, n)
  <2>1. \A s \in Share : c.shares[s] \in Nat
    BY DEF Config
  <2> QED BY <1>1, <2>1 DEF Sound
<1>2. Links(m) \subseteq Links(n)
  BY DEF Links
<1> QED BY <1>1, <1>2

LEMMA NormalShares ==
  ASSUME NEW c \in Config
  PROVE  Normal(c).shares = c.shares
  BY DEF Normal, Config

LEMMA DefaultShares ==
  ASSUME NEW i, NEW m \in [Share -> Nat]
  PROVE  Sound(Default(i), m) /\ \A s \in Share : Default(i).shares[s] = 0
  BY DEF Default, Sound

\* What is loaded is sound, and revives nothing while the file is what is served.
LEMMA LoadedLinks ==
  ASSUME Inv, LinkInv
  PROVE  /\ Sound(Loaded, minted)
         /\ main.pc \in {"idle", "loaded"} /\ ~Stored => ~Revives(Loaded)
<1>0. minted \in [Share -> 0..MaxTokens] /\ file \in Config \cup {Missing, Torn}
  BY DEF Inv, Types
<1>1. CASE Readable
  <2>1. Loaded = file /\ Sound(file, minted)
    BY <1>1, LoadedFacts DEF LinkInv, TokensMinted
  <2>2. main.pc \in {"idle", "loaded"} /\ ~Stored => live.shares = Loaded.shares
    BY <1>1, <2>1 DEF Inv, InStep, Applied
  <2> QED BY <2>1, <2>2 DEF Revives
<1>2. CASE ~Readable
  <2>1. Loaded = Default(ids + 1)
    BY <1>2 DEF Loaded
  <2>2. \A l \in revoked : l[1] \in Share /\ l[2] # 0
    BY <1>0 DEF LinkInv, TokensMinted, Links
  <2> QED BY <1>0, <2>1, <2>2, DefaultShares DEF Revives
<1> QED BY <1>1, <1>2

\* A command begins with a sound config that revives nothing.
LEMMA BeginLinks ==
  ASSUME Inv, LinkInv, NEW cmd, NEW c \in Config, NEW form \in Config, NEW revokes,
         Begin(cmd, c, form, revokes),
         minted' \in [Share -> 0..MaxTokens], \A s \in Share : minted[s] <= minted'[s],
         Sound(c, minted'), Sound(form, minted), revokes \subseteq Links(minted'),
         cmd \notin FromPage /\ ~Stored => ~Revives(c)
  PROVE  LinkInv'
<1>1. /\ Normal(c).shares = c.shares /\ main'.work = Normal(c) /\ main'.form = form
      /\ main'.revokes = revokes /\ main'.cmd = cmd
      /\ UNCHANGED <<file, live, page, store, revoked>>
  BY NormalShares DEF Begin
<1>2. /\ minted \in [Share -> 0..MaxTokens] /\ page \in Config
      /\ (Readable => file \in Config) /\ \A p \in Peer : store[p].work \in Config
  BY DEF Inv, Types, Readable
<1>3. /\ \A d \in Config : Sound(d, minted) => Sound(d, minted')
      /\ Links(minted) \subseteq Links(minted')
  BY <1>2, MoreTokens
<1>4. TokensMinted'
  <2>1. Sound(main'.work, minted')
    BY <1>1 DEF Sound
  <2> QED BY <1>1, <1>2, <1>3, <2>1 DEF LinkInv, TokensMinted, Readable
<1>5. WorkRevivesNone'
  BY <1>1 DEF WorkRevivesNone, Revives, Stored
<1> QED BY <1>4, <1>5 DEF LinkInv

LEMMA CommandLinks ==
  ASSUME Inv, LinkInv, Command
  PROVE  LinkInv'
<1>0. /\ minted \in [Share -> 0..MaxTokens] /\ page \in Config /\ live \in LiveState
      /\ Loaded \in Config /\ Sound(Loaded, minted) /\ Sound(page, minted)
      /\ revoked \subseteq Links(minted)
  BY LoadedFacts, LoadedLinks DEF Inv, Types, LiveState, LinkInv, TokensMinted
<1>1. ~Stored /\ main.pc = "idle" => ~Revives(Loaded)
  BY LoadedLinks
<1>2. ASSUME NEW cmd, NEW c \in Config, NEW revokes, Mutate(cmd, c, revokes),
             minted' \in [Share -> 0..MaxTokens], \A s \in Share : minted[s] <= minted'[s],
             revokes \subseteq Links(minted'),
             \A s \in Share : c.shares[s] \in {0, Loaded.shares[s]}
                               \/ (c.shares[s] > minted[s] /\ c.shares[s] <= minted'[s])
      PROVE  LinkInv'
  <2>1. \A s \in Share : Loaded.shares[s] \in Nat /\ c.shares[s] \in Nat
    BY <1>0, <1>2 DEF Config
  <2>2. Sound(c, minted')
    BY <1>0, <1>2, <2>1 DEF Sound
  <2>3. ~Stored => ~Revives(c)
    <3> SUFFICES ASSUME ~Stored, NEW l \in revoked, c.shares[l[1]] = l[2],
                        live.shares[l[1]] # l[2]
                 PROVE  FALSE
      BY DEF Revives
    <3>1. l[1] \in Share /\ l[2] \in Nat /\ l[2] # 0 /\ l[2] <= minted[l[1]]
      BY <1>0 DEF Links
    <3>2. c.shares[l[1]] = Loaded.shares[l[1]]
      BY <1>0, <1>2, <2>1, <3>1
    <3>3. main.pc = "idle"
      BY <1>2 DEF Mutate, Begin
    <3> QED BY <1>1, <3>2, <3>3 DEF Revives
  <2> QED BY <1>0, <1>2, <2>2, <2>3, BeginLinks DEF Mutate
<1>3. ASSUME NEW s \in Share, AddShare(s) PROVE LinkInv'
  <2> DEFINE c == [Loaded EXCEPT !.shares[s] = 1]
  <2>1. c \in Config /\ \A r \in Share : c.shares[r] = IF r = s THEN 1 ELSE Loaded.shares[r]
    BY <1>0 DEF Config
  <2>2. /\ Mutate("add", c, {}) /\ minted[s] = 0
        /\ minted' \in [Share -> 0..MaxTokens]
        /\ \A r \in Share : minted'[r] = IF r = s THEN 1 ELSE minted[r]
    BY <1>0, <1>3, ConfigAssumption DEF AddShare
  <2> HIDE DEF c
  <2> QED BY <1>0, <1>2, <2>1, <2>2
<1>4. ASSUME NEW s \in Share, RemoveShare(s) PROVE LinkInv'
  <2> DEFINE c == [Loaded EXCEPT !.shares[s] = 0, !.claims = @ \ {s},
                                 !.inbox = IF @ = s THEN NoShare ELSE @]
  <2>1. c \in Config /\ \A r \in Share : c.shares[r] = IF r = s THEN 0 ELSE Loaded.shares[r]
    BY <1>0 DEF Config
  <2>2. Mutate("remove", c, {<<s, Loaded.shares[s]>>}) /\ minted' = minted
    BY <1>4 DEF RemoveShare
  <2>3. {<<s, Loaded.shares[s]>>} \subseteq Links(minted)
    BY <1>0, <1>4 DEF RemoveShare, Links, Config, Sound
  <2> HIDE DEF c
  <2> QED BY <1>0, <1>2, <2>1, <2>2, <2>3
<1>5. ASSUME NEW s \in Share, RegenerateToken(s) PROVE LinkInv'
  <2> DEFINE c == [Loaded EXCEPT !.shares[s] = minted[s] + 1]
  <2>1. c \in Config
        /\ \A r \in Share : c.shares[r] = IF r = s THEN minted[s] + 1 ELSE Loaded.shares[r]
    BY <1>0 DEF Config
  <2>2. /\ Mutate("regenerate", c, {<<s, Loaded.shares[s]>>})
        /\ minted' \in [Share -> 0..MaxTokens]
        /\ \A r \in Share : minted'[r] = IF r = s THEN minted[s] + 1 ELSE minted[r]
    BY <1>0, <1>5, ConfigAssumption DEF RegenerateToken
  <2>3. {<<s, Loaded.shares[s]>>} \subseteq Links(minted')
    BY <1>0, <1>5, <2>2 DEF RegenerateToken, Links, Config, Sound
  <2> HIDE DEF c
  <2> QED BY <1>0, <1>2, <2>1, <2>2, <2>3
<1>6. ASSUME NEW s \in Share, UpdateShare(s) PROVE LinkInv'
  <2> DEFINE c == [Loaded EXCEPT !.claims = IF s \in live.claims THEN @ \cup {s}
                                            ELSE @ \ {s}]
  <2>1. c \in Config /\ c.shares = Loaded.shares
    BY <1>0 DEF Config
  <2>2. Mutate("update", c, {}) /\ minted' = minted
    BY <1>6 DEF UpdateShare
  <2> HIDE DEF c
  <2> QED BY <1>0, <1>2, <2>1, <2>2
<1>7. ASSUME NEW p \in Peer, UnpairPeer(p) PROVE LinkInv'
  <2> DEFINE c == [Loaded EXCEPT !.peers = @ \ {p}]
  <2>1. c \in Config /\ c.shares = Loaded.shares
    BY <1>0 DEF Config
  <2>2. Mutate("unpair", c, {}) /\ minted' = minted
    BY <1>7 DEF UnpairPeer
  <2> HIDE DEF c
  <2> QED BY <1>0, <1>2, <2>1, <2>2
<1>8. ASSUME NEW cmd \in {"pin", "other"}, OtherCommand(cmd) PROVE LinkInv'
  BY <1>0, <1>2, <1>8 DEF OtherCommand
<1>9. ASSUME NEW cmd \in FromPage, NEW s \in Share \cup {NoShare}, SaveSettings(cmd, s)
     PROVE  LinkInv'
  <2> DEFINE c == [page EXCEPT !.inbox = s]
  <2>1. c \in Config /\ c.shares = page.shares
    BY <1>0 DEF Config
  <2>2. Begin(cmd, c, c, {}) /\ minted' = minted
    BY <1>9 DEF SaveSettings
  <2>3. Sound(c, minted)
    BY <1>0, <2>1 DEF Sound
  <2>4. /\ minted' \in [Share -> 0..MaxTokens] /\ \A r \in Share : minted[r] <= minted'[r]
        /\ Sound(c, minted') /\ {} \subseteq Links(minted') /\ cmd \in FromPage
    BY <1>0, <1>9, <2>2, <2>3
  <2>5. cmd \notin FromPage /\ ~Stored => ~Revives(c)
    BY <2>4
  <2>6. c \in Config
    BY <2>1
  <2>7. Begin(cmd, c, c, {})
    BY <2>2
  <2> HIDE DEF c
  <2> QED BY <2>3, <2>4, <2>5, <2>6, <2>7, BeginLinks
<1> QED BY <1>3, <1>4, <1>5, <1>6, <1>7, <1>8, <1>9 DEF Command

\* Every other step passes on configs that were there.
LEMMA OtherLinks ==
  ASSUME Inv, LinkInv,
         \/ MainCut \/ MainFill \/ MainFails \/ MainApply \/ LoadConfig \/ Restart
         \/ \E p \in Peer : \/ StartPairTask(p) \/ StoreLoad(p) \/ StoreCut(p)
                            \/ StoreFill(p) \/ StoreFails(p)
  PROVE  LinkInv'
<1>0. /\ main \in MainState /\ store \in [Peer -> StoreState] /\ minted \in [Share -> 0..MaxTokens]
      /\ Loaded \in Config /\ Sound(Loaded, minted)
      /\ \A i : Sound(Default(i), minted)
  BY LoadedFacts, LoadedLinks, DefaultShares DEF Inv, Types, MainState, StoreState, Commands
<1> USE DEF LinkInv, TokensMinted, WorkRevivesNone
<1>1. CASE MainCut
  BY <1>0, <1>1 DEF MainCut, Revives, Stored, Readable, MainState
<1>2. CASE MainFill
  BY <1>0, <1>2 DEF MainFill, Filled, Revives, Stored, Readable, MainState
<1>3. CASE MainFails
  BY <1>0, <1>3 DEF MainFails, Idle, Revives, Stored, Readable
<1>4. CASE MainApply
  BY <1>0, <1>4 DEF MainApply, Idle, Revives, Stored, Readable
<1>5. CASE LoadConfig
  BY <1>0, <1>5 DEF LoadConfig, Revives, Stored, Readable
<1>6. CASE Restart
  <2>1. Sound(page', minted) /\ main' = Idle /\ UNCHANGED <<file, minted, revoked>>
    BY <1>0, <1>6 DEF Restart
  <2>2. \A p \in Peer : store'[p].work = store[p].work
    BY <1>0, <1>6 DEF Restart, StoreState
  <2> QED BY <1>0, <2>1, <2>2 DEF Idle, Readable
<1>7. ASSUME NEW p \in Peer, StartPairTask(p) PROVE LinkInv'
  <2>1. /\ \A q \in Peer : store'[q].work = store[q].work
        /\ Stored' = Stored
    BY <1>0, <1>7 DEF StartPairTask, Stored, StoreState
  <2> QED BY <1>7, <2>1 DEF StartPairTask, Revives, Readable
<1>8. ASSUME NEW p \in Peer, StoreLoad(p) PROVE LinkInv'
  <2>1. [Loaded EXCEPT !.peers = @ \cup {p}].shares = Loaded.shares
    BY <1>0 DEF Config
  <2>2. /\ \A q \in Peer : store'[q].work.shares \in {store[q].work.shares, Loaded.shares}
        /\ Stored' = Stored
    BY <1>0, <1>8, <2>1 DEF StoreLoad, Stored, StoreState
  <2>3. \A q \in Peer : Sound(store'[q].work, minted)
    BY <1>0, <2>2 DEF Sound
  <2> QED BY <1>8, <2>2, <2>3 DEF StoreLoad, Revives, Readable
<1>9. ASSUME NEW p \in Peer, StoreCut(p) PROVE LinkInv'
  <2>1. /\ \A q \in Peer : store'[q].work = store[q].work
        /\ Stored' = Stored
    BY <1>0, <1>9 DEF StoreCut, Stored, StoreState
  <2> QED BY <1>9, <2>1 DEF StoreCut, Revives, Readable
<1>10. ASSUME NEW p \in Peer, StoreFill(p) PROVE LinkInv'
  <2>1. /\ \A q \in Peer : store'[q].work = store[q].work
        /\ Stored' /\ (file' = store[p].work \/ file' = Torn)
    BY <1>0, <1>10 DEF StoreFill, Filled, Stored, StoreState
  <2> QED BY <1>10, <2>1 DEF StoreFill, Revives, Readable
<1>11. ASSUME NEW p \in Peer, StoreFails(p) PROVE LinkInv'
  <2>1. /\ \A q \in Peer : store'[q].work = store[q].work
        /\ Stored' = Stored
    BY <1>0, <1>11 DEF StoreFails, Stored, StoreState
  <2> QED BY <1>11, <2>1 DEF StoreFails, Revives, Readable
<1> QED BY <1>1, <1>2, <1>3, <1>4, <1>5, <1>6, <1>7, <1>8, <1>9, <1>10, <1>11

LEMMA LinkInvStep == Inv /\ LinkInv /\ [Next]_vars => LinkInv'
<1> SUFFICES ASSUME Inv, LinkInv, [Next]_vars PROVE LinkInv'
  OBVIOUS
<1>1. CASE UNCHANGED vars
  BY <1>1 DEF vars, LinkInv, TokensMinted, WorkRevivesNone, Revives, Stored, Readable
<1>2. CASE Next
  BY <1>2, CommandLinks, OtherLinks DEF Next
<1> QED BY <1>1, <1>2

LEMMA InitLinks == Init => LinkInv
<1> SUFFICES ASSUME Init PROVE LinkInv
  OBVIOUS
<1>1. Inv
  BY InitInv
<1>2. /\ page \in Config /\ minted = page.shares /\ minted \in [Share -> 0..MaxTokens]
      /\ (Readable => file = page) /\ revoked = {} /\ main = Idle
      /\ store = [p \in Peer |-> Unstored]
  BY <1>1 DEF Init, Readable, Inv, Types
<1>3. Sound(page, minted) /\ \A i : Sound(Default(i), minted)
  BY <1>2, DefaultShares DEF Sound, Config
<1> QED BY <1>2, <1>3 DEF LinkInv, TokensMinted, WorkRevivesNone, Idle, Unstored

\* A command that starts from the file, and the restart after its save, bring
\* back no link: what they install revives none that is not being served.
LEMMA ReviveStep ==
  ASSUME Inv, LinkInv, [Next]_vars, main.pc = "saved", main.cmd \notin FromPage, ~Stored,
         NEW l \in revoked, live'.shares[l[1]] = l[2]
  PROVE  live.shares[l[1]] = l[2]
<1>0. /\ l[1] \in Share /\ l[2] # 0 /\ ~Revives(main.work)
      /\ main.work \in Config
  BY DEF LinkInv, TokensMinted, WorkRevivesNone, Links, Inv, Types
<1>1. CASE MainApply
  BY <1>0, <1>1 DEF MainApply, NowLive, Applied, Revives
<1>2. CASE Restart
  <2>1. CASE Readable
    <3>1. Loaded = main.work
      BY <2>1, LoadedFacts DEF Inv, InStep
    <3> QED BY <1>0, <1>2, <3>1 DEF Restart, Applied, Revives
  <2>2. CASE ~Readable
    BY <1>0, <1>2, <2>2 DEF Restart, Loaded, Default, Applied
  <2> QED BY <2>1, <2>2
<1>3. CASE UNCHANGED live
  BY <1>3
<1>4. MainApply \/ Restart \/ UNCHANGED live
  <2>1. Command => UNCHANGED live
    BY DEF Command, AddShare, RemoveShare, RegenerateToken, UpdateShare, UnpairPeer,
           OtherCommand, SaveSettings, Mutate, Begin
  <2> QED BY <2>1 DEF Next, vars, MainCut, MainFill, MainFails, LoadConfig, StartPairTask,
                     StoreLoad, StoreCut, StoreFill, StoreFails
<1> QED BY <1>1, <1>2, <1>3, <1>4

\* A link that regenerate_share_token or remove_share took away is never brought
\* back by a command that starts from the file, nor by the restart that follows
\* its save, as long as no pairing has stored its copy.
THEOREM CommandsReviveNone == Spec => OnlyCopiesRevive
<1>1. Inv /\ LinkInv /\ [Next]_vars
        => [main.pc = "saved" /\ main.cmd \notin FromPage /\ ~Stored =>
              \A l \in revoked : live'.shares[l[1]] = l[2] => live.shares[l[1]] = l[2]]_vars
  BY ReviveStep
<1>2. Spec => []LinkInv
  BY InitLinks, LinkInvStep, InvAlways, PTL DEF Spec
<1> QED BY <1>1, <1>2, InvAlways, PTL DEF Spec, OnlyCopiesRevive

=============================================================================
