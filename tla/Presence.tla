------------------------------ MODULE Presence ------------------------------
(***************************************************************************)
(* Which devices a page shows as present: the beacons other devices send   *)
(* and the table that collects them (discovery.rs), the clock of direct    *)
(* contact (auth.rs, tasks.rs) and the lists made of both (tasks.rs).      *)
(*                                                                         *)
(* The unit of time is ANNOUNCE_EVERY_MS; a time stamp appears as its age  *)
(* in that unit, and ages stop growing once nothing compares them.  A      *)
(* datagram is delivered, perhaps twice or out of order, or lost before    *)
(* the next announcement, and no lock is held that long.  While this       *)
(* device's own server or its discovery socket is down nothing is          *)
(* received, swept or admitted; its table, stamps and registry outlive it. *)
(* None of these steps ever has to happen, so that needs no state here.    *)
(*                                                                         *)
(* Three locks are taken while others are held: the table of discovered    *)
(* devices, peer_seen, and the registry of peers, whose readers wait once  *)
(* a writer does.  What takes one lock at a time is one step.              *)
(***************************************************************************)
EXTENDS Naturals, FiniteSets

CONSTANTS
  Device,       \* the other devices
  Friend,       \* those this device may be paired with
  Network,      \* the sets of devices that may be on the network together
  Steady,       \* devices whose server keeps running
  Shy,          \* devices whose peering_enabled may be changed
  Typed,        \* devices whose address the user may type in
  OfflineAfter, \* PEER_OFFLINE_AFTER_MS
  EvictAfter,   \* PEER_EVICT_AFTER_MS
  Cap,          \* DISCOVERED_CAP
  MaxAdded,     \* how many addresses the user types in
  Absent,       \* a device that is not in the table, or has no stamp
  Nobody        \* no device

ASSUME PresenceAssumption ==
  /\ Friend \subseteq Device /\ Network \subseteq SUBSET Device /\ Steady \subseteq Device
  /\ Shy \subseteq Device /\ Typed \subseteq Device
  /\ IsFiniteSet(Device)
  /\ OfflineAfter \in Nat /\ EvictAfter \in Nat /\ OfflineAfter < EvictAfter
  /\ Cap \in Nat \ {0} /\ MaxAdded \in Nat
  /\ Absent \notin Nat /\ Nobody \notin Device

VARIABLES
  \* the other devices and the network
  here,      \* the devices on this network
  phase,     \* what a device's server is doing
  peering,   \* its peering_enabled, read live by its announce loop
  net,       \* the datagrams under way
  \* this device
  table,     \* discovered: the age of a device's entry
  manual,    \* the devices in it that the user typed in
  stamp,     \* peer_seen: the age of the last direct contact with a friend
  peer,      \* the live registry of peers
  paired,    \* the age of a pairing
  \* its threads, where they stand between two locks
  lister,    \* list_peers
  change,    \* the registry a command on the main thread is about to install
  goodbye,   \* the device whose goodbye is being folded in
  dial,      \* outgoing requests to a friend
  visit,     \* friends whose request has been admitted and is to be stamped
  adding,    \* the device that answered at an address the user typed in
  \* what really happened
  silent,    \* how long ago a device last served or asked for anything
  left,      \* devices from which a goodbye came last
  added      \* addresses typed in so far

others == <<here, phase, peering>>
lists  == <<table, manual, stamp, left>>
known  == <<peer, paired>>
locks  == <<lister, change, goodbye, dial, visit, adding>>
vars   == <<others, net, lists, known, locks, silent, added>>

-----------------------------------------------------------------------------
(* What the state is made of. *)

\* A device's server is stopped, runs, or runs and has announced itself.
Phase == {"stopped", "hidden", "announced"}
Serving(d) == phase[d] # "stopped"

Packet == [from : Device, alive : BOOLEAN]
Hi(d)  == [from |-> d, alive |-> TRUE]
Bye(d) == [from |-> d, alive |-> FALSE]

Offline == OfflineAfter + 1
Evicted == EvictAfter + 1
Later(a, top) == IF a = Absent THEN Absent ELSE IF a < top THEN a + 1 ELSE a

Listed == {d \in Device : table[d] # Absent}

NoChange == [who |-> Nobody, to |-> "none", age |-> Offline]

Init ==
  /\ here \in Network
  /\ phase = [d \in Device |-> "stopped"]
  /\ peering = [d \in Device |-> TRUE]
  /\ net = {}
  /\ table = [d \in Device |-> Absent]
  /\ manual = {}
  /\ stamp = [f \in Friend |-> Absent]
  /\ peer \in [Friend -> {"none", "peer", "blocked"}]
  /\ paired = [f \in Friend |-> Offline]
  /\ lister = "idle"
  /\ change = NoChange
  /\ goodbye = Nobody
  /\ dial = [f \in Friend |-> "idle"]
  /\ visit = {}
  /\ adding = Nobody
  /\ silent = [d \in Device |-> Offline]
  /\ left = {}
  /\ added = 0

-----------------------------------------------------------------------------
(* The other devices: start and stop of a server, and its announce loop. *)

Says(packets) == net' = net \cup packets

StartServer(d) ==
  /\ d \in here /\ ~Serving(d)
  /\ phase' = [phase EXCEPT ![d] = "hidden"]
  /\ silent' = [silent EXCEPT ![d] = 0]
  /\ UNCHANGED <<here, peering, net, lists, known, locks, added>>

\* One pass of announce_loop, as beacon_action says.
AnnouncePass(d) ==
  /\ d \in here
  /\ \/ /\ Serving(d) /\ peering[d]
        /\ phase' = [phase EXCEPT ![d] = "announced"]
        /\ Says({Hi(d)})
     \/ /\ phase[d] = "announced" /\ ~peering[d]
        /\ phase' = [phase EXCEPT ![d] = "hidden"]
        /\ Says({Bye(d)})
  /\ UNCHANGED <<here, peering, lists, known, locks, silent, added>>

\* A stopped server says goodbye if it had announced itself.  A crash, and a
\* device that leaves the network, is a stop whose goodbye is lost.
StopServer(d) ==
  /\ d \notin Steady /\ Serving(d)
  /\ phase' = [phase EXCEPT ![d] = "stopped"]
  /\ Says(IF phase[d] = "announced" THEN {Bye(d)} ELSE {})
  /\ UNCHANGED <<here, peering, lists, known, locks, silent, added>>

SetPeering(d) ==
  /\ d \in here \cap Shy
  /\ peering' = [peering EXCEPT ![d] = ~@]
  /\ UNCHANGED <<here, phase, net, lists, known, locks, silent, added>>

-----------------------------------------------------------------------------
(* The table of discovered devices. *)

\* Whether the lock is free: list_peers and the receive loop hold it while
\* they wait for another.
TableFree == lister = "idle" /\ goodbye = Nobody

Anyone(d) == TRUE   \* mutant

Stalest(d) == \A o \in Listed : table[o] <= table[d]

FullLate == Cardinality(Listed) > Cap   \* mutant

Full == Cardinality(Listed) >= Cap

\* apply_beacon, "hi": a device the table does not hold takes the place of the
\* one heard from least recently, if the table is full.
ReceiveHi(d) ==
  /\ TableFree
  /\ Hi(d) \in net
  /\ IF d \notin Listed /\ Full
     THEN \E old \in Listed :
            /\ Stalest(old)
            /\ table' = [table EXCEPT ![old] = Absent, ![d] = 0]
            /\ manual' = manual \ {old}
     ELSE table' = [table EXCEPT ![d] = 0] /\ UNCHANGED manual
  /\ left' = left \ {d}
  /\ UNCHANGED <<others, net, stamp, known, locks, silent, added>>

\* apply_beacon, "bye": the entry is back-dated, and with the table still locked
\* peer_seen is taken and the stamp removed.
BackDated(d) == IF d \in Listed THEN [table EXCEPT ![d] = Offline] ELSE table

ReceiveBye(d) ==
  /\ TableFree
  /\ Bye(d) \in net
  /\ goodbye' = d
  /\ table' = BackDated(d)
  /\ UNCHANGED <<others, net, manual, stamp, left, known, lister, change,
                 dial, visit, adding, silent, added>>

SeenFree == lister # "both"

KeepStamp(d) == stamp   \* mutant

DropStamp(d) == [f \in Friend |-> IF f = d THEN Absent ELSE stamp[f]]

ForgetContact ==
  /\ goodbye # Nobody /\ SeenFree
  /\ goodbye' = Nobody
  /\ stamp' = DropStamp(goodbye)
  /\ left' = left \cup {goodbye}
  /\ UNCHANGED <<others, net, table, manual, known, lister, change, dial,
                 visit, adding, silent, added>>

ExpiredAll(d) == table[d] > EvictAfter   \* mutant

Expired(d) == d \notin manual /\ table[d] > EvictAfter

\* sweep, every five seconds
Sweep ==
  /\ TableFree
  /\ \E d \in Listed : Expired(d)
  /\ table' = [d \in Device |-> IF d \in Listed /\ Expired(d) THEN Absent ELSE table[d]]
  /\ UNCHANGED <<others, net, manual, stamp, left, known, locks, silent, added>>

\* add_peer_by_address: hello is answered by a device with peering on, and the
\* device is then merged into the table or added to it, whatever its size.
HelloAnswered(d) ==
  /\ d \in here \cap Typed /\ Serving(d) /\ peering[d]
  /\ adding = Nobody /\ added < MaxAdded
  /\ adding' = d
  /\ added' = added + 1
  /\ UNCHANGED <<others, net, lists, known, lister, change, goodbye, dial, visit, silent>>

AddByAddress ==
  /\ adding # Nobody /\ TableFree
  /\ adding' = Nobody
  /\ table' = [table EXCEPT ![adding] = 0]
  /\ manual' = manual \cup {adding}
  /\ left' = left \ {adding}
  /\ UNCHANGED <<others, net, stamp, known, lister, change, goodbye, dial, visit,
                 silent, added>>

-----------------------------------------------------------------------------
(* The registry of peers.  Commands run one at a time on the main thread. *)

\* A reader of the registry waits while a writer does; the writer waits for
\* the requests that read it and are still looking for an address.
Readable == change = NoChange
Writable == \A f \in Friend : dial[f] # "registry"

MayChangeAnywhere == change = NoChange   \* mutant

MayChange == change = NoChange /\ lister = "idle"

\* A command has saved a registry in which friend f is paired, blocked,
\* unblocked or unpaired, and is to install it.  A pairing that its own thread
\* stored is installed by a later command, so it may have any age.
ChangePeer(f, to, age) ==
  /\ MayChange
  /\ IF peer[f] = "none" THEN to = "peer"
     ELSE to # peer[f] /\ age = IF to = "none" THEN Offline ELSE paired[f]
  /\ change' = [who |-> f, to |-> to, age |-> age]
  /\ UNCHANGED <<others, net, lists, known, lister, goodbye, dial, visit, adding,
                 silent, added>>

InstallPeers ==
  /\ change # NoChange /\ Writable
  /\ change' = NoChange
  /\ peer' = [peer EXCEPT ![change.who] = change.to]
  /\ paired' = [paired EXCEPT ![change.who] = change.age]
  /\ UNCHANGED <<others, net, lists, lister, goodbye, dial, visit, adding, silent, added>>

\* list_peers takes the table, then peer_seen, then the registry.
ListPeers ==
  /\ change = NoChange
  /\ \/ lister = "idle" /\ TableFree /\ lister' = "table"
     \/ lister = "table" /\ lister' = "both"
     \/ lister = "both" /\ Readable /\ lister' = "idle"
  /\ UNCHANGED <<others, net, lists, known, change, goodbye, dial, visit, adding,
                 silent, added>>

-----------------------------------------------------------------------------
(* Direct contact with a friend. *)

DialStep(f, from, to) == dial[f] = from /\ dial' = [dial EXCEPT ![f] = to]
OnlyDial == UNCHANGED <<others, net, lists, known, lister, change, goodbye, visit,
                        adding, silent, added>>

\* peer_endpoint reads the registry and, still holding it, the table.
Endpoint(f) ==
  /\ peer[f] = "peer" /\ Readable
  /\ DialStep(f, "idle", "registry") /\ OnlyDial

Resolve(f) ==
  /\ TableFree
  /\ DialStep(f, "registry", "asked") /\ OnlyDial

AnswerAnyway(f) == DialStep(f, "asked", "answered") /\ OnlyDial   \* mutant

Answer(f) ==
  /\ f \in here /\ Serving(f)
  /\ DialStep(f, "asked", "answered") /\ OnlyDial

\* No address, no answer, or an error.
DialFails(f) ==
  /\ TableFree \/ dial[f] = "asked"
  /\ \/ DialStep(f, "registry", "idle")
     \/ DialStep(f, "asked", "idle")
  /\ OnlyDial

Stamped(f) ==
  /\ SeenFree
  /\ stamp' = [stamp EXCEPT ![f] = 0]
  /\ left' = left \ {f}

\* note_peer_seen, whatever became of the pairing meanwhile
NotePeerSeen(f) ==
  /\ DialStep(f, "answered", "idle") /\ Stamped(f)
  /\ UNCHANGED <<others, net, table, manual, known, lister, change, goodbye,
                 visit, adding, silent, added>>

\* A friend's request with its bearer token is admitted, unless the friend is
\* blocked or browsing is off.  The friend's own server need not be running.
Admit(f) ==
  /\ f \in here /\ f \notin visit
  /\ peer[f] = "peer" /\ Readable
  /\ visit' = visit \cup {f}
  /\ silent' = [silent EXCEPT ![f] = 0]
  /\ UNCHANGED <<others, net, lists, known, lister, change, goodbye, dial, adding, added>>

StampVisit(f) ==
  /\ f \in visit /\ Stamped(f)
  /\ visit' = visit \ {f}
  /\ UNCHANGED <<others, net, table, manual, known, lister, change, goodbye,
                 dial, adding, silent, added>>

\* ANNOUNCE_EVERY_MS pass.  Nothing waits for a lock that long; an outgoing
\* request may wait for its answer.
Tick ==
  /\ lister = "idle" /\ change = NoChange /\ goodbye = Nobody
  /\ visit = {} /\ adding = Nobody
  /\ \A f \in Friend : dial[f] \in {"idle", "asked"}
  /\ net' = {}
  /\ table'  = [d \in Device |-> Later(table[d], Evicted)]
  /\ stamp'  = [f \in Friend |-> Later(stamp[f], Offline)]
  /\ paired' = [f \in Friend |-> Later(paired[f], Offline)]
  /\ silent' = [d \in Device |-> IF Serving(d) THEN 0 ELSE Later(silent[d], Offline)]
  /\ UNCHANGED <<others, manual, left, peer, locks, added>>

-----------------------------------------------------------------------------

DeviceStep(d) ==
  \/ StartServer(d) \/ AnnouncePass(d) \/ StopServer(d) \/ SetPeering(d)
  \/ ReceiveHi(d) \/ ReceiveBye(d) \/ HelloAnswered(d)

FriendStep(f) ==
  \/ \E to \in {"none", "peer", "blocked"}, age \in 0..Offline : ChangePeer(f, to, age)
  \/ Endpoint(f) \/ Resolve(f) \/ Answer(f) \/ DialFails(f) \/ NotePeerSeen(f)
  \/ Admit(f) \/ StampVisit(f)

OwnStep ==
  \/ ForgetContact \/ Sweep \/ AddByAddress \/ InstallPeers \/ ListPeers \/ Tick

Next ==
  \/ \E d \in Device : DeviceStep(d)
  \/ \E f \in Friend : FriendStep(f)
  \/ OwnStep

Spec == Init /\ [][Next]_vars

-----------------------------------------------------------------------------
(* The lists. *)

Recent(a) == a # Absent /\ a <= OfflineAfter

\* list_discovered: the dot beside a device
DeviceOnline(d) == Recent(table[d])

\* list_peers: the latest of beacon, direct contact and pairing decides.
PeerOnline(f) ==
  peer[f] # "none" /\ (DeviceOnline(f) \/ Recent(stamp[f]) \/ Recent(paired[f]))

-----------------------------------------------------------------------------
(* Properties. *)

\* Every variable keeps its type, and a device marked as typed in is in the table.
TypeOK ==
  /\ here \in Network
  /\ phase \in [Device -> Phase] /\ peering \in [Device -> BOOLEAN]
  /\ net \subseteq Packet
  /\ table \in [Device -> 0..Evicted \cup {Absent}]
  /\ manual \subseteq Listed
  /\ stamp \in [Friend -> 0..Offline \cup {Absent}]
  /\ peer \in [Friend -> {"none", "peer", "blocked"}]
  /\ paired \in [Friend -> 0..Offline]
  /\ lister \in {"idle", "table", "both"}
  /\ change \in [who : Friend, to : {"none", "peer", "blocked"}, age : 0..Offline] \cup {NoChange}
  /\ goodbye \in Device \cup {Nobody} /\ adding \in Device \cup {Nobody}
  /\ dial \in [Friend -> {"idle", "registry", "asked", "answered"}]
  /\ visit \subseteq Friend
  /\ silent \in [Device -> 0..Offline]
  /\ left \subseteq Device
  /\ added \in 0..MaxAdded

\* Nobody is shown as present for longer than PEER_OFFLINE_AFTER_MS after its
\* last sign of life, whatever the order and repetition of datagrams, goodbyes,
\* answers and requests: a device vanishes from the lists even if its goodbye is
\* lost.  list_peers makes one exception, a pairing that is itself so recent.
OnlineWasAlive ==
  /\ \A d \in Device : DeviceOnline(d) => silent[d] <= OfflineAfter
  /\ \A f \in Friend : PeerOnline(f) => silent[f] <= OfflineAfter \/ Recent(paired[f])

\* A goodbye counts at once in both lists, until the device is heard from again:
\* an earlier beacon or an earlier contact does not keep it on the screen
\* (discovery.rs:448-453), only a recent pairing does.
GoodbyeHides ==
  \A d \in left :
    /\ ~DeviceOnline(d)
    /\ d \in Friend => (PeerOnline(d) => Recent(paired[d]))

\* A device that is there, or that the user typed in, leaves the table only when
\* as many others as the table holds have been heard from since or as recently:
\* a flood of beacons does not lock out a genuine device (discovery.rs:480-482),
\* and the sweep never takes a device the user added (discovery.rs:505-507).
MakesRoom ==
  [][\A d \in Listed \ Listed' :
       DeviceOnline(d) \/ d \in manual
         => Cardinality({o \in Listed' : table'[o] <= table[d]}) >= Cap]_vars

\* Beacons alone never grow the table past its cap; addresses the user types in
\* may, each by one.
TableBounded == Cardinality(Listed) <= Cap + added

\* No ring of threads waits for each other's locks: whenever some thread stands
\* between two locks, one of them can go on.  list_peers takes the registry last
\* and peer_endpoint takes it first, so this needs every change of the registry
\* to come from the thread that lists.
Standing ==
  \/ lister # "idle" \/ change # NoChange \/ goodbye # Nobody \/ visit # {} \/ adding # Nobody
  \/ \E f \in Friend : dial[f] \in {"registry", "answered"}

CanGoOn ==
  \/ lister = "table" \/ (lister = "both" /\ Readable)
  \/ change # NoChange /\ Writable
  \/ goodbye # Nobody /\ SeenFree
  \/ visit # {} /\ SeenFree
  \/ adding # Nobody /\ TableFree
  \/ \E f \in Friend : (dial[f] = "registry" /\ TableFree) \/ (dial[f] = "answered" /\ SeenFree)

NoStandstill == Standing => CanGoOn
=============================================================================
