--------------------------- MODULE PresenceProofs ---------------------------
(***************************************************************************)
(* Proofs about Presence for any devices, friends, thresholds and caps.    *)
(*                                                                         *)
(* Ages are compared: an entry, a stamp or a datagram is never younger     *)
(* than the last sign of life of its device (Alive), which gives           *)
(* OnlineWasAlive.  The other parts of the invariant say what a goodbye    *)
(* leaves behind (Farewell) and who holds which lock (LocksApart).         *)
(***************************************************************************)
EXTENDS Presence, FiniteSetTheorems, TLAPS

\* Whatever speaks for a device is no younger than its last sign of life.
Alive ==
  /\ \A d \in Device : Serving(d) => silent[d] = 0
  /\ \A p \in net : p.alive => silent[p.from] = 0
  /\ \A d \in Device : table[d] # Absent => silent[d] <= table[d]
  /\ \A f \in Friend : stamp[f] # Absent => silent[f] <= stamp[f]
  /\ \A f \in Friend : dial[f] = "answered" \/ f \in visit => silent[f] = 0
  /\ adding # Nobody => silent[adding] = 0

\* A goodbye leaves no recent entry and no stamp.
Farewell ==
  /\ \A d \in left : ~Recent(table[d])
  /\ \A f \in left \cap Friend : stamp[f] = Absent
  /\ goodbye # Nobody => ~Recent(table[goodbye])

\* list_peers and the receive loop do not hold the table together, and the
\* thread that lists does not change the registry.
LocksApart ==
  /\ lister # "idle" => goodbye = Nobody
  /\ lister # "idle" => change = NoChange

\* There is room for the address that was answered for and is to be added.
Pending == IF adding = Nobody THEN 0 ELSE 1
Bounded == Cardinality(Listed) + Pending <= Cap + added /\ Pending <= added

Inv == TypeOK /\ Alive /\ Farewell /\ LocksApart /\ Bounded

-----------------------------------------------------------------------------
(* Values. *)

Age == 0..Evicted \cup {Absent}
Change == [who : Friend, to : {"none", "peer", "blocked"}, age : 0..Offline]

LEMMA Sizes ==
  /\ Offline \in Nat /\ Evicted \in Nat /\ Offline <= EvictAfter
  /\ 0 \in 0..Offline /\ Offline \in 0..Offline
  /\ 0 \in Age /\ Offline \in Age
  BY PresenceAssumption DEF Offline, Evicted, Age

\* Growing older keeps the type and the order of two ages, the second of which
\* may stop later.
LEMMA LaterFacts ==
  ASSUME NEW top \in Nat, NEW a \in 0..top \cup {Absent}
  PROVE  /\ Later(a, top) \in 0..top \cup {Absent}
         /\ a = Absent <=> Later(a, top) = Absent
         /\ a # Absent => a <= Later(a, top) /\ Later(a, top) \in 0..top
  BY PresenceAssumption DEF Later

LEMMA LaterOrder ==
  ASSUME NEW m \in Nat, NEW n \in Nat, m <= n,
         NEW a \in 0..m, NEW b \in 0..n, a <= b
  PROVE  Later(a, m) <= Later(b, n)
  BY PresenceAssumption DEF Later

\* NoChange is no change.
LEMMA NoChangeApart == NoChange \notin Change
  BY PresenceAssumption DEF NoChange, Change

LEMMA FriendsAreDevices == \A f \in Friend : f \in Device
  BY PresenceAssumption

-----------------------------------------------------------------------------
(* The size of the table. *)

LEMMA ListedFinite == IsFiniteSet(Listed) /\ Cardinality(Listed) \in Nat
<1>1. Listed \in SUBSET Device
  BY DEF Listed
<1> QED BY <1>1, PresenceAssumption, FS_Subset, FS_CardinalityType

LEMMA ListedFiniteNext == IsFiniteSet(Listed') /\ Cardinality(Listed') \in Nat
<1>1. Listed' \in SUBSET Device
  BY DEF Listed
<1> QED BY <1>1, PresenceAssumption, FS_Subset, FS_CardinalityType

\* A step that lists nobody new keeps the bound.
LEMMA BoundKept ==
  ASSUME Inv, Listed' \subseteq Listed, UNCHANGED <<adding, added>>
  PROVE  Bounded'
<1>1. Cardinality(Listed') <= Cardinality(Listed)
  BY ListedFinite, FS_Subset
<1> QED BY <1>1, ListedFinite, ListedFiniteNext, PresenceAssumption
     DEF Inv, TypeOK, Bounded, Pending

LEMMA SameTable ==
  ASSUME Inv, UNCHANGED <<table, adding, added>>
  PROVE  Bounded'
<1>1. Listed' = Listed
  BY DEF Listed
<1> QED BY <1>1, BoundKept

-----------------------------------------------------------------------------
LEMMA InitInv == Init => Inv
<1> SUFFICES ASSUME Init PROVE Inv
  OBVIOUS
<1> USE PresenceAssumption, Sizes DEF Init
<1>1. TypeOK
  BY DEF TypeOK, Phase, Packet, Listed, Age
<1>2. Alive
  BY DEF Alive, Serving
<1>3. Farewell /\ LocksApart
  BY DEF Farewell, LocksApart
<1>4. Bounded
  <2>1. Listed = {}
    BY DEF Listed
  <2> QED BY <2>1, FS_EmptySet DEF Bounded, Pending
<1> QED BY <1>1, <1>2, <1>3, <1>4 DEF Inv

-----------------------------------------------------------------------------
(* The other devices. *)

LEMMA StartServerStep ==
  ASSUME Inv, NEW d \in Device, StartServer(d)
  PROVE  Inv'
<1> USE DEF Inv, StartServer, lists, known, locks
<1>1. TypeOK'
  BY Sizes DEF TypeOK, Phase, Listed
<1>2. Alive'
  BY Sizes, FriendsAreDevices DEF TypeOK, Phase, Packet, Alive, Serving, Age
<1>3. Farewell' /\ LocksApart'
  BY DEF Farewell, LocksApart, Recent
<1>4. Bounded'
  BY SameTable
<1> QED BY <1>1, <1>2, <1>3, <1>4

LEMMA AnnounceStep ==
  ASSUME Inv, NEW d \in Device, AnnouncePass(d) \/ StopServer(d) \/ SetPeering(d)
  PROVE  Inv'
<1> USE DEF Inv, lists, known, locks, others
<1>1. /\ net' \subseteq net \cup {Hi(d), Bye(d)}
      /\ Hi(d) \in net' => Hi(d) \in net \/ Serving(d)
      /\ \A e \in Device : Serving(e)' => Serving(e)
      /\ UNCHANGED <<here, lists, known, locks, silent, added>>
      /\ phase' \in [Device -> Phase] /\ peering' \in [Device -> BOOLEAN]
  BY DEF AnnouncePass, StopServer, SetPeering, Says, Serving, TypeOK, Phase, Hi, Bye
<1>2. TypeOK'
  <2>1. Hi(d) \in Packet /\ Bye(d) \in Packet
    BY DEF Packet, Hi, Bye
  <2>2. net' \subseteq Packet
    BY <1>1, <2>1 DEF TypeOK
  <2> QED BY <1>1, <2>2 DEF TypeOK, Listed
<1>3. Alive'
  <2>1. ASSUME NEW p \in net', p.alive PROVE silent'[p.from] = 0
    <3>1. p # Bye(d)
      BY <2>1 DEF Bye
    <3>2. CASE p \in net
      BY <1>1, <2>1, <3>2 DEF Alive
    <3>3. CASE p = Hi(d) /\ p \notin net
      BY <1>1, <3>3 DEF Alive, Hi
    <3> QED BY <1>1, <3>1, <3>2, <3>3
  <2> QED BY <1>1, <2>1 DEF TypeOK, Alive
<1>4. Farewell' /\ LocksApart'
  BY <1>1 DEF Farewell, LocksApart, Recent
<1>5. Bounded'
  BY <1>1, SameTable
<1> QED BY <1>2, <1>3, <1>4, <1>5

-----------------------------------------------------------------------------
(* The table. *)

\* A new entry that takes the place of another leaves the table as long.
LEMMA Replaced ==
  ASSUME Inv, NEW d \in Device \ Listed, NEW old \in Listed,
         table' = [table EXCEPT ![old] = Absent, ![d] = 0]
  PROVE  /\ Listed' = (Listed \ {old}) \cup {d}
         /\ Cardinality(Listed') = Cardinality(Listed)
<1>1. Listed' = (Listed \ {old}) \cup {d}
  BY PresenceAssumption DEF Listed, Inv, TypeOK
<1>2. IsFiniteSet(Listed \ {old}) /\ Cardinality(Listed \ {old}) = Cardinality(Listed) - 1
  BY ListedFinite, FS_RemoveElement
<1>3. Cardinality(Listed') = Cardinality(Listed \ {old}) + 1
  BY <1>1, <1>2, FS_AddElement
<1> QED BY <1>1, <1>2, <1>3, ListedFinite

LEMMA HiStep ==
  ASSUME Inv, NEW d \in Device, ReceiveHi(d)
  PROVE  Inv'
<1> USE DEF Inv, ReceiveHi, known, locks, others
<1>0. silent[d] = 0 /\ d # goodbye /\ goodbye = Nobody /\ lister = "idle"
  BY PresenceAssumption DEF Alive, Hi, TableFree
<1>1. CASE d \notin Listed /\ Full
  <2>1. PICK old \in Listed :
          /\ Stalest(old)
          /\ table' = [table EXCEPT ![old] = Absent, ![d] = 0]
          /\ manual' = manual \ {old}
    BY <1>1
  <2>2. TypeOK'
    <3>0. Listed' = (Listed \ {old}) \cup {d} /\ manual \subseteq Listed
      BY <1>1, <2>1, Replaced DEF TypeOK
    <3>1. manual' \subseteq Listed'
      BY <2>1, <3>0
    <3>2. table' \in [Device -> Age]
      BY <2>1, Sizes DEF TypeOK, Age
    <3> QED BY <2>1, <3>1, <3>2 DEF TypeOK, Age
  <2>3. Alive'
    BY <1>0, <2>1 DEF Alive, Serving, TypeOK, Listed
  <2>4. Farewell' /\ LocksApart'
    BY <1>0, <2>1 DEF Farewell, LocksApart, Recent, TypeOK
  <2>5. Bounded'
    BY <1>1, <2>1, Replaced DEF Bounded, Pending
  <2> QED BY <2>2, <2>3, <2>4, <2>5
<1>2. CASE ~(d \notin Listed /\ Full)
  <2>1. table' = [table EXCEPT ![d] = 0] /\ manual' = manual
    BY <1>2
  <2>2. Listed' = Listed \cup {d}
    BY <2>1, PresenceAssumption DEF Listed, TypeOK
  <2>3. TypeOK'
    BY <2>1, <2>2, Sizes DEF TypeOK, Age
  <2>4. Alive'
    BY <1>0, <2>1 DEF Alive, Serving, TypeOK
  <2>5. Farewell' /\ LocksApart'
    BY <1>0, <2>1 DEF Farewell, LocksApart, Recent, TypeOK
  <2>6. Bounded'
    <3>1. Cardinality(Listed') = IF d \in Listed THEN Cardinality(Listed)
                                 ELSE Cardinality(Listed) + 1
      BY <2>2, ListedFinite, FS_AddElement
    <3>2. d \in Listed \/ Cardinality(Listed) < Cap
      BY <1>2, ListedFinite, PresenceAssumption DEF Full
    <3> QED BY <3>1, <3>2, ListedFinite, PresenceAssumption DEF Bounded, Pending, TypeOK
  <2> QED BY <2>3, <2>4, <2>5, <2>6
<1> QED BY <1>1, <1>2

LEMMA ByeStep ==
  ASSUME Inv, NEW d \in Device, ReceiveBye(d)
  PROVE  Inv'
<1> USE DEF Inv, ReceiveBye, known, others
<1>1. /\ table' \in [Device -> Age]
      /\ \A e \in Device : /\ table'[e] = Absent <=> table[e] = Absent
                           /\ table'[e] = table[e] \/ (e = d /\ table'[e] = Offline)
      /\ ~Recent(table'[d])
  BY Sizes, PresenceAssumption DEF BackDated, Listed, TypeOK, Age, Recent, Offline
<1>2. Listed' = Listed
  BY <1>1 DEF Listed
<1>3. TypeOK'
  BY <1>1, <1>2 DEF TypeOK, Age
<1>4. Alive'
  BY <1>1, Sizes DEF Alive, TypeOK, Serving
<1>5. Farewell' /\ LocksApart'
  BY <1>1 DEF Farewell, LocksApart, TableFree, TypeOK, Recent
<1>6. Bounded'
  BY <1>2, BoundKept
<1> QED BY <1>3, <1>4, <1>5, <1>6

LEMMA ForgetStep ==
  ASSUME Inv, ForgetContact
  PROVE  Inv'
<1> USE DEF Inv, ForgetContact, DropStamp, known, others
<1>1. TypeOK'
  BY DEF TypeOK, Listed
<1>2. Alive'
  BY DEF Alive, TypeOK, Serving
<1>3. Farewell' /\ LocksApart'
  BY DEF Farewell, LocksApart, TypeOK, Recent
<1>4. Bounded'
  BY SameTable
<1> QED BY <1>1, <1>2, <1>3, <1>4

LEMMA SweepStep ==
  ASSUME Inv, Sweep
  PROVE  Inv'
<1> USE DEF Inv, Sweep, known, locks, others
<1>1. /\ Listed' \subseteq Listed
      /\ \A d \in Device : table'[d] = table[d] \/ table'[d] = Absent
      /\ manual \subseteq Listed'
  BY DEF Listed, Expired, TypeOK
<1>2. TypeOK'
  BY <1>1 DEF TypeOK
<1>3. Alive'
  BY <1>1 DEF Alive, TypeOK, Serving
<1>4. Farewell' /\ LocksApart'
  BY <1>1 DEF Farewell, LocksApart, TypeOK, Recent
<1>5. Bounded'
  BY <1>1, BoundKept
<1> QED BY <1>2, <1>3, <1>4, <1>5

LEMMA HelloStep ==
  ASSUME Inv, NEW d \in Device, HelloAnswered(d)
  PROVE  Inv'
<1> USE DEF Inv, HelloAnswered, lists, known, others
<1>1. TypeOK'
  BY PresenceAssumption DEF TypeOK, Listed
<1>2. Alive'
  BY DEF Alive, TypeOK, Serving
<1>3. Farewell' /\ LocksApart'
  BY DEF Farewell, LocksApart, Recent
<1>4. Bounded'
  <2>1. Listed' = Listed
    BY DEF Listed
  <2> QED BY <2>1, ListedFinite, PresenceAssumption DEF Bounded, Pending, TypeOK
<1> QED BY <1>1, <1>2, <1>3, <1>4

LEMMA AddStep ==
  ASSUME Inv, AddByAddress
  PROVE  Inv'
<1> USE DEF Inv, AddByAddress, known, others
<1>1. adding \in Device /\ goodbye = Nobody /\ lister = "idle"
  BY DEF TypeOK, TableFree
<1>2. Listed' = Listed \cup {adding}
  BY <1>1, PresenceAssumption DEF Listed, TypeOK
<1>3. TypeOK'
  BY <1>1, <1>2, Sizes DEF TypeOK, Age
<1>4. Alive'
  BY <1>1 DEF Alive, Serving, TypeOK
<1>5. Farewell' /\ LocksApart'
  BY <1>1 DEF Farewell, LocksApart, Recent, TypeOK
<1>6. Bounded'
  <2>1. Cardinality(Listed') <= Cardinality(Listed) + 1
    BY <1>2, ListedFinite, FS_AddElement
  <2> QED BY <1>1, <2>1, ListedFinite, ListedFiniteNext, PresenceAssumption
          DEF Bounded, Pending, TypeOK
<1> QED BY <1>3, <1>4, <1>5, <1>6

-----------------------------------------------------------------------------
(* The registry, the listing thread and direct contact. *)

LEMMA RegistryStep ==
  ASSUME Inv, \/ \E f \in Friend, to \in {"none", "peer", "blocked"}, age \in 0..Offline :
                    ChangePeer(f, to, age)
              \/ InstallPeers
              \/ ListPeers
  PROVE  Inv'
<1> USE DEF Inv, lists, known, others
<1>1. /\ change' \in Change \cup {NoChange}
      /\ peer' \in [Friend -> {"none", "peer", "blocked"}]
      /\ paired' \in [Friend -> 0..Offline]
      /\ lister' \in {"idle", "table", "both"}
      /\ UNCHANGED <<others, net, lists, goodbye, dial, visit, adding, silent, added>>
  BY DEF ChangePeer, InstallPeers, ListPeers, TypeOK, Change
<1>2. LocksApart'
  BY DEF ChangePeer, InstallPeers, ListPeers, MayChange, TableFree, LocksApart
<1>3. TypeOK'
  BY <1>1 DEF TypeOK, Change, Listed
<1>4. Alive' /\ Farewell'
  BY <1>1 DEF Alive, Farewell, Serving, Recent
<1>5. Bounded'
  BY <1>1, SameTable
<1> QED BY <1>2, <1>3, <1>4, <1>5

LEMMA ContactStep ==
  ASSUME Inv, NEW f \in Friend, Endpoint(f) \/ Resolve(f) \/ Answer(f) \/ DialFails(f)
  PROVE  Inv'
<1> USE DEF Inv, OnlyDial, DialStep, lists, known, others
<1>1. /\ dial' \in [Friend -> {"idle", "registry", "asked", "answered"}]
      /\ \A g \in Friend : dial'[g] = "answered" => dial[g] = "answered" \/ Serving(g)
      /\ OnlyDial
  BY FriendsAreDevices DEF Endpoint, Resolve, Answer, DialFails, TypeOK
<1>2. TypeOK'
  BY <1>1 DEF TypeOK, Listed
<1>3. Alive'
  BY <1>1, FriendsAreDevices DEF Alive, Serving
<1>4. Farewell' /\ LocksApart'
  BY <1>1 DEF Farewell, LocksApart, Recent
<1>5. Bounded'
  BY <1>1, SameTable
<1> QED BY <1>2, <1>3, <1>4, <1>5

LEMMA StampStep ==
  ASSUME Inv, NEW f \in Friend, NotePeerSeen(f) \/ StampVisit(f)
  PROVE  Inv'
<1> USE DEF Inv, DialStep, Stamped, NotePeerSeen, StampVisit, known, others
<1>1. /\ dial' \in [Friend -> {"idle", "registry", "asked", "answered"}]
      /\ \A g \in Friend : dial'[g] = "answered" => dial[g] = "answered"
      /\ visit' \subseteq visit
      /\ stamp' = [stamp EXCEPT ![f] = 0] /\ left' = left \ {f}
      /\ silent[f] = 0
      /\ UNCHANGED <<others, net, table, manual, known, lister, change, goodbye, adding,
                     silent, added>>
  BY DEF TypeOK, Alive
<1>2. TypeOK'
  BY <1>1, Sizes DEF TypeOK, Listed
<1>3. Alive'
  BY <1>1 DEF Alive, Serving, TypeOK
<1>4. Farewell' /\ LocksApart'
  BY <1>1 DEF Farewell, LocksApart, Recent, TypeOK
<1>5. Bounded'
  BY <1>1, SameTable
<1> QED BY <1>2, <1>3, <1>4, <1>5

LEMMA AdmitStep ==
  ASSUME Inv, NEW f \in Friend, Admit(f)
  PROVE  Inv'
<1> USE DEF Inv, Admit, lists, known, others
<1>1. TypeOK'
  BY Sizes, FriendsAreDevices DEF TypeOK, Listed
<1>2. Alive'
  BY Sizes, FriendsAreDevices DEF Alive, Serving, TypeOK, Packet, Age
<1>3. Farewell' /\ LocksApart'
  BY DEF Farewell, LocksApart, Recent
<1>4. Bounded'
  BY SameTable
<1> QED BY <1>1, <1>2, <1>3, <1>4

-----------------------------------------------------------------------------
(* Time. *)

\* A tick keeps every age in its range, and older things older.
LEMMA TickAges ==
  ASSUME Inv, Tick
  PROVE  /\ table' \in [Device -> Age] /\ Listed' = Listed
         /\ stamp' \in [Friend -> 0..Offline \cup {Absent}]
         /\ paired' \in [Friend -> 0..Offline]
         /\ silent' \in [Device -> 0..Offline]
         /\ \A d \in Device : ~Recent(table[d]) => ~Recent(table'[d])
         /\ \A f \in Friend : stamp[f] = Absent => stamp'[f] = Absent
<1> USE DEF Inv, Tick
<1>1. \A d \in Device : table[d] \in 0..Evicted \cup {Absent} /\ table'[d] = Later(table[d], Evicted)
  BY DEF TypeOK
<1>2. \A f \in Friend : /\ stamp[f] \in 0..Offline \cup {Absent}
                        /\ stamp'[f] = Later(stamp[f], Offline)
                        /\ paired[f] \in 0..Offline /\ paired[f] # Absent
                        /\ paired'[f] = Later(paired[f], Offline)
  BY PresenceAssumption DEF TypeOK
<1>3. \A d \in Device : /\ silent[d] \in 0..Offline /\ silent[d] # Absent
                        /\ silent'[d] = IF Serving(d) THEN 0 ELSE Later(silent[d], Offline)
  BY PresenceAssumption DEF TypeOK
<1>4. table' \in [Device -> Age] /\ Listed' = Listed
  BY <1>1, LaterFacts, Sizes DEF Age, Listed
<1>5. stamp' \in [Friend -> 0..Offline \cup {Absent}] /\ paired' \in [Friend -> 0..Offline]
  BY <1>2, LaterFacts, Sizes
<1>6. silent' \in [Device -> 0..Offline]
  BY <1>3, LaterFacts, Sizes
<1>7. \A d \in Device : ~Recent(table[d]) => ~Recent(table'[d])
  BY <1>1, PresenceAssumption DEF Later, Recent
<1>8. \A f \in Friend : stamp[f] = Absent => stamp'[f] = Absent
  BY <1>2 DEF Later
<1> QED BY <1>4, <1>5, <1>6, <1>7, <1>8

LEMMA TickStep ==
  ASSUME Inv, Tick
  PROVE  Inv'
<1> USE DEF Inv, Tick, others, locks
<1>1. TypeOK'
  BY TickAges DEF TypeOK, Age
<1>2. Alive'
  <2>1. ASSUME NEW d \in Device, table'[d] # Absent
        PROVE  silent'[d] <= table'[d]
    <3>0. table[d] \in 0..Evicted \cup {Absent} /\ table'[d] = Later(table[d], Evicted)
      BY DEF TypeOK
    <3>5. table[d] # Absent
      BY <2>1, <3>0 DEF Later
    <3>6. Later(table[d], Evicted) \in 0..Evicted
      BY <3>0, <3>5, LaterFacts, Sizes
    <3>1. /\ table[d] \in 0..Evicted /\ silent[d] \in 0..Offline
          /\ silent[d] <= table[d] /\ table'[d] \in Nat
      BY <3>0, <3>5, <3>6, Sizes DEF Alive, TypeOK
    <3>2. Later(silent[d], Offline) <= Later(table[d], Evicted)
      BY <3>1, LaterOrder, Sizes, PresenceAssumption DEF Offline, Evicted
    <3>3. silent'[d] = 0 \/ silent'[d] = Later(silent[d], Offline)
      OBVIOUS
    <3> QED BY <3>0, <3>1, <3>2, <3>3
  <2>2. ASSUME NEW f \in Friend, stamp'[f] # Absent
        PROVE  silent'[f] <= stamp'[f]
    <3>0. stamp[f] \in 0..Offline \cup {Absent} /\ stamp'[f] = Later(stamp[f], Offline)
      BY DEF TypeOK
    <3>5. stamp[f] # Absent
      BY <2>2, <3>0 DEF Later
    <3>6. Later(stamp[f], Offline) \in 0..Offline
      BY <3>0, <3>5, LaterFacts, Sizes
    <3>1. /\ stamp[f] \in 0..Offline /\ silent[f] \in 0..Offline
          /\ silent[f] <= stamp[f] /\ stamp'[f] \in Nat
      BY <3>0, <3>5, <3>6, Sizes, FriendsAreDevices DEF Alive, TypeOK
    <3>2. Later(silent[f], Offline) <= Later(stamp[f], Offline)
      BY <3>1, LaterOrder, Sizes
    <3>3. silent'[f] = 0 \/ silent'[f] = Later(silent[f], Offline)
      BY FriendsAreDevices
    <3> QED BY <3>0, <3>1, <3>2, <3>3
  <2> QED BY <2>1, <2>2 DEF Alive, Serving, TypeOK
<1>3. Farewell' /\ LocksApart'
  BY TickAges DEF Farewell, LocksApart, TypeOK
<1>4. Bounded'
  BY TickAges, BoundKept
<1> QED BY <1>1, <1>2, <1>3, <1>4

-----------------------------------------------------------------------------
LEMMA StutterStep ==
  ASSUME Inv, UNCHANGED vars
  PROVE  Inv'
<1> USE DEF Inv, vars, lists, known, locks, others
<1>1. TypeOK'
  BY DEF TypeOK, Listed
<1>2. Alive' /\ Farewell' /\ LocksApart'
  BY DEF Alive, Farewell, LocksApart, Serving, Recent
<1>3. Bounded'
  BY SameTable
<1> QED BY <1>1, <1>2, <1>3

LEMMA StepInv == Inv /\ [Next]_vars => Inv'
<1> SUFFICES ASSUME Inv, [Next]_vars PROVE Inv'
  OBVIOUS
<1>1. ASSUME NEW d \in Device, DeviceStep(d) PROVE Inv'
  BY <1>1, StartServerStep, AnnounceStep, HiStep, ByeStep, HelloStep DEF DeviceStep
<1>2. ASSUME NEW f \in Friend, FriendStep(f) PROVE Inv'
  BY <1>2, RegistryStep, ContactStep, StampStep, AdmitStep DEF FriendStep
<1>3. ASSUME OwnStep PROVE Inv'
  BY <1>3, ForgetStep, SweepStep, AddStep, RegistryStep, TickStep DEF OwnStep
<1> QED BY <1>1, <1>2, <1>3, StutterStep DEF Next

-----------------------------------------------------------------------------
THEOREM PresenceInv == Spec => []Inv
<1> QED BY InitInv, StepInv, PTL DEF Spec

\* Ages stay in their ranges, and what is marked as typed in is in the table.
THEOREM PresenceTypes == Spec => []TypeOK
<1>1. Inv => TypeOK
  BY DEF Inv
<1> QED BY <1>1, PresenceInv, PTL

\* No device is shown online for longer than PEER_OFFLINE_AFTER_MS after its last
\* sign of life, a recent pairing apart (DiscoveredPeer::online, peer_seen_ms).
THEOREM PresenceIsFresh == Spec => []OnlineWasAlive
<1>1. Inv => OnlineWasAlive
  <2> SUFFICES ASSUME Inv PROVE OnlineWasAlive
    OBVIOUS
  <2> USE DEF Inv, TypeOK, Alive, Recent
  <2>1. ASSUME NEW d \in Device, Recent(table[d]) PROVE silent[d] <= OfflineAfter
    <3>1. table[d] \in Nat /\ silent[d] \in Nat /\ silent[d] <= table[d]
      BY <2>1
    <3> QED BY <2>1, <3>1, PresenceAssumption
  <2>2. ASSUME NEW f \in Friend, Recent(stamp[f]) PROVE silent[f] <= OfflineAfter
    <3>1. stamp[f] \in Nat /\ silent[f] \in Nat /\ silent[f] <= stamp[f]
      BY <2>2, FriendsAreDevices
    <3> QED BY <2>2, <3>1, PresenceAssumption
  <2> QED BY <2>1, <2>2, FriendsAreDevices DEF OnlineWasAlive, DeviceOnline, PeerOnline
<1> QED BY <1>1, PresenceInv, PTL

\* A goodbye counts at once in both lists (apply_beacon), a recent pairing apart.
THEOREM GoodbyesCount == Spec => []GoodbyeHides
<1>1. Inv => GoodbyeHides
  <2> SUFFICES ASSUME Inv PROVE GoodbyeHides
    OBVIOUS
  <2>1. \A d \in left : ~Recent(table[d]) /\ (d \in Friend => ~Recent(stamp[d]))
    BY DEF Inv, Farewell, Recent
  <2> QED BY <2>1 DEF GoodbyeHides, DeviceOnline, PeerOnline
<1> QED BY <1>1, PresenceInv, PTL

\* Beacons alone never grow the table past DISCOVERED_CAP (apply_beacon).
THEOREM BeaconsBounded == Spec => []TableBounded
<1>1. Inv => TableBounded
  BY ListedFinite, PresenceAssumption DEF Inv, TypeOK, Bounded, Pending, TableBounded
<1> QED BY <1>1, PresenceInv, PTL

\* The nesting of the table, peer_seen and the registry never closes a ring of
\* waiting threads (list_peers, peer_endpoint, apply_beacon).
THEOREM NeverAtAStandstill == Spec => []NoStandstill
<1>1. Inv => NoStandstill
  <2> SUFFICES ASSUME Inv, Standing PROVE CanGoOn
    BY DEF NoStandstill
  <2>1. lister \in {"idle", "table", "both"} /\ LocksApart
    BY DEF Inv, TypeOK
  <2>2. CASE lister # "idle"
    BY <2>1, <2>2 DEF CanGoOn, Readable, LocksApart
  <2>3. CASE lister = "idle" /\ goodbye # Nobody
    BY <2>3 DEF CanGoOn, SeenFree
  <2>4. CASE lister = "idle" /\ goodbye = Nobody
    BY <2>4 DEF CanGoOn, Standing, SeenFree, TableFree, Writable
  <2> QED BY <2>2, <2>3, <2>4
<1> QED BY <1>1, PresenceInv, PTL

\* A device that is online, or was typed in, leaves the table only for as many
\* fresher ones as the table holds (apply_beacon's eviction, sweep).
THEOREM OnlyFresherOnesDisplace == Spec => MakesRoom
<1> DEFINE Room(d) == DeviceOnline(d) \/ d \in manual
                      => Cardinality({o \in Listed' : table'[o] <= table[d]}) >= Cap
<1>1. ASSUME Inv, NEW d \in Listed \ Listed', UNCHANGED table PROVE FALSE
  BY <1>1 DEF Listed
<1>2. ASSUME Inv, NEW d \in Listed \ Listed', NEW e \in Device, ReceiveHi(e) PROVE Room(d)
  <2> USE <1>2 DEF Inv
  <2>1. CASE e \notin Listed /\ Full
    <3>1. PICK old \in Listed :
            Stalest(old) /\ table' = [table EXCEPT ![old] = Absent, ![e] = 0]
      BY <2>1 DEF ReceiveHi
    <3>2. Listed' = (Listed \ {old}) \cup {e} /\ Cardinality(Listed') = Cardinality(Listed)
      BY <2>1, <3>1, Replaced
    <3>3. d = old
      BY <3>2
    <3>4. \A o \in Listed' : table'[o] <= table[d]
      <4> SUFFICES ASSUME NEW o \in Listed' PROVE table'[o] <= table[d]
        OBVIOUS
      <4>1. table[d] \in Nat
        BY DEF TypeOK, Listed
      <4>2. CASE o = e
        BY <2>1, <3>1, <4>1, <4>2 DEF TypeOK
      <4>3. CASE o # e
        BY <3>1, <3>2, <3>3, <4>3 DEF TypeOK, Stalest, Listed
      <4> QED BY <4>2, <4>3
    <3>5. {o \in Listed' : table'[o] <= table[d]} = Listed'
      BY <3>4
    <3> QED BY <2>1, <3>2, <3>5 DEF Full
  <2>2. CASE ~(e \notin Listed /\ Full)
    BY <2>2, PresenceAssumption DEF ReceiveHi, Listed, TypeOK
  <2> QED BY <2>1, <2>2
<1>3. ASSUME Inv, NEW d \in Listed \ Listed', Sweep PROVE Room(d)
  <2>1. Expired(d) /\ table[d] \in Nat
    BY <1>3 DEF Sweep, Listed, Inv, TypeOK
  <2> QED BY <2>1, PresenceAssumption DEF Expired, DeviceOnline, Recent
<1>4. ASSUME Inv, NEW d \in Listed \ Listed', NEW e \in Device, ReceiveBye(e) PROVE FALSE
  BY <1>4, Sizes, PresenceAssumption DEF ReceiveBye, BackDated, Listed, Inv, TypeOK
<1>5. ASSUME Inv, NEW d \in Listed \ Listed', AddByAddress PROVE FALSE
  BY <1>5, PresenceAssumption DEF AddByAddress, Listed, Inv, TypeOK
<1>6. ASSUME Inv, NEW d \in Listed \ Listed', Tick PROVE FALSE
  BY <1>6, TickAges
<1>7. ASSUME Inv, NEW d \in Listed \ Listed', [Next]_vars PROVE Room(d)
  <2>1. CASE UNCHANGED table
    BY <1>1, <1>7, <2>1
  <2>2. CASE ~UNCHANGED table
    <3>1. ASSUME NEW e \in Device, DeviceStep(e) PROVE Room(d)
      BY <1>2, <1>4, <1>7, <2>2, <3>1
         DEF DeviceStep, StartServer, AnnouncePass, StopServer, SetPeering, HelloAnswered, lists
    <3>2. ASSUME NEW f \in Friend, FriendStep(f) PROVE FALSE
      BY <2>2, <3>2
         DEF FriendStep, ChangePeer, Endpoint, Resolve, Answer, DialFails, NotePeerSeen, Admit,
             StampVisit, OnlyDial, lists
    <3>3. ASSUME OwnStep PROVE Room(d)
      BY <1>3, <1>5, <1>6, <1>7, <2>2, <3>3
         DEF OwnStep, ForgetContact, InstallPeers, ListPeers, lists
    <3> QED BY <1>7, <2>2, <3>1, <3>2, <3>3 DEF Next, vars, lists
  <2> QED BY <2>1, <2>2
<1>8. Inv /\ [Next]_vars
        => [\A d \in Listed \ Listed' : Room(d)]_vars
  BY <1>7
<1> QED BY <1>8, PresenceInv, PTL DEF Spec, MakesRoom
=============================================================================
