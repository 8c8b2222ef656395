--------------------------- MODULE PairingProofs ---------------------------
(***************************************************************************)
(* Proofs about pairing for any devices, any exchanges between them and    *)
(* any limits.  Everything rests on one inductive invariant, which follows *)
(* an exchange from its request to the peers the two devices store.        *)
(***************************************************************************)
EXTENDS Pairing, TLAPS

\* Until its request is stored nothing else is known of an exchange.
FreshInv == \A x \in Exch : NotYetStored(x) =>
  /\ pending[x].state = "absent" /\ minted[x] = 0 /\ handed[x] = 0
  /\ reply[x] = "none"
  /\ task[x] \in {"idle", "request", "failed"}
  /\ task[x] = "idle" => call[x] = "none" /\ x \notin checked
  /\ x \in checked => call[x] = "none"

\* The responder mints one token, at the acceptance, and hands over that one.
TokenInv == \A x \in Exch :
  /\ minted[x] \in {0, 1}
  /\ pending[x].state \in {"committed", "waiting"} => minted[x] = 0
  /\ pending[x].state = "accepted" => minted[x] = 1 /\ pending[x].token = 1
  /\ handed[x] # 0 => handed[x] = 1 /\ minted[x] = 1 /\ pending[x].state = "absent"
  /\ task[x] = "store" \/ reply[x] = "accepted" => handed[x] = 1
  /\ x \in accepting => minted[x] = 1

\* No prompt, and no acceptance, before the reveal.
Begun(x) == task[x] \notin {"idle", "request"}
RevealInv ==
  /\ \A x \in Exch :
       call[x] = "reveal" \/ pending[x].state \in {"waiting", "accepted"} => Begun(x)
  /\ \A d \in Device : /\ shown[d] \in Exch => Begun(shown[d])
                       /\ listing[d] \in Exch => Begun(listing[d])

Inv == TypeOK /\ FreshInv /\ TokenInv /\ RevealInv /\ PeersAreAccepted

-----------------------------------------------------------------------------
\* Nothing has been asked, minted or stored at the start.
LEMMA InitInv == Init => Inv
<1> SUFFICES ASSUME Init PROVE Inv
  OBVIOUS
<1> USE DeviceAssumption, TimerAssumption, NoExchAssumption
<1>1. TypeOK
  BY DEF Init, TypeOK, TaskState, Call, Reply, Entry, PairState, Gone, AttemptState,
         NoAttempts, Peer, NoPeer
<1>2. FreshInv /\ TokenInv
  BY DEF Init, FreshInv, TokenInv, NotYetStored, Gone
<1>3. RevealInv
  BY DEF Init, RevealInv, Begun, Gone
<1>4. PeersAreAccepted
  BY DEF Init, PeersAreAccepted, NoPeer
<1> QED BY <1>1, <1>2, <1>3, <1>4 DEF Inv

-----------------------------------------------------------------------------
(* Updates keep a function, and a function of functions, in its set. *)

LEMMA Update1 ==
  ASSUME NEW S, NEW T, NEW f \in [S -> T], NEW x \in S, NEW v \in T
  PROVE  [f EXCEPT ![x] = v] \in [S -> T]
  OBVIOUS

LEMMA Update2 ==
  ASSUME NEW S, NEW T, NEW f \in [S -> [S -> T]], NEW x \in S, NEW y \in S, NEW v \in T
  PROVE  [f EXCEPT ![x][y] = v] \in [S -> [S -> T]]
<1>1. [f[x] EXCEPT ![y] = v] \in [S -> T]
  OBVIOUS
<1> QED BY <1>1

\* What an exchange's entry may become.
LEMMA EntryTypes ==
  /\ Gone \in Entry /\ NewEntry \in Entry
  /\ \A p \in Entry :
       /\ p.token \in Nat
       /\ [p EXCEPT !.ttl = Down(@)] \in Entry
       /\ \A s \in PairState, t \in Nat :
            [p EXCEPT !.state = s] \in Entry /\ [p EXCEPT !.state = s, !.token = t] \in
                Entry
<1> USE TimerAssumption
<1>1. Gone \in Entry /\ NewEntry \in Entry
  BY DEF Entry, PairState, Gone, NewEntry
<1> SUFFICES ASSUME NEW p \in Entry
    PROVE  /\ p.token \in Nat
           /\ [p EXCEPT !.ttl = Down(@)] \in Entry
           /\ \A s \in PairState, t \in Nat :
                [p EXCEPT !.state = s] \in Entry /\ [p EXCEPT !.state = s, !.token = t] \in
                    Entry
  BY <1>1
<1>2. p.token \in Nat
  BY DEF Entry
<1>3. [p EXCEPT !.ttl = Down(@)] \in Entry
  BY DEF Entry, Down
<1>4. ASSUME NEW s \in PairState, NEW t \in Nat
      PROVE  [p EXCEPT !.state = s] \in Entry /\ [p EXCEPT !.state = s, !.token = t] \in
          Entry
  BY DEF Entry
<1> QED BY <1>2, <1>3, <1>4

\* What a step that changes one field leaves of the others.
LEMMA EntryFields ==
  ASSUME NEW p \in Entry
  PROVE  /\ [p EXCEPT !.ttl = Down(@)].state = p.state
         /\ [p EXCEPT !.ttl = Down(@)].token = p.token
         /\ [p EXCEPT !.ttl = Down(@)].ttl = Down(p.ttl)
         /\ \A s : [p EXCEPT !.state = s].state = s
         /\ \A s, t : /\ [p EXCEPT !.state = s, !.token = t].state = s
                     /\ [p EXCEPT !.state = s, !.token = t].token = t
                     /\ [p EXCEPT !.state = s, !.token = t].ttl = p.ttl
BY DEF Entry

LEMMA AttemptTypes ==
  ASSUME TypeOK
  PROVE  /\ NoAttempts \in AttemptState
         /\ \A a \in AttemptState : Failed(a) \in AttemptState
         /\ \A a \in AttemptState : [a EXCEPT !.locked = Down(@)] \in AttemptState
BY TimerAssumption DEF AttemptState, NoAttempts, Failed, Down

\* Saving any well-formed peer keeps the file and the live registry well formed.
LEMMA SaveTypes ==
  ASSUME TypeOK, NEW d \in Device, NEW e \in Device, NEW p \in Peer
  PROVE  /\ [file EXCEPT ![d][e] = p] \in [Device -> [Device -> Peer]]
         /\ SavedAndApplied([file EXCEPT ![d][e] = p], d)
              => /\ file' \in [Device -> [Device -> Peer]]
                 /\ live' \in [Device -> [Device -> Peer]]
<1> DEFINE files == [file EXCEPT ![d][e] = p]
<1>1. files \in [Device -> [Device -> Peer]]
  BY Update2 DEF TypeOK
<1>2. files[d] \in [Device -> Peer]
  BY <1>1
<1>3. [live EXCEPT ![d] = files[d]] \in [Device -> [Device -> Peer]]
  BY <1>2, Update1 DEF TypeOK
<1> QED BY <1>1, <1>3 DEF SavedAndApplied

\* A listing shows nothing, or a prompt that waits.
LEMMA ListingUpdate ==
  ASSUME NEW d, ListPrompts(d)
  PROVE  \E p \in Exch \cup {NoExch} :
           /\ listing' = [listing EXCEPT ![d] = p]
           /\ p = NoExch \/ pending[p].state = "waiting"
<1>1. \A p \in Prompts(d) : p \in Exch /\ pending[p].state = "waiting"
  BY DEF Prompts
<1> QED BY <1>1 DEF ListPrompts

-----------------------------------------------------------------------------
\* Every step keeps every variable of its kind.
LEMMA TypeStep == TypeOK /\ [Next]_vars => TypeOK'
<1> SUFFICES ASSUME TypeOK, [Next]_vars PROVE TypeOK'
  OBVIOUS
<1> USE DeviceAssumption, TimerAssumption, NoExchAssumption
<1> USE DEF TypeOK, taskVars, netVars, pairVars, limitVars, uiVars, configVars
<1>1. ASSUME NEW x \in Exch, StartPairing(x) PROVE TypeOK'
  BY <1>1 DEF StartPairing, TaskState, Call
<1>2. ASSUME NEW x \in Exch, Reveal(x) PROVE TypeOK'
  BY <1>2 DEF Reveal, BodyRead, TaskState, Call, Reply
<1>3. ASSUME NEW x \in Exch, AwaitAnswer(x) PROVE TypeOK'
  BY <1>3 DEF AwaitAnswer, BodyRead, TaskState, Reply
<1>4. ASSUME NEW x \in Exch, SendPoll(x) PROVE TypeOK'
  BY <1>4 DEF SendPoll, TaskState, Call
<1>5. ASSUME NEW x \in Exch, PollAnswered(x) PROVE TypeOK'
  BY <1>5 DEF PollAnswered, BodyRead, AfterPoll, TaskState, Reply
<1>6. ASSUME NEW x \in Exch, CallFails(x) \/ ReplyFails(x) PROVE TypeOK'
  <2>1. /\ reply' = [reply EXCEPT ![x] = "none"]
        /\ reading' = reading \ {x} \/ reading' = reading
    BY <1>6 DEF CallFails, ReplyFails, BodyRead
  <2>2. reply' \in [Exch -> Reply]
    BY <2>1 DEF Reply
  <2>3. GiveUp(x)
    BY <1>6 DEF CallFails, ReplyFails
  <2>4. task' \in [Exch -> TaskState]
    BY <2>3 DEF GiveUp, TaskState
  <2> QED BY <2>1, <2>2, <2>3, <2>4 DEF GiveUp
<1>7. ASSUME NEW x \in Exch, StopWaiting(x) PROVE TypeOK'
  BY <1>7 DEF StopWaiting, GiveUp, TaskState
<1>8. ASSUME NEW x \in Exch, StorePeer(x) PROVE TypeOK'
  <2>1. [exch |-> x, token |-> handed[x]] \in Peer
    BY DEF Peer
  <2>2. file' \in [Device -> [Device -> Peer]]
    <3>1. From[x] \in Device /\ To[x] \in Device
      OBVIOUS
    <3>2. [file EXCEPT ![From[x]][To[x]] = [exch |-> x, token |-> handed[x]]]
            \in [Device -> [Device -> Peer]]
      BY <2>1, <3>1, SaveTypes
    <3> QED BY <1>8, <3>2 DEF StorePeer
  <2> QED BY <1>8, <2>2 DEF StorePeer, TaskState
<1>9. ASSUME NEW x \in Exch, CheckRequest(x) PROVE TypeOK'
  BY <1>9 DEF CheckRequest, Taken, Answer, Call, Reply
<1>10. ASSUME NEW x \in Exch, StoreRequest(x) PROVE TypeOK'
  <2>1. pending' \in [Exch -> Entry]
    BY <1>10, EntryTypes DEF StoreRequest
  <2>2. attempts' \in [Device -> [Device -> AttemptState]]
    BY <1>10, AttemptTypes, Update2 DEF StoreRequest
  <2> QED BY <1>10, <2>1, <2>2 DEF StoreRequest, Answer, Reply
<1>11. ASSUME NEW x \in Exch, HandleReveal(x) PROVE TypeOK'
  <2>2. pending' \in [Exch -> Entry]
    <3> DEFINE p == [pending[x] EXCEPT !.state = "waiting"]
    <3>1. p \in Entry /\ Gone \in Entry
      BY EntryTypes DEF PairState
    <3>2. \/ pending' = pending
          \/ pending' = [pending EXCEPT ![x] = p]
          \/ pending' = [pending EXCEPT ![x] = Gone]
      BY <1>11 DEF HandleReveal
    <3> HIDE DEF p
    <3> QED BY <3>1, <3>2
  <2>3. reply' \in [Exch -> Reply]
    BY <1>11 DEF HandleReveal, Answer, Reply
  <2> QED BY <1>11, <2>2, <2>3 DEF HandleReveal, Taken, Call
<1>12. ASSUME NEW x \in Exch, HandlePoll(x) PROVE TypeOK'
  <2>1. pending' \in [Exch -> Entry]
    <3>1. pending' = pending \/ pending' = [pending EXCEPT ![x] = Gone]
      BY <1>12 DEF HandlePoll
    <3> QED BY <3>1, EntryTypes
  <2>2. pending[x].token \in Nat
    BY DEF Entry
  <2>3. handed' \in [Exch -> Nat]
    BY <1>12, <2>2 DEF HandlePoll
  <2>4. reply' \in [Exch -> Reply]
    BY <1>12 DEF HandlePoll, Answer, Reply
  <2> QED BY <1>12, <2>1, <2>3, <2>4 DEF HandlePoll, Taken, Call
<1>13. ASSUME NEW x \in Exch, PersistAccepted(x) PROVE TypeOK'
  <2>1. [exch |-> x, token |-> minted[x]] \in Peer
    BY DEF Peer
  <2>2. file' \in [Device -> [Device -> Peer]] /\ live' \in [Device -> [Device -> Peer]]
    BY <1>13, <2>1, SaveTypes DEF PersistAccepted
  <2> QED BY <1>13, <2>2 DEF PersistAccepted
<1>14. ASSUME NEW d \in Device, SweepPairs(d) PROVE TypeOK'
  BY <1>14, EntryTypes DEF SweepPairs
<1>15. ASSUME NEW d \in Device, ListPrompts(d) PROVE TypeOK'
  <2>1. PICK p \in Exch \cup {NoExch} : listing' = [listing EXCEPT ![d] = p]
    BY <1>15, ListingUpdate
  <2>2. listing' \in [Device -> Exch \cup {NoExch, Unasked}]
    BY <2>1
  <2> QED BY <1>15, <2>2 DEF ListPrompts
<1>16. ASSUME NEW d \in Device, ShowPrompt(d) PROVE TypeOK'
  BY <1>16 DEF ShowPrompt
<1>17. ASSUME NEW d \in Device, AcceptPrompt(d) PROVE TypeOK'
  <2>1. shown[d] \in Exch
    BY <1>17 DEF AcceptPrompt
  <2>2. pending' \in [Exch -> Entry]
    <3> DEFINE p == [pending[shown[d]] EXCEPT !.state = "accepted",
                                              !.token = minted[shown[d]] + 1]
    <3>1. p \in Entry
      <4>1. minted[shown[d]] + 1 \in Nat /\ "accepted" \in PairState
        BY <2>1 DEF PairState
      <4> QED BY <2>1, <4>1, EntryTypes
    <3>2. pending' = pending \/ pending' = [pending EXCEPT ![shown[d]] = p]
      BY <1>17, <2>1 DEF AcceptPrompt, Entry
    <3> HIDE DEF p
    <3> QED BY <2>1, <3>1, <3>2
  <2>3. minted' \in [Exch -> Nat] /\ accepting' \in SUBSET Exch
    <3>1. \/ minted' = minted /\ accepting' = accepting
          \/ /\ minted' = [minted EXCEPT ![shown[d]] = @ + 1]
             /\ accepting' = accepting \cup {shown[d]}
      BY <1>17 DEF AcceptPrompt
    <3>2. [minted EXCEPT ![shown[d]] = @ + 1] \in [Exch -> Nat]
      BY <2>1
    <3> QED BY <2>1, <3>1, <3>2
  <2> QED BY <1>17, <2>2, <2>3 DEF AcceptPrompt
<1>18. ASSUME NEW d \in Device, DeclinePrompt(d) PROVE TypeOK'
  <2>1. shown[d] \in Exch
    BY <1>18 DEF DeclinePrompt
  <2>2. pending' \in [Exch -> Entry]
    <3> DEFINE p == [pending[shown[d]] EXCEPT !.state = "declined", !.token = 0]
    <3>1. p \in Entry
      BY <2>1, EntryTypes DEF PairState
    <3>2. pending' = pending \/ pending' = [pending EXCEPT ![shown[d]] = p]
      BY <1>18, <2>1 DEF DeclinePrompt, Entry
    <3> HIDE DEF p
    <3> QED BY <2>1, <3>1, <3>2
  <2> QED BY <1>18, <2>2 DEF DeclinePrompt
<1>19. ASSUME NEW d \in Device, MutateConfig(d) PROVE TypeOK'
  BY <1>19 DEF MutateConfig, SavedAndApplied
<1>20. ASSUME NEW d \in Device, Restart(d) PROVE TypeOK'
  <2>1. task' \in [Exch -> TaskState] /\ call' \in [Exch -> Call]
          /\ reply' \in [Exch -> Reply]
    BY <1>20 DEF Restart, TaskState, Call, Reply
  <2>2. pending' \in [Exch -> Entry]
    BY <1>20, EntryTypes DEF Restart
  <2>3. /\ attempts' \in [Device -> [Device -> AttemptState]]
        /\ refused' \in [Device -> [Device -> 0..MaxRefused]]
    BY <1>20, AttemptTypes, Update1 DEF Restart
  <2>4. live' \in [Device -> [Device -> Peer]]
    BY <1>20 DEF Restart
  <2>5. deadline' \in [Exch -> 0..(PairTTL + 1)]
    BY <1>20 DEF Restart
  <2> QED BY <1>20, <2>1, <2>2, <2>3, <2>4, <2>5 DEF Restart
<1>21. ASSUME NEW d \in Device, NEW e \in Device, CheckBadRequest(d, e) \/ CountFailure(d, e)
       PROVE  TypeOK'
  <2>1. CASE CheckBadRequest(d, e)
    <3>1. refused[d][e] + 1 \in 0..MaxRefused
      BY <2>1 DEF CheckBadRequest
    <3>2. refused' \in [Device -> [Device -> 0..MaxRefused]]
      BY <2>1, <3>1, Update2 DEF CheckBadRequest
    <3> QED BY <2>1, <3>2 DEF CheckBadRequest
  <2>2. CASE CountFailure(d, e)
    <3>1. Failed(attempts[d][e]) \in AttemptState /\ refused[d][e] - 1 \in 0..MaxRefused
      BY <2>2, AttemptTypes DEF CountFailure
    <3>2. attempts' \in [Device -> [Device -> AttemptState]]
      BY <2>2, <3>1, Update2 DEF CountFailure
    <3>3. refused' \in [Device -> [Device -> 0..MaxRefused]]
      BY <2>2, <3>1, Update2 DEF CountFailure
    <3> QED BY <2>2, <3>2, <3>3 DEF CountFailure
  <2> QED BY <1>21, <2>1, <2>2
<1>22. ASSUME NEW d \in Device, NEW e \in Device, Unpair(d, e) PROVE TypeOK'
  <2>1. NoPeer \in Peer
    BY DEF Peer, NoPeer
  <2>2. file' \in [Device -> [Device -> Peer]] /\ live' \in [Device -> [Device -> Peer]]
    BY <1>22, <2>1, SaveTypes DEF Unpair
  <2> QED BY <1>22, <2>2 DEF Unpair
<1>23. ASSUME Tick PROVE TypeOK'
  <2>1. pending' \in [Exch -> Entry]
    BY <1>23, EntryTypes DEF Tick
  <2>2. attempts' \in [Device -> [Device -> AttemptState]]
    BY <1>23, AttemptTypes DEF Tick
  <2>3. deadline' \in [Exch -> 0..(PairTTL + 1)]
    BY <1>23 DEF Tick, Down
  <2> QED BY <1>23, <2>1, <2>2, <2>3 DEF Tick
<1>24. ASSUME NEW x \in Exch, HeadArrives(x) PROVE TypeOK'
  BY <1>24 DEF HeadArrives
<1>25. ASSUME UNCHANGED vars PROVE TypeOK'
  BY <1>25 DEF vars
<1> HIDE DEF TypeOK
<1> QED
  BY <1>1, <1>2, <1>3, <1>4, <1>5, <1>6, <1>7, <1>8, <1>9, <1>10, <1>11, <1>12, <1>13,
     <1>14, <1>15, <1>16, <1>17, <1>18, <1>19, <1>20, <1>21, <1>22, <1>23, <1>24,
     <1>25 DEF Next, TaskStep, Receive, Handler, User, Responder

-----------------------------------------------------------------------------
\* Accepting a prompt moves that one exchange, and no other.
LEMMA AcceptUpdates ==
  ASSUME TypeOK, NEW d \in Device, AcceptPrompt(d), Acceptable(shown[d])
  PROVE  \A x \in Exch :
           /\ x # shown[d] => pending'[x] = pending[x]
           /\ x = shown[d] => /\ pending'[x].state = "accepted"
                              /\ pending'[x].token = minted[x] + 1
                              /\ pending'[x].ttl = pending[x].ttl
<1> DEFINE p == [pending[shown[d]] EXCEPT !.state = "accepted",
                                         !.token = minted[shown[d]] + 1]
<1>1. shown[d] \in Exch /\ pending[shown[d]] \in Entry
  BY DEF AcceptPrompt, TypeOK
<1>2. /\ p.state = "accepted" /\ p.token = minted[shown[d]] + 1
     /\ p.ttl = pending[shown[d]].ttl
  BY <1>1, EntryFields
<1>3. pending' = [pending EXCEPT ![shown[d]] = p]
  BY <1>1 DEF AcceptPrompt, TypeOK
<1> HIDE DEF p
<1> QED BY <1>1, <1>2, <1>3 DEF TypeOK

\* A pair id is stored once: nothing recreates an exchange that left the map.
LEMMA FreshInvStep ==
  TypeOK /\ FreshInv /\ RevealInv /\ TypeOK' /\ [Next]_vars => FreshInv'
<1> SUFFICES ASSUME TypeOK, FreshInv, RevealInv, TypeOK', [Next]_vars PROVE FreshInv'
  OBVIOUS
<1> USE DeviceAssumption, NoExchAssumption
<1> USE DEF FreshInv, NotYetStored, taskVars, netVars, pairVars, limitVars, uiVars, configVars
<1>1. ASSUME UNCHANGED <<task, call, reply, checked, pending, minted, handed>>
     PROVE  FreshInv'
  BY <1>1
<1>2. ASSUME NEW x \in Exch, StartPairing(x) PROVE FreshInv'
  BY <1>2 DEF StartPairing, TypeOK, RevealInv
<1>3. ASSUME NEW x \in Exch, Reveal(x) PROVE FreshInv'
  BY <1>3 DEF Reveal, BodyRead, TypeOK, RevealInv
<1>4. ASSUME NEW x \in Exch, AwaitAnswer(x) PROVE FreshInv'
  BY <1>4 DEF AwaitAnswer, BodyRead, TypeOK, RevealInv
<1>5. ASSUME NEW x \in Exch, SendPoll(x) PROVE FreshInv'
  BY <1>5 DEF SendPoll, TypeOK, RevealInv
<1>6. ASSUME NEW x \in Exch, PollAnswered(x) PROVE FreshInv'
  BY <1>6 DEF PollAnswered, BodyRead, AfterPoll, TypeOK, RevealInv
<1>7. ASSUME NEW x \in Exch, CallFails(x) \/ ReplyFails(x) PROVE FreshInv'
  BY <1>7 DEF CallFails, ReplyFails, BodyRead, GiveUp, Calling, TypeOK, RevealInv
<1>8. ASSUME NEW x \in Exch, StopWaiting(x) PROVE FreshInv'
  BY <1>8 DEF StopWaiting, GiveUp, TypeOK, RevealInv
<1>9. ASSUME NEW x \in Exch, StorePeer(x) PROVE FreshInv'
  BY <1>9 DEF StorePeer, TypeOK, RevealInv
<1>10. ASSUME NEW x \in Exch, CheckRequest(x) PROVE FreshInv'
  BY <1>10 DEF CheckRequest, Taken, Answer, TypeOK, RevealInv
<1>11. ASSUME NEW x \in Exch, StoreRequest(x) PROVE FreshInv'
  BY <1>11 DEF StoreRequest, Answer, NewEntry, NoAttempts, TypeOK, RevealInv
<1>12. ASSUME NEW x \in Exch, HandleReveal(x) PROVE FreshInv'
  BY <1>12 DEF HandleReveal, Taken, Answer, Gone, TypeOK, RevealInv
<1>13. ASSUME NEW x \in Exch, HandlePoll(x) PROVE FreshInv'
  BY <1>13 DEF HandlePoll, Taken, Answer, Gone, TypeOK, RevealInv
<1>14. ASSUME NEW d \in Device, SweepPairs(d) PROVE FreshInv'
  BY <1>14 DEF SweepPairs, Gone, TypeOK, RevealInv
<1>15. ASSUME NEW d \in Device, AcceptPrompt(d) PROVE FreshInv'
  <2>1. CASE Acceptable(shown[d])
    <3>1. shown[d] \in Exch /\ ~NotYetStored(shown[d])
      BY <1>15, <2>1 DEF AcceptPrompt, Acceptable, TypeOK
    <3>2. \A x \in Exch \ {shown[d]} : pending'[x] = pending[x] /\ minted'[x] = minted[x]
      BY <1>15, <2>1, <3>1, AcceptUpdates DEF AcceptPrompt, TypeOK
    <3>3. UNCHANGED <<task, call, reply, checked, handed>>
      BY <1>15 DEF AcceptPrompt
    <3> QED BY <3>1, <3>2, <3>3
  <2>2. CASE ~Acceptable(shown[d])
    BY <1>1, <1>15, <2>2 DEF AcceptPrompt
  <2> QED BY <2>1, <2>2
<1>16. ASSUME NEW d \in Device, DeclinePrompt(d) PROVE FreshInv'
  BY <1>16 DEF DeclinePrompt, TypeOK, RevealInv
<1>17. ASSUME NEW d \in Device, Restart(d) PROVE FreshInv'
  BY <1>17 DEF Restart, Finished, Gone, NoAttempts, TypeOK, RevealInv
<1>18. ASSUME Tick PROVE FreshInv'
  <2>1. \A x \in Exch : /\ pending'[x].state = pending[x].state
                        /\ pending'[x].token = pending[x].token
    BY <1>18, EntryFields DEF Tick, TypeOK
  <2> QED BY <1>18, <2>1 DEF Tick, TypeOK, netVars, uiVars
<1> HIDE DEF FreshInv
<1> QED
  BY <1>1, <1>2, <1>3, <1>4, <1>5, <1>6, <1>7, <1>8, <1>9, <1>10, <1>11, <1>12, <1>13,
       <1>14, <1>15, <1>16, <1>17, <1>18 DEF Next, TaskStep, Receive, HeadArrives, Handler, User, Responder, vars,
       PersistAccepted, ListPrompts, ShowPrompt, MutateConfig, CheckBadRequest, CountFailure, Unpair

\* Only an acceptance mints, only a poll hands over, and each at most once.
LEMMA TokenInvStep ==
  TypeOK /\ FreshInv /\ TokenInv /\ TypeOK' /\ [Next]_vars => TokenInv'
<1> SUFFICES ASSUME TypeOK, FreshInv, TokenInv, TypeOK', [Next]_vars PROVE TokenInv'
  OBVIOUS
<1> USE DeviceAssumption, NoExchAssumption
<1> USE DEF TokenInv, taskVars, netVars, pairVars, limitVars, uiVars, configVars
<1>1. ASSUME UNCHANGED <<task, reply, pending, minted, handed, accepting, checked>>
     PROVE  TokenInv'
  BY <1>1
<1>2. ASSUME NEW x \in Exch, StartPairing(x) PROVE TokenInv'
  BY <1>2 DEF StartPairing, TypeOK, FreshInv
<1>3. ASSUME NEW x \in Exch, Reveal(x) PROVE TokenInv'
  BY <1>3 DEF Reveal, BodyRead, TypeOK, FreshInv
<1>4. ASSUME NEW x \in Exch, AwaitAnswer(x) PROVE TokenInv'
  BY <1>4 DEF AwaitAnswer, BodyRead, TypeOK, FreshInv
<1>5. ASSUME NEW x \in Exch, SendPoll(x) PROVE TokenInv'
  BY <1>5 DEF SendPoll, TypeOK, FreshInv
<1>6. ASSUME NEW x \in Exch, PollAnswered(x) PROVE TokenInv'
  BY <1>6 DEF PollAnswered, BodyRead, AfterPoll, TypeOK, FreshInv
<1>7. ASSUME NEW x \in Exch, CallFails(x) \/ ReplyFails(x) PROVE TokenInv'
  BY <1>7 DEF CallFails, ReplyFails, BodyRead, GiveUp, Calling, TypeOK, FreshInv
<1>8. ASSUME NEW x \in Exch, StopWaiting(x) PROVE TokenInv'
  BY <1>8 DEF StopWaiting, GiveUp, TypeOK, FreshInv
<1>9. ASSUME NEW x \in Exch, StorePeer(x) PROVE TokenInv'
  BY <1>9 DEF StorePeer, TypeOK, FreshInv
<1>10. ASSUME NEW x \in Exch, CheckRequest(x) PROVE TokenInv'
  BY <1>10 DEF CheckRequest, Taken, Answer, TypeOK, FreshInv
<1>11. ASSUME NEW x \in Exch, StoreRequest(x) PROVE TokenInv'
  <2>1. \A y \in Exch : pending'[y] = IF y = x THEN NewEntry ELSE pending[y]
    BY <1>11 DEF StoreRequest, TypeOK
  <2>2. minted[x] = 0 /\ handed[x] = 0
    BY <1>11 DEF StoreRequest, FreshInv, NotYetStored
  <2> QED BY <1>11, <2>1, <2>2 DEF StoreRequest, Answer, NewEntry, TypeOK, taskVars
<1>12. ASSUME NEW x \in Exch, HandleReveal(x) PROVE TokenInv'
  <2>1. \A y \in Exch : y # x => pending'[y] = pending[y]
    BY <1>12 DEF HandleReveal, TypeOK
  <2>2. \/ pending'[x] = pending[x]
        \/ pending[x].state = "committed" /\ pending'[x].state \in {"waiting", "absent"}
    <3> DEFINE p == [pending[x] EXCEPT !.state = "waiting"]
    <3>1. p.state = "waiting"
      BY EntryFields DEF TypeOK
    <3>2. \/ pending'[x] = pending[x]
          \/ pending[x].state = "committed" /\ (pending'[x] = p \/ pending'[x] = Gone)
      BY <1>12 DEF HandleReveal, TypeOK
    <3> HIDE DEF p
    <3> QED BY <3>1, <3>2 DEF Gone
  <2> QED BY <1>12, <2>1, <2>2 DEF HandleReveal, Answer, TypeOK, taskVars
<1>13. ASSUME NEW x \in Exch, HandlePoll(x) PROVE TokenInv'
  BY <1>13 DEF HandlePoll, Taken, Answer, Gone, TypeOK, FreshInv
<1>14. ASSUME NEW x \in Exch, PersistAccepted(x) PROVE TokenInv'
  BY <1>14 DEF PersistAccepted, SavedAndApplied, TypeOK, FreshInv
<1>15. ASSUME NEW d \in Device, SweepPairs(d) PROVE TokenInv'
  BY <1>15 DEF SweepPairs, Gone, TypeOK, FreshInv
<1>16. ASSUME NEW d \in Device, AcceptPrompt(d) PROVE TokenInv'
  <2>1. shown[d] \in Exch
    BY <1>16 DEF AcceptPrompt, TypeOK
  <2>2. ASSUME Acceptable(shown[d])
        PROVE  \A x \in Exch :
                 /\ x # shown[d] => pending'[x] = pending[x]
                 /\ x = shown[d] => /\ pending'[x].state = "accepted"
                                    /\ pending'[x].token = minted[x] + 1
    BY <1>16, <2>1, <2>2, AcceptUpdates
  <2>3. CASE Acceptable(shown[d])
    BY <1>16, <2>1, <2>2, <2>3 DEF AcceptPrompt, Acceptable, TypeOK, taskVars, netVars
  <2>4. CASE ~Acceptable(shown[d])
    BY <1>16, <2>1, <2>4 DEF AcceptPrompt, TypeOK, taskVars, netVars
  <2> QED BY <2>3, <2>4
<1>17. ASSUME NEW d \in Device, DeclinePrompt(d) PROVE TokenInv'
  BY <1>17 DEF DeclinePrompt, TypeOK, FreshInv
<1>18. ASSUME NEW d \in Device, Restart(d) PROVE TokenInv'
  BY <1>18 DEF Restart, Finished, Gone, NoAttempts, TypeOK, FreshInv
<1>19. ASSUME Tick PROVE TokenInv'
  <2>1. \A x \in Exch : /\ pending'[x].state = pending[x].state
                        /\ pending'[x].token = pending[x].token
    BY <1>19, EntryFields DEF Tick, TypeOK
  <2> QED BY <1>19, <2>1 DEF Tick, TypeOK, netVars, uiVars
<1> HIDE DEF TokenInv
<1> QED
  BY <1>1, <1>2, <1>3, <1>4, <1>5, <1>6, <1>7, <1>8, <1>9, <1>10, <1>11, <1>12, <1>13,
       <1>14, <1>15, <1>16, <1>17, <1>18, <1>19 DEF Next, TaskStep, Receive, HeadArrives, Handler, User,
       Responder, vars, ListPrompts, ShowPrompt, MutateConfig, CheckBadRequest, CountFailure, Unpair

\* The task never goes back behind the reveal, and prompts only follow it.
LEMMA RevealInvStep ==
  TypeOK /\ RevealInv /\ TypeOK' /\ [Next]_vars => RevealInv'
<1> SUFFICES ASSUME TypeOK, RevealInv, TypeOK', [Next]_vars PROVE RevealInv'
  OBVIOUS
<1> USE DeviceAssumption, NoExchAssumption
<1> USE DEF RevealInv, Begun, taskVars, netVars, pairVars, limitVars, uiVars, configVars
<1>1. ASSUME UNCHANGED <<task, call, pending, listing, shown, checked>>
     PROVE  RevealInv'
  BY <1>1
<1>2. ASSUME NEW x \in Exch, StartPairing(x) PROVE RevealInv'
  BY <1>2 DEF StartPairing, TypeOK
<1>3. ASSUME NEW x \in Exch, Reveal(x) PROVE RevealInv'
  BY <1>3 DEF Reveal, BodyRead, TypeOK
<1>4. ASSUME NEW x \in Exch, AwaitAnswer(x) PROVE RevealInv'
  BY <1>4 DEF AwaitAnswer, BodyRead, TypeOK
<1>5. ASSUME NEW x \in Exch, SendPoll(x) PROVE RevealInv'
  BY <1>5 DEF SendPoll, TypeOK
<1>6. ASSUME NEW x \in Exch, PollAnswered(x) PROVE RevealInv'
  BY <1>6 DEF PollAnswered, BodyRead, AfterPoll, TypeOK
<1>7. ASSUME NEW x \in Exch, CallFails(x) \/ ReplyFails(x) PROVE RevealInv'
  BY <1>7 DEF CallFails, ReplyFails, BodyRead, GiveUp, Calling, TypeOK
<1>8. ASSUME NEW x \in Exch, StopWaiting(x) PROVE RevealInv'
  BY <1>8 DEF StopWaiting, GiveUp, TypeOK
<1>9. ASSUME NEW x \in Exch, StorePeer(x) PROVE RevealInv'
  BY <1>9 DEF StorePeer, TypeOK
<1>10. ASSUME NEW x \in Exch, CheckRequest(x) PROVE RevealInv'
  BY <1>10 DEF CheckRequest, Taken, Answer, TypeOK
<1>11. ASSUME NEW x \in Exch, StoreRequest(x) PROVE RevealInv'
  BY <1>11 DEF StoreRequest, Answer, NewEntry, NoAttempts, TypeOK
<1>12. ASSUME NEW x \in Exch, HandleReveal(x) PROVE RevealInv'
  BY <1>12 DEF HandleReveal, Taken, Answer, Gone, TypeOK
<1>13. ASSUME NEW x \in Exch, HandlePoll(x) PROVE RevealInv'
  BY <1>13 DEF HandlePoll, Taken, Answer, Gone, TypeOK
<1>14. ASSUME NEW d \in Device, SweepPairs(d) PROVE RevealInv'
  BY <1>14 DEF SweepPairs, Gone, TypeOK
<1>15. ASSUME NEW d \in Device, ListPrompts(d) PROVE RevealInv'
  <2>1. PICK p \in Exch \cup {NoExch} :
          /\ listing' = [listing EXCEPT ![d] = p]
          /\ p = NoExch \/ pending[p].state = "waiting"
    BY <1>15, ListingUpdate
  <2>2. UNCHANGED <<task, call, pending, shown>>
    BY <1>15 DEF ListPrompts
  <2>3. p \in Exch => Begun(p)
    BY <2>1
  <2> QED BY <2>1, <2>2, <2>3 DEF TypeOK
<1>16. ASSUME NEW d \in Device, ShowPrompt(d) PROVE RevealInv'
  BY <1>16 DEF ShowPrompt, TypeOK
<1>17. ASSUME NEW d \in Device, AcceptPrompt(d) PROVE RevealInv'
  <2>1. shown[d] \in Exch
    BY <1>17 DEF AcceptPrompt, TypeOK
  <2>2. ASSUME Acceptable(shown[d])
        PROVE  \A x \in Exch :
                 /\ x # shown[d] => pending'[x] = pending[x]
                 /\ x = shown[d] => /\ pending'[x].state = "accepted"
                                    /\ pending'[x].token = minted[x] + 1
    BY <1>17, <2>1, <2>2, AcceptUpdates
  <2>3. CASE Acceptable(shown[d])
    BY <1>17, <2>1, <2>2, <2>3 DEF AcceptPrompt, Acceptable, TypeOK, taskVars, netVars
  <2>4. CASE ~Acceptable(shown[d])
    BY <1>17, <2>1, <2>4 DEF AcceptPrompt, TypeOK, taskVars, netVars
  <2> QED BY <2>3, <2>4
<1>18. ASSUME NEW d \in Device, DeclinePrompt(d) PROVE RevealInv'
  BY <1>18 DEF DeclinePrompt, TypeOK
<1>19. ASSUME NEW d \in Device, Restart(d) PROVE RevealInv'
  BY <1>19 DEF Restart, Finished, Gone, NoAttempts, TypeOK
<1>20. ASSUME Tick PROVE RevealInv'
  <2>1. \A x \in Exch : /\ pending'[x].state = pending[x].state
                        /\ pending'[x].token = pending[x].token
    BY <1>20, EntryFields DEF Tick, TypeOK
  <2> QED BY <1>20, <2>1 DEF Tick, TypeOK, netVars, uiVars
<1> HIDE DEF RevealInv
<1> QED
  BY <1>1, <1>2, <1>3, <1>4, <1>5, <1>6, <1>7, <1>8, <1>9, <1>10, <1>11, <1>12, <1>13,
       <1>14, <1>15, <1>16, <1>17, <1>18, <1>19, <1>20 DEF Next, TaskStep, Receive, HeadArrives, Handler, User,
       Responder, vars, PersistAccepted, MutateConfig, CheckBadRequest, CountFailure, Unpair

\* A peer is written by StorePeer after a poll, or by PersistAccepted.
LEMMA PeersAreAcceptedStep ==
  TypeOK /\ FreshInv /\ TokenInv /\ PeersAreAccepted /\ TypeOK' /\ [Next]_vars =>
      PeersAreAccepted'
<1> SUFFICES ASSUME TypeOK, FreshInv, TokenInv, PeersAreAccepted, TypeOK', [Next]_vars PROVE
    PeersAreAccepted'
  OBVIOUS
<1> USE DeviceAssumption, NoExchAssumption
<1> USE DEF PeersAreAccepted, NoPeer, Peer, taskVars, netVars, pairVars, limitVars, uiVars, configVars
<1>1. ASSUME UNCHANGED <<file, minted, handed>>
     PROVE  PeersAreAccepted'
  BY <1>1
<1>2. ASSUME NEW x \in Exch, StorePeer(x) PROVE PeersAreAccepted'
  <2>1. \A d, e \in Device :
          \/ file'[d][e] = file[d][e]
          \/ d = From[x] /\ e = To[x] /\ file'[d][e] = [exch |-> x, token |-> handed[x]]
    BY <1>2 DEF StorePeer, TypeOK
  <2>2. handed[x] = 1 /\ minted[x] = 1 /\ UNCHANGED <<minted, handed>>
    BY <1>2 DEF StorePeer, TokenInv
  <2> QED BY <2>1, <2>2
<1>3. ASSUME NEW x \in Exch, HandlePoll(x) PROVE PeersAreAccepted'
  BY <1>3 DEF HandlePoll, Taken, Answer, Gone, TypeOK, FreshInv, TokenInv
<1>4. ASSUME NEW x \in Exch, PersistAccepted(x) PROVE PeersAreAccepted'
  <2>1. \A d, e \in Device :
          \/ file'[d][e] = file[d][e]
          \/ d = To[x] /\ e = From[x] /\ file'[d][e] = [exch |-> x, token |-> minted[x]]
    BY <1>4 DEF PersistAccepted, SavedAndApplied, TypeOK, configVars
  <2>2. minted[x] = 1 /\ UNCHANGED <<minted, handed>>
    BY <1>4 DEF PersistAccepted, TokenInv, pairVars
  <2> QED BY <2>1, <2>2
<1>5. ASSUME NEW d \in Device, AcceptPrompt(d) PROVE PeersAreAccepted'
  BY <1>5 DEF AcceptPrompt, Acceptable, TypeOK, FreshInv, TokenInv
<1>6. ASSUME NEW d \in Device, MutateConfig(d) PROVE PeersAreAccepted'
  BY <1>6 DEF MutateConfig, SavedAndApplied, TypeOK, FreshInv, TokenInv
<1>7. ASSUME NEW d \in Device, NEW e \in Device, Unpair(d, e) PROVE PeersAreAccepted'
  BY <1>7 DEF Unpair, SavedAndApplied, NoPeer, TypeOK, FreshInv, TokenInv
<1> HIDE DEF PeersAreAccepted
<1> QED
  BY <1>1, <1>2, <1>3, <1>4, <1>5, <1>6, <1>7 DEF Next, TaskStep, Receive, HeadArrives, Handler, User, Responder,
       vars, StartPairing, Reveal, AwaitAnswer, SendPoll, PollAnswered, CallFails,
       ReplyFails, BodyRead, GiveUp, StopWaiting, CheckRequest, StoreRequest, HandleReveal, SweepPairs, ListPrompts,
       ShowPrompt, DeclinePrompt, Restart, CheckBadRequest, CountFailure, Tick

-----------------------------------------------------------------------------
LEMMA InvStep == Inv /\ [Next]_vars => Inv'
<1> SUFFICES ASSUME Inv, [Next]_vars PROVE Inv'
  OBVIOUS
<1>1. TypeOK'
  BY TypeStep DEF Inv
<1>2. FreshInv' /\ TokenInv'
  BY <1>1, FreshInvStep, TokenInvStep DEF Inv
<1>3. RevealInv'
  BY <1>1, RevealInvStep DEF Inv
<1>4. PeersAreAccepted'
  BY <1>1, PeersAreAcceptedStep DEF Inv
<1> QED BY <1>1, <1>2, <1>3, <1>4 DEF Inv

LEMMA InvAlways == Spec => []Inv
BY InitInv, InvStep, PTL DEF Spec

\* In every reachable state every variable holds a value of its kind.
THEOREM TypeCorrect == Spec => []TypeOK
<1>1. Inv => TypeOK
  BY DEF Inv
<1> QED BY <1>1, InvAlways, PTL

\* No prompt is on screen, and none can be accepted, before the initiator has
\* revealed the nonce its code depends on.
THEOREM NoEarlyPrompt == Spec => []PromptAfterReveal
<1>1. Inv => PromptAfterReveal
  BY DeviceAssumption DEF Inv, RevealInv, Begun, PromptAfterReveal
<1> QED BY <1>1, InvAlways, PTL

\* Whatever happens to the calls, the config writes and the apps, a stored peer
\* comes from an exchange the responder's user accepted, under its one token.
THEOREM AcceptedPeers == Spec => []PeersAreAccepted
<1>1. Inv => PeersAreAccepted
  BY DEF Inv
<1> QED BY <1>1, InvAlways, PTL

\* Two devices that keep a peer from the same exchange keep the same token.
THEOREM TokensMirror == Spec => []MirroredTokens
<1>1. Inv => MirroredTokens
  <2> SUFFICES ASSUME Inv, NEW d \in Device, NEW e \in Device,
                      file[d][e].exch = file[e][d].exch
               PROVE  file[d][e] = file[e][d]
    BY DEF MirroredTokens
  <2>1. file[d][e] \in Peer /\ file[e][d] \in Peer
    BY DEF Inv, TypeOK
  <2>2. file[d][e] = NoPeer <=> file[e][d] = NoPeer
    BY NoExchAssumption DEF Inv, PeersAreAccepted, NoPeer
  <2>3. file[d][e] # NoPeer => file[d][e].token = file[e][d].token
    BY <2>2 DEF Inv, PeersAreAccepted
  <2> QED BY <2>1, <2>2, <2>3 DEF Peer
<1> QED BY <1>1, InvAlways, PTL

-----------------------------------------------------------------------------
(* Pairing implements its promise. *)

\* What one step may do to the exchanges, as the promise sees them.
Same(x) == Phase(x)' = Phase(x)
Closes ==
  \A x \in Exch : Same(x) \/ (Phase(x) \in {"open", "confirmed"} /\ Phase(x)' = "closed")
Moved(x, p, q) ==
  /\ Phase(x) = p /\ Phase(x)' = q
  /\ \A y \in Exch \ {x} : Same(y)
Moves ==
  \/ Closes
  \/ \E x \in Exch : Moved(x, "open", "confirmed") \/ Moved(x, "confirmed", "granted")

LEMMA PhaseStep == Inv /\ Inv' /\ [Next]_vars => Moves
<1> SUFFICES ASSUME Inv, Inv', [Next]_vars PROVE Moves
  OBVIOUS
<1> USE DeviceAssumption, TimerAssumption
<1> USE DEF Inv, Moves, Closes, Moved, Same, Phase, NotYetStored, Live, Present, taskVars,
    netVars, pairVars, limitVars, uiVars, configVars
<1>1. ASSUME UNCHANGED <<task, call, checked, pending, handed>>
     PROVE  Closes
  BY <1>1
<1>2. ASSUME NEW x \in Exch, StartPairing(x) PROVE Closes
  BY <1>2 DEF StartPairing, TypeOK, FreshInv, TokenInv
<1>3. ASSUME NEW x \in Exch, Reveal(x) PROVE Closes
  BY <1>3 DEF Reveal, BodyRead, TypeOK, FreshInv, TokenInv
<1>4. ASSUME NEW x \in Exch, AwaitAnswer(x) PROVE Closes
  BY <1>4 DEF AwaitAnswer, BodyRead, TypeOK, FreshInv, TokenInv
<1>5. ASSUME NEW x \in Exch, SendPoll(x) PROVE Closes
  BY <1>5 DEF SendPoll, TypeOK, FreshInv, TokenInv
<1>6. ASSUME NEW x \in Exch, PollAnswered(x) PROVE Closes
  BY <1>6 DEF PollAnswered, BodyRead, AfterPoll, TypeOK, FreshInv, TokenInv
<1>7. ASSUME NEW x \in Exch, CallFails(x) \/ ReplyFails(x) PROVE Closes
  BY <1>7 DEF CallFails, ReplyFails, BodyRead, GiveUp, Calling, TypeOK, FreshInv, TokenInv
<1>8. ASSUME NEW x \in Exch, StopWaiting(x) PROVE Closes
  BY <1>8 DEF StopWaiting, GiveUp, TypeOK, FreshInv, TokenInv
<1>9. ASSUME NEW x \in Exch, StorePeer(x) PROVE Closes
  BY <1>9 DEF StorePeer, TypeOK, FreshInv, TokenInv
<1>10. ASSUME NEW x \in Exch, CheckRequest(x) PROVE Closes
  BY <1>10 DEF CheckRequest, Taken, Answer, TypeOK, FreshInv, TokenInv
<1>11. ASSUME NEW x \in Exch, StoreRequest(x) PROVE Closes
  BY <1>11 DEF StoreRequest, Answer, NewEntry, NoAttempts, TypeOK, FreshInv, TokenInv
<1>12. ASSUME NEW x \in Exch, HandleReveal(x) PROVE Closes
  BY <1>12 DEF HandleReveal, Taken, Answer, Gone, TypeOK, FreshInv, TokenInv
<1>13. ASSUME NEW x \in Exch, HandlePoll(x) PROVE Moves
  <2>1. UNCHANGED <<task, checked>> /\ \A y \in Exch : y # x => call'[y] = call[y]
    BY <1>13 DEF HandlePoll, Taken, TypeOK, taskVars
  <2>2. call[x] = "poll" /\ call'[x] = "none"
    BY <1>13 DEF HandlePoll, Taken, TypeOK
  <2>3. CASE UNCHANGED handed
    <3>1. \/ pending' = pending
          \/ pending' = [pending EXCEPT ![x] = Gone]
      BY <1>13 DEF HandlePoll
    <3>2. handed[x] # 0 \/ ~NotYetStored(x)
      BY <2>2 DEF FreshInv
    <3>3. \A y \in Exch \ {x} : Same(y)
      BY <2>1, <2>3, <3>1 DEF TypeOK
    <3>4. CASE pending' = pending
      BY <2>1, <2>2, <2>3, <3>2, <3>3, <3>4
    <3>5. CASE pending' = [pending EXCEPT ![x] = Gone]
      <4>1. Phase(x)' = IF handed[x] # 0 THEN "granted" ELSE "closed"
        BY <2>1, <2>2, <2>3, <3>2, <3>5 DEF Gone, TypeOK
      <4> QED BY <3>2, <3>3, <4>1
    <3> QED BY <3>1, <3>4, <3>5
  <2>4. CASE ~UNCHANGED handed
    <3>1. /\ pending[x].state = "accepted" /\ ~Expired(x)
          /\ pending' = [pending EXCEPT ![x] = Gone]
          /\ handed' = [handed EXCEPT ![x] = pending[x].token]
      BY <1>13, <2>4 DEF HandlePoll
    <3>2. handed[x] = 0 /\ pending[x].token = 1 /\ ~NotYetStored(x)
      BY <3>1 DEF FreshInv, TokenInv
    <3>3. pending[x].ttl > 0
      BY <3>1 DEF Expired, TypeOK, Entry
    <3>4. Phase(x) = "confirmed" /\ Phase(x)' = "granted"
      BY <3>1, <3>2, <3>3 DEF TypeOK
    <3>5. \A y \in Exch \ {x} : Same(y)
      BY <2>1, <3>1 DEF TypeOK
    <3> QED BY <3>4, <3>5
  <2> QED BY <2>3, <2>4
<1>14. ASSUME NEW d \in Device, SweepPairs(d) PROVE Closes
  BY <1>14 DEF SweepPairs, Gone, TypeOK, FreshInv, TokenInv
<1>15. ASSUME NEW d \in Device, AcceptPrompt(d) PROVE Moves
  <2>1. PICK x \in Exch : x = shown[d]
    BY <1>15 DEF AcceptPrompt, TypeOK
  <2>2. CASE Acceptable(x)
    <3>1. Phase(x) = "open" /\ ~NotYetStored(x) /\ handed[x] = 0
      BY <2>2 DEF Acceptable, FreshInv, TokenInv
    <3>2. UNCHANGED <<task, call, checked, handed>>
      BY <1>15 DEF AcceptPrompt, taskVars, netVars
    <3>3. Phase(x)' = "confirmed"
      BY <1>15, <2>1, <2>2, <3>1, <3>2, AcceptUpdates DEF Acceptable
    <3>4. \A y \in Exch \ {x} : Same(y)
      BY <1>15, <2>1, <2>2, <3>2, AcceptUpdates
    <3> QED BY <3>1, <3>3, <3>4
  <2>3. CASE ~Acceptable(x)
    BY <1>15, <2>1, <2>3 DEF AcceptPrompt, taskVars, netVars
  <2> QED BY <2>2, <2>3
<1>16. ASSUME NEW d \in Device, DeclinePrompt(d) PROVE Closes
  BY <1>16 DEF DeclinePrompt, TypeOK, FreshInv, TokenInv
<1>17. ASSUME NEW d \in Device, Restart(d) PROVE Closes
  BY <1>17 DEF Restart, Finished, Gone, NoAttempts, TypeOK, FreshInv, TokenInv
<1>18. ASSUME Tick PROVE Closes
  <2>1. \A x \in Exch :
          /\ pending'[x].state = pending[x].state
          /\ pending'[x].ttl = Down(pending[x].ttl) /\ pending[x].ttl \in Nat
    BY <1>18, EntryFields DEF Tick, TypeOK, Entry
  <2>2. UNCHANGED <<task, call, checked, handed>>
    BY <1>18 DEF Tick
  <2>3. \A x \in Exch : (NotYetStored(x))' = NotYetStored(x) /\ (Live(x)' => Live(x))
    BY <2>1, <2>2 DEF Down
  <2>4. \A x \in Exch : Same(x) \/ (Phase(x) \in {"open", "confirmed"} /\ Phase(x)' = "closed")
    <3> SUFFICES ASSUME NEW x \in Exch
        PROVE Same(x) \/ (Phase(x) \in {"open", "confirmed"} /\ Phase(x)' = "closed")
      OBVIOUS
    <3>1. /\ handed'[x] = handed[x]
          /\ (NotYetStored(x))' = NotYetStored(x)
          /\ (Live(x)' => Live(x))
          /\ pending'[x].state = pending[x].state
      BY <2>1, <2>2, <2>3
    <3> HIDE DEF NotYetStored, Live
    <3> QED BY <3>1
  <2> QED BY <2>4
<1> HIDE DEF Inv, Closes, Moved
<1> QED
  BY <1>1, <1>2, <1>3, <1>4, <1>5, <1>6, <1>7, <1>8, <1>9, <1>10, <1>11, <1>12, <1>13,
       <1>14, <1>15, <1>16, <1>17, <1>18 DEF Next, TaskStep, Receive, HeadArrives, Handler, User, Responder, vars,
       PersistAccepted, ListPrompts, ShowPrompt, MutateConfig, CheckBadRequest, CountFailure, Unpair

\* Pairing implements PairingPromise: a token is granted only to an exchange the
\* responder's user confirmed, and a closed exchange stays closed.
THEOREM PairingImplementsPromise == Spec => PromiseKept
<1> DEFINE phases == [x \in Exch |-> Phase(x)]
<1>1. Init => Promise!Init
  <2> SUFFICES ASSUME Init PROVE \A x \in Exch : Phase(x) = "open"
    BY DEF Promise!Init
  <2> QED BY DEF Init, Phase, NotYetStored
<1>2. Inv /\ Inv' /\ [Next]_vars => [Promise!Next]_phases
  <2> SUFFICES ASSUME Moves PROVE [Promise!Next]_phases
    BY PhaseStep
  <2>1. ASSUME Closes PROVE [Promise!Next]_phases
    <3> DEFINE S == {x \in Exch : Phase(x)' # Phase(x)}
    <3>1. \A x \in S : phases[x] \in {"open", "confirmed"}
      BY <2>1 DEF Closes, Same
    <3>2. phases' = [x \in Exch |-> IF x \in S THEN "closed" ELSE phases[x]]
      BY <2>1 DEF Closes, Same
    <3>3. Promise!Close(S)
      BY <3>1, <3>2 DEF Promise!Close
    <3>4. S \in SUBSET Exch
      OBVIOUS
    <3> QED BY <3>3, <3>4 DEF Promise!Next
  <2>2. ASSUME NEW x \in Exch, Moved(x, "open", "confirmed") PROVE [Promise!Next]_phases
    <3>1. Promise!Confirm(x)
      BY <2>2 DEF Promise!Confirm, Moved, Same
    <3> QED BY <3>1 DEF Promise!Next
  <2>3. ASSUME NEW x \in Exch, Moved(x, "confirmed", "granted") PROVE [Promise!Next]_phases
    <3>1. Promise!Grant(x)
      BY <2>3 DEF Promise!Grant, Moved, Same
    <3> QED BY <3>1 DEF Promise!Next
  <2> QED BY <2>1, <2>2, <2>3 DEF Moves
<1> QED BY <1>1, <1>2, InvAlways, PTL DEF Spec, PromiseKept, Promise!Spec

=============================================================================
