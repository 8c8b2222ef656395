------------------------------ MODULE Pairing ------------------------------
(***************************************************************************)
(* Device-to-device pairing: the initiator's task (tasks.rs, peerclient.rs)*)
(* the responder's three handlers and its pending map (peers.rs), the      *)
(* prompt on the responder's screen (ui/app.js) and the peer list each     *)
(* device keeps, on file and live (config.rs, models.rs).                  *)
(*                                                                         *)
(* An exchange is one run of start_pair_task.  It stands for the pair_id   *)
(* the responder gives it and for the token the initiator issues in its    *)
(* request; the n-th token the responder mints for it is the number n.     *)
(* Codes, nonces and commitments are abstracted to whether the revealed    *)
(* nonce matches.  Times are timers that count down to zero.               *)
(***************************************************************************)
EXTENDS Naturals, FiniteSets

CONSTANTS
  Device,        \* the devices
  Exch,          \* the exchanges that may be started
  From, To,      \* Exch -> Device: who starts it, who answers it
  PairTTL,       \* PAIR_TTL_MS, in ticks
  MaxAttempts,   \* PAIR_MAX_ATTEMPTS
  Lockout,       \* PAIR_LOCKOUT_SECONDS, in ticks
  MaxRefused,    \* how many requests of an address may be under refusal at once
  Faults,        \* whether config writes may fail and apps may be restarted
  NoExch,        \* stands for "no exchange"
  Unasked        \* no prompt listing is under way

ASSUME DeviceAssumption ==
  /\ From \in [Exch -> Device]
  /\ To \in [Exch -> Device]
  /\ \A x \in Exch : From[x] # To[x]      \* pair_request refuses self-pairing
ASSUME TimerAssumption ==
  /\ PairTTL \in Nat \ {0}
  /\ MaxAttempts \in Nat \ {0}
  /\ Lockout \in Nat \ {0}
  /\ MaxRefused \in Nat
  /\ Faults \in BOOLEAN
ASSUME NoExchAssumption ==
  /\ NoExch \notin Exch
  /\ Unasked \notin Exch \cup {NoExch}

VARIABLES
  task,       \* Exch -> where the initiator's task stands
  deadline,   \* Exch -> ticks until await_pairing gives up
  call,       \* Exch -> the HTTP call on its way to the responder
  reply,      \* Exch -> the answer on its way back
  reading,    \* exchanges whose task has the head of an answer and awaits its body
  checked,    \* requests that passed pair_request's checks and are not yet stored
  pending,    \* Exch -> the responder's PendingPair
  minted,     \* Exch -> how many inbound tokens the responder has minted
  handed,     \* Exch -> the token a poll has handed over, 0 if none
  refused,    \* Device -> Device -> requests of that address found bad, not yet counted
  attempts,   \* Device -> Device -> AttemptState kept for that address
  listing,    \* Device -> first prompt of a listing the UI has not rendered yet
  shown,      \* Device -> the prompt on screen
  accepting,  \* accepted prompts whose peer is not yet in the config
  file,       \* Device -> Device -> the peer in the config file
  live        \* Device -> Device -> the peer in the live registry

netVars == <<call, reply, reading>>
taskVars == <<task, deadline>>
pairVars == <<checked, pending, minted, handed>>
limitVars == <<refused, attempts>>
uiVars == <<listing, shown>>
configVars == <<file, live>>
vars == <<task, deadline, call, reply, reading, checked, pending, minted, handed,
          refused, attempts, listing, shown, accepting, file, live>>

-----------------------------------------------------------------------------
(* The states things can be in. *)

TaskState == {"idle", "request", "reveal", "waiting", "poll", "store",
              "accepted", "declined", "failed"}
Calling == {"request", "reveal", "poll"}
Finished == {"accepted", "declined", "failed"}

Call == {"none", "request", "reveal", "poll"}
Reply == {"none", "paired", "code", "pending", "accepted", "declined", "error"}

PairState == {"absent", "committed", "waiting", "accepted", "declined"}
Entry == [state : PairState, ttl : 0..PairTTL, token : Nat]
Gone == [state |-> "absent", ttl |-> 0, token |-> 0]

AttemptState == [failures : 0..(MaxAttempts - 1), locked : 0..Lockout]
NoAttempts == [failures |-> 0, locked |-> 0]

\* A stored peer.  Each side's in_token and out_token are the two tokens of
\* the exchange, so equal records on both sides are mirrored tokens.
Peer == [exch : Exch \cup {NoExch}, token : Nat]
NoPeer == [exch |-> NoExch, token |-> 0]

Present(x) == pending[x].state # "absent"
Live(x) == Present(x) /\ pending[x].ttl > 0

ExpiredNever(x) == FALSE                                   \* mutant
Expired(x) == Present(x) /\ pending[x].ttl = 0

\* Prompts the responder's UI may list: revealed, unanswered, unexpired.
Prompts(d) == {x \in Exch : To[x] = d /\ pending[x].state = "waiting" /\ Live(x)}

\* The devices that answer an exchange, and the addresses they hear from.
Responder == {To[x] : x \in Exch}
Address(d) == {From[x] : x \in {y \in Exch : To[y] = d}}

\* The main thread runs one Tauri command at a time.
MainIdle(d) == \A x \in accepting : To[x] # d

Init ==
  /\ task = [x \in Exch |-> "idle"]
  /\ deadline = [x \in Exch |-> 0]
  /\ call = [x \in Exch |-> "none"]
  /\ reply = [x \in Exch |-> "none"]
  /\ reading = {}
  /\ checked = {}
  /\ pending = [x \in Exch |-> Gone]
  /\ minted = [x \in Exch |-> 0]
  /\ handed = [x \in Exch |-> 0]
  /\ refused = [d \in Device |-> [e \in Device |-> 0]]
  /\ attempts = [d \in Device |-> [e \in Device |-> NoAttempts]]
  /\ listing = [d \in Device |-> Unasked]
  /\ shown = [d \in Device |-> NoExch]
  /\ accepting = {}
  /\ file = [d \in Device |-> [e \in Device |-> NoPeer]]
  /\ live = [d \in Device |-> [e \in Device |-> NoPeer]]

-----------------------------------------------------------------------------
(* The initiator's task: begin_pairing, await_pairing, store_peer. *)

StartPairing(x) ==
  /\ task[x] = "idle"
  /\ task' = [task EXCEPT ![x] = "request"]
  /\ call' = [call EXCEPT ![x] = "request"]
  /\ UNCHANGED <<deadline, reply, reading, pairVars, limitVars, uiVars, accepting, configVars>>

\* post_json, in time: the head of an answer is here, and its body is collected.
HeadArrives(x) ==
  /\ task[x] \in Calling
  /\ reply[x] # "none"
  /\ x \notin reading
  /\ reading' = reading \cup {x}
  /\ UNCHANGED <<taskVars, call, reply, pairVars, limitVars, uiVars, accepting, configVars>>

BodyRead(x) ==
  /\ x \in reading
  /\ reading' = reading \ {x}
  /\ reply' = [reply EXCEPT ![x] = "none"]

\* The request was taken; the reply carries nonce_b, so reveal ours.
Reveal(x) ==
  /\ task[x] = "request"
  /\ reply[x] = "paired" /\ BodyRead(x)
  /\ task' = [task EXCEPT ![x] = "reveal"]
  /\ call' = [call EXCEPT ![x] = "reveal"]
  /\ UNCHANGED <<deadline, pairVars, limitVars, uiVars, accepting, configVars>>

\* The echoed code is ours: show it and wait, at most PAIR_TTL_MS.
AwaitAnswer(x) ==
  /\ task[x] = "reveal"
  /\ reply[x] = "code" /\ BodyRead(x)
  /\ task' = [task EXCEPT ![x] = "waiting"]
  /\ deadline' = [deadline EXCEPT ![x] = PairTTL + 1]
  /\ UNCHANGED <<call, pairVars, limitVars, uiVars, accepting, configVars>>

SendPoll(x) ==
  /\ task[x] = "waiting"
  /\ deadline[x] > 0
  /\ task' = [task EXCEPT ![x] = "poll"]
  /\ call' = [call EXCEPT ![x] = "poll"]
  /\ UNCHANGED <<deadline, reply, reading, pairVars, limitVars, uiVars, accepting, configVars>>

\* Where await_pairing's match on the polled state leads.
AfterPollEager(r) == IF r = "declined" THEN "declined" ELSE "store"     \* mutant
AfterPoll(r) ==
  CASE r = "pending" -> "waiting" [] r = "accepted" -> "store" [] r = "declined" -> "declined"

PollAnswered(x) ==
  /\ task[x] = "poll"
  /\ reply[x] \in {"pending", "accepted", "declined"} /\ BodyRead(x)
  /\ task' = [task EXCEPT ![x] = AfterPoll(reply[x])]
  /\ deadline' = [deadline EXCEPT ![x] = IF reply[x] = "pending" THEN @ ELSE 0]
  /\ UNCHANGED <<call, pairVars, limitVars, uiVars, accepting, configVars>>

GiveUp(x) ==
  /\ task' = [task EXCEPT ![x] = "failed"]
  /\ deadline' = [deadline EXCEPT ![x] = 0]
  /\ UNCHANGED <<call, pairVars, limitVars, uiVars, accepting, configVars>>

\* The body of a refusal, or one that breaks off.
ReplyFails(x) ==
  /\ task[x] \in Calling
  /\ BodyRead(x)
  /\ GiveUp(x)

CallFailsUntimed(x) == ReplyFails(x)                       \* mutant: no REQUEST_TIMEOUT

\* The device cannot be reached, or no head of an answer comes within
\* REQUEST_TIMEOUT.  The call itself may still reach the responder, later.
CallFails(x) ==
  /\ task[x] \in Calling
  /\ x \notin reading
  /\ reply' = [reply EXCEPT ![x] = "none"]
  /\ GiveUp(x)
  /\ UNCHANGED reading

\* The top of await_pairing's loop: the cancel flag, which the user may set at
\* any time, then the deadline.
StopWaiting(x) ==
  /\ task[x] = "waiting"
  /\ GiveUp(x)
  /\ UNCHANGED <<reply, reading>>

\* store_peer writes the file and does not touch the live registry.
StorePeer(x) ==
  /\ task[x] = "store"
  /\ \/ /\ file' = [file EXCEPT ![From[x]][To[x]] = [exch |-> x, token |-> handed[x]]]
        /\ task' = [task EXCEPT ![x] = "accepted"]
     \/ /\ Faults
        /\ task' = [task EXCEPT ![x] = "failed"]
        /\ UNCHANGED file
  /\ UNCHANGED <<deadline, netVars, pairVars, limitVars, uiVars, accepting, live>>

-----------------------------------------------------------------------------
(* The responder's handlers.  An answer whose caller has given up is dropped. *)

Answer(x, state, r) ==
  reply' = [reply EXCEPT ![x] = IF task[x] = state THEN r ELSE "none"]

Taken(x) == call' = [call EXCEPT ![x] = "none"]

Locked(d, e) == attempts[d][e].locked > 0

FailedLate(a) ==                                           \* mutant
  IF a.failures + 1 > MaxAttempts
  THEN [failures |-> 0, locked |-> Lockout]
  ELSE [a EXCEPT !.failures = @ + 1]

\* pair_note_failure: the MaxAttempts-th failure in a row locks the address out.
Failed(a) ==
  IF a.failures + 1 >= MaxAttempts
  THEN [failures |-> 0, locked |-> Lockout]
  ELSE [a EXCEPT !.failures = @ + 1]

\* A live exchange from the same address, whatever its state.
PairInProgress(x) ==
  \E y \in Exch : From[y] = From[x] /\ To[y] = To[x] /\ Live(y)

\* pair_request up to the first unlock of the pending map: every check is made
\* and nothing is stored.
CheckRequest(x) ==
  /\ call[x] = "request"
  /\ Taken(x)
  /\ IF Locked(To[x], From[x]) \/ PairInProgress(x)
     THEN Answer(x, "request", "error") /\ UNCHANGED checked
     ELSE checked' = checked \cup {x} /\ UNCHANGED reply
  /\ UNCHANGED <<taskVars, reading, pending, minted, handed, limitVars, uiVars, accepting,
                 configVars>>

NewEntryShown == [state |-> "waiting", ttl |-> PairTTL, token |-> 0]    \* mutant

\* Committed, not Waiting: the code cannot be computed before the reveal.
NewEntry == [state |-> "committed", ttl |-> PairTTL, token |-> 0]

\* The rest of pair_request: the map is locked again and the entry stored, and
\* pair_note_success forgets the address's failures and its lockout.
StoreRequest(x) ==
  /\ x \in checked
  /\ checked' = checked \ {x}
  /\ pending' = [pending EXCEPT ![x] = NewEntry]
  /\ attempts' = [attempts EXCEPT ![To[x]][From[x]] = NoAttempts]
  /\ Answer(x, "request", "paired")
  /\ UNCHANGED <<taskVars, call, reading, minted, handed, refused, uiVars, accepting, configVars>>

\* A request e sends d that pair_request finds malformed, or its own: pair_locked
\* lets it pass, and its failure is counted later, under another lock, whatever
\* has become of the address since.
CheckBadRequest(d, e) ==
  /\ e \in Address(d)
  /\ ~Locked(d, e)
  /\ refused[d][e] < MaxRefused
  /\ refused' = [refused EXCEPT ![d][e] = @ + 1]
  /\ UNCHANGED <<taskVars, netVars, pairVars, attempts, uiVars, accepting, configVars>>

CountFailure(d, e) ==
  /\ refused[d][e] > 0
  /\ refused' = [refused EXCEPT ![d][e] = @ - 1]
  /\ attempts' = [attempts EXCEPT ![d][e] = Failed(@)]
  /\ UNCHANGED <<taskVars, netVars, pairVars, uiVars, accepting, configVars>>

\* pair_reveal.  A call from another address, for an exchange that is not
\* committed or has expired is refused; a nonce that does not match the
\* commitment drops the exchange; a matching one puts the prompt up.
HandleReveal(x) ==
  /\ call[x] = "reveal"
  /\ Taken(x)
  /\ \/ /\ pending[x].state = "committed" /\ Live(x)
        /\ \/ /\ pending' = [pending EXCEPT ![x].state = "waiting"]
              /\ Answer(x, "reveal", "code")
           \/ /\ pending' = [pending EXCEPT ![x] = Gone]
              /\ Answer(x, "reveal", "error")
     \/ Answer(x, "reveal", "error") /\ UNCHANGED pending
  /\ UNCHANGED <<taskVars, reading, checked, minted, handed, limitVars, uiVars, accepting,
                 configVars>>

\* pair_poll.  From another address it consumes nothing.  A verdict is handed
\* over once and the entry removed, even if the answer is then lost.
HandlePoll(x) ==
  /\ call[x] = "poll"
  /\ Taken(x)
  /\ \/ /\ Answer(x, "poll", "error")              \* unknown, or another address
        /\ UNCHANGED <<pending, handed>>
     \/ /\ Expired(x)
        /\ pending' = [pending EXCEPT ![x] = Gone]
        /\ Answer(x, "poll", "error")
        /\ UNCHANGED handed
     \/ /\ pending[x].state \in {"committed", "waiting"} /\ ~Expired(x)
        /\ Answer(x, "poll", "pending")
        /\ UNCHANGED <<pending, handed>>
     \/ /\ pending[x].state = "declined" /\ ~Expired(x)
        /\ pending' = [pending EXCEPT ![x] = Gone]
        /\ Answer(x, "poll", "declined")
        /\ UNCHANGED handed
     \/ /\ pending[x].state = "accepted" /\ ~Expired(x)
        /\ handed' = [handed EXCEPT ![x] = pending[x].token]
        /\ pending' = [pending EXCEPT ![x] = Gone]
        /\ Answer(x, "poll", "accepted")
  /\ UNCHANGED <<taskVars, reading, checked, minted, limitVars, uiVars, accepting, configVars>>

SweepPairsUnanswered(d) ==                                 \* mutant
  /\ pending' = [x \in Exch |->
                   IF To[x] = d /\ Expired(x) /\ pending[x].state \in {"committed", "waiting"}
                   THEN Gone ELSE pending[x]]
  /\ UNCHANGED <<taskVars, netVars, checked, minted, handed, limitVars, uiVars,
                 accepting, configVars>>

\* sweep_pairs, every five seconds on each device.
SweepPairs(d) ==
  /\ pending' = [x \in Exch |-> IF To[x] = d /\ Expired(x) THEN Gone ELSE pending[x]]
  /\ UNCHANGED <<taskVars, netVars, checked, minted, handed, limitVars, uiVars,
                 accepting, configVars>>

-----------------------------------------------------------------------------
(* The responder's screen and its commands. *)

\* list_incoming_pair_requests, asked by the watch tick: the UI looks only at
\* the prompt that expires first.
ListPrompts(d) ==
  /\ MainIdle(d)
  /\ listing[d] = Unasked
  /\ \/ Prompts(d) = {} /\ listing' = [listing EXCEPT ![d] = NoExch]
     \/ \E x \in Prompts(d) :
          /\ \A y \in Prompts(d) : pending[x].ttl <= pending[y].ttl
          /\ listing' = [listing EXCEPT ![d] = x]
  /\ UNCHANGED <<taskVars, netVars, pairVars, limitVars, shown, accepting, configVars>>

ShowPromptKept(d) ==                                       \* mutant: never hides
  /\ listing[d] # Unasked
  /\ shown' = [shown EXCEPT ![d] = IF listing[d] = NoExch THEN @ ELSE listing[d]]
  /\ listing' = [listing EXCEPT ![d] = Unasked]
  /\ UNCHANGED <<taskVars, netVars, pairVars, limitVars, accepting, configVars>>

\* showIncomingPair, when the listing's answer arrives.
ShowPrompt(d) ==
  /\ listing[d] # Unasked
  /\ shown' = [shown EXCEPT ![d] = listing[d]]
  /\ listing' = [listing EXCEPT ![d] = Unasked]
  /\ UNCHANGED <<taskVars, netVars, pairVars, limitVars, accepting, configVars>>

AcceptableTwice(x) == Live(x)                              \* mutant
Acceptable(x) == pending[x].state = "waiting" /\ Live(x)

\* The user accepts what is on screen.  accept_prompt mints the token and
\* makes it pollable before accept_pair_request writes the config.
AcceptPrompt(d) ==
  /\ MainIdle(d)
  /\ shown[d] # NoExch
  /\ shown' = [shown EXCEPT ![d] = NoExch]
  /\ LET x == shown[d] IN
     IF Acceptable(x)
     THEN /\ minted' = [minted EXCEPT ![x] = @ + 1]
          /\ pending' = [pending EXCEPT ![x].state = "accepted", ![x].token = minted[x] + 1]
          /\ accepting' = accepting \cup {x}
     ELSE UNCHANGED <<minted, pending, accepting>>
  /\ UNCHANGED <<taskVars, netVars, checked, handed, limitVars, listing, configVars>>

\* mutate_config: the file is saved, then applied to the live state.
SavedAndApplied(files, d) ==
  /\ file' = files
  /\ live' = [live EXCEPT ![d] = files[d]]

\* accept_pair_request's mutate_config.
PersistAccepted(x) ==
  /\ x \in accepting
  /\ accepting' = accepting \ {x}
  /\ \/ SavedAndApplied([file EXCEPT ![To[x]][From[x]] = [exch |-> x, token |-> minted[x]]],
                        To[x])
     \/ Faults /\ UNCHANGED configVars
  /\ UNCHANGED <<taskVars, netVars, pairVars, limitVars, uiVars>>

\* decline_prompt looks at neither the state nor the expiry.
DeclinePrompt(d) ==
  /\ MainIdle(d)
  /\ shown[d] # NoExch
  /\ shown' = [shown EXCEPT ![d] = NoExch]
  /\ LET x == shown[d] IN
     pending' = IF pending[x].state = "absent" THEN pending
                ELSE [pending EXCEPT ![x].state = "declined", ![x].token = 0]
  /\ UNCHANGED <<taskVars, netVars, checked, minted, handed, limitVars, listing,
                 accepting, configVars>>

-----------------------------------------------------------------------------
(* The config, time and restarts. *)

\* unpair_peer
Unpair(d, e) ==
  /\ MainIdle(d)
  /\ file[d][e] # NoPeer
  /\ SavedAndApplied([file EXCEPT ![d][e] = NoPeer], d)
  /\ UNCHANGED <<taskVars, netVars, pairVars, limitVars, uiVars, accepting>>

\* Any other command that goes through mutate_config: the file is re-applied.
MutateConfig(d) ==
  /\ MainIdle(d)
  /\ SavedAndApplied(file, d)
  /\ UNCHANGED <<taskVars, netVars, pairVars, limitVars, uiVars, accepting>>

\* The app on d exits at any point and is started again: memory is lost, the
\* file stays and is applied by setup.  An answer that another device has begun to
\* read may be complete there.
Restart(d) ==
  /\ Faults
  /\ task' = [x \in Exch |-> IF From[x] = d /\ task[x] \notin Finished \cup {"idle"}
                             THEN "failed" ELSE task[x]]
  /\ deadline' = [x \in Exch |-> IF From[x] = d THEN 0 ELSE deadline[x]]
  /\ call' = [x \in Exch |-> IF To[x] = d THEN "none" ELSE call[x]]
  /\ reply' = [x \in Exch |-> IF From[x] = d \/ (To[x] = d /\ x \notin reading)
                              THEN "none" ELSE reply[x]]
  /\ reading' = {x \in reading : From[x] # d}
  /\ checked' = {x \in checked : To[x] # d}
  /\ pending' = [x \in Exch |-> IF To[x] = d THEN Gone ELSE pending[x]]
  /\ refused' = [refused EXCEPT ![d] = [e \in Device |-> 0]]
  /\ attempts' = [attempts EXCEPT ![d] = [e \in Device |-> NoAttempts]]
  /\ listing' = [listing EXCEPT ![d] = Unasked]
  /\ shown' = [shown EXCEPT ![d] = NoExch]
  /\ accepting' = {x \in accepting : To[x] # d}
  /\ live' = [live EXCEPT ![d] = file[d]]
  /\ UNCHANGED <<minted, handed, file>>

Down(n) == IF n > 0 THEN n - 1 ELSE 0

Tick ==
  /\ \/ \E x \in Exch : deadline[x] > 0 \/ pending[x].ttl > 0
     \/ \E d, e \in Device : Locked(d, e)
  /\ deadline' = [x \in Exch |-> Down(deadline[x])]
  /\ pending' = [x \in Exch |-> [pending[x] EXCEPT !.ttl = Down(@)]]
  /\ attempts' = [d \in Device |-> [e \in Device |->
                    [attempts[d][e] EXCEPT !.locked = Down(@)]]]
  /\ UNCHANGED <<task, netVars, checked, minted, handed, refused, uiVars, accepting, configVars>>

-----------------------------------------------------------------------------
\* What the task's thread does by itself, and what the network brings it.
TaskStep(x) == CallFails(x) \/ SendPoll(x) \/ StopWaiting(x) \/ StorePeer(x)

Receive(x) ==
  HeadArrives(x) \/ Reveal(x) \/ AwaitAnswer(x) \/ PollAnswered(x) \/ ReplyFails(x)

Handler(x) ==
  CheckRequest(x) \/ StoreRequest(x) \/ HandleReveal(x) \/ HandlePoll(x)

User(d) == AcceptPrompt(d) \/ DeclinePrompt(d)

Next ==
  \/ \E x \in Exch : \/ StartPairing(x) \/ TaskStep(x) \/ Receive(x)
                     \/ Handler(x) \/ PersistAccepted(x)
  \/ \E d \in Responder : SweepPairs(d) \/ ListPrompts(d) \/ ShowPrompt(d) \/ User(d)
  \/ \E d \in Device : MutateConfig(d) \/ Restart(d)
  \/ \E d, e \in Device : CheckBadRequest(d, e) \/ CountFailure(d, e) \/ Unpair(d, e)
  \/ Tick

Spec == Init /\ [][Next]_vars

\* A task's thread, the sweep loop, the UI's watch tick and the main thread
\* keep running, and time passes.  Nobody owes an answer, a call or a delivery,
\* nor the rest of an answer that has begun.
FairSpec ==
  /\ Spec
  /\ \A x \in Exch : WF_vars(TaskStep(x)) /\ WF_vars(PersistAccepted(x))
  /\ \A d \in Responder : WF_vars(SweepPairs(d)) /\ WF_vars(ListPrompts(d))
                       /\ WF_vars(ShowPrompt(d))
  /\ WF_vars(Tick)

-----------------------------------------------------------------------------
(* Properties. *)

\* Every variable holds a value of its kind; a failure count never reaches the
\* limit at which pair_note_failure resets it.
TypeOK ==
  /\ task \in [Exch -> TaskState]
  /\ deadline \in [Exch -> 0..(PairTTL + 1)]
  /\ call \in [Exch -> Call]
  /\ reply \in [Exch -> Reply]
  /\ reading \in SUBSET Exch
  /\ checked \in SUBSET Exch
  /\ pending \in [Exch -> Entry]
  /\ minted \in [Exch -> Nat]
  /\ handed \in [Exch -> Nat]
  /\ refused \in [Device -> [Device -> 0..MaxRefused]]
  /\ attempts \in [Device -> [Device -> AttemptState]]
  /\ listing \in [Device -> Exch \cup {NoExch, Unasked}]
  /\ shown \in [Device -> Exch \cup {NoExch}]
  /\ accepting \in SUBSET Exch
  /\ file \in [Device -> [Device -> Peer]]
  /\ live \in [Device -> [Device -> Peer]]

\* The responder shows no prompt for an exchange, and lets none be accepted,
\* before the initiator has revealed its nonce: until then the code the two
\* people compare does not exist (pair_request stores Committed, not Waiting).
PromptAfterReveal ==
  \A x \in Exch :
    pending[x].state \in {"waiting", "accepted"} \/ shown[To[x]] = x
      => task[x] \notin {"idle", "request"}

\* A peer on file comes from an exchange between just these two devices.  The
\* responder stored it under the one token its user's Accept minted, and the
\* initiator under a token that a poll handed over, never an empty one.
PeersAreAccepted ==
  \A d, e \in Device : file[d][e] # NoPeer =>
    LET x == file[d][e].exch
        t == file[d][e].token
    IN  /\ x \in Exch /\ t = 1 /\ minted[x] = 1
        /\ \/ From[x] = d /\ To[x] = e /\ handed[x] = t
           \/ From[x] = e /\ To[x] = d

\* If both devices keep the peer of the same exchange, their tokens mirror:
\* what one presents is what the other expects (await_pairing's "mirror image").
MirroredTokens ==
  \A d, e \in Device :
    file[d][e].exch = file[e][d].exch => file[d][e] = file[e][d]

\* Where an exchange stands, as its promise sees it.  It is over once it is
\* refused or expired and cannot be stored again: pair ids are never reused.
NotYetStored(x) == task[x] = "idle" \/ call[x] = "request" \/ x \in checked
Phase(x) ==
  IF handed[x] # 0 THEN "granted"
  ELSE IF NotYetStored(x) \/ (Live(x) /\ pending[x].state \in {"committed", "waiting"})
       THEN "open"
  ELSE IF Live(x) /\ pending[x].state = "accepted" THEN "confirmed"
  ELSE "closed"

\* Pairing implements its promise: an initiator is handed a token only for an
\* exchange accepted at the responder, and nothing revives one that was
\* declined, dropped, lost in a restart or left to expire.
Promise == INSTANCE PairingPromise WITH phase <- [x \in Exch |-> Phase(x)]
PromiseKept == Promise!Spec

\* start_pair_task ends, whether the network and the other side answer or not:
\* calls are timed out and the wait has a deadline.  One thing alone can hold it,
\* and then neither helps, nor Cancel: the body of an answer that never comes
\* (post_json times the head only).
TaskEnds == \A x \in Exch :
  []<>(x \notin reading) => (task[x] # "idle" ~> task[x] \in Finished)

\* The pending map drains: an entry no one polls for is swept.
PendingDrains == \A x \in Exch : Present(x) ~> ~Present(x)

\* A dialog for a prompt that was answered or expired goes away by itself.
DialogCloses == \A d \in Device, x \in Exch :
  shown[d] = x /\ ~Present(x) ~> shown[d] # x

\* peers.rs:329: "One live prompt per source IP".
OneLivePrompt ==
  \A x, y \in Exch :
    Live(x) /\ Live(y) /\ From[x] = From[y] /\ To[x] = To[y] => x = y

\* README.md:45, after connecting "each can browse the other's shares": once
\* every exchange that was started has ended in "Connected" and no peer was
\* forgotten, each side's tokens are the ones the other side keeps.
BothCanBrowse ==
  (\A x \in Exch : task[x] \in {"idle", "accepted"} /\ x \notin accepting /\ call[x] = "none")
    => \A d, e \in Device :
         file[d][e] # NoPeer /\ file[e][d] # NoPeer => file[d][e] = file[e][d]

\* models.rs:268: the live registry is "rebuilt by apply_config_to_state on every
\* mutation".  Once every exchange that was started has ended and every command
\* has returned, a device knows the peers that its file names, and no others.
LiveFollowsFile ==
  accepting = {} /\ (\A x \in Exch : task[x] \in {"idle"} \cup Finished) => live = file

=============================================================================
