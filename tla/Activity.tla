------------------------------ MODULE Activity ------------------------------
(***************************************************************************)
(* The activity log: the ring the server's threads write (activity.rs) and *)
(* the page's copy of it (tasks.rs, ui/app.js).  The module that extends   *)
(* this one says when an entry is written.                                 *)
(*                                                                         *)
(* An entry takes its id before it takes the ring's lock.  The page asks   *)
(* for what is newer than the newest id it knows, every 1.5 seconds and    *)
(* without waiting for the answer of the time before, so answers may come  *)
(* to it late and out of order.                                            *)
(***************************************************************************)
EXTENDS Integers, Sequences, FiniteSets

CONSTANTS
  Worker,     \* threads of the server and of downloads
  Poll,       \* polls the page may have under way at once
  RingCap,    \* ACTIVITY_LOG_CAP
  PageLimit,  \* ACTIVITY_LIMIT
  MaxClears   \* how many times the user clears the log

ASSUME ActivityAssumption ==
  /\ RingCap \in Nat \ {0} /\ PageLimit \in 1..RingCap
  /\ MaxClears \in Nat

VARIABLES
  nextId,   \* next_activity_id
  ring,     \* the log, the entry pushed last first
  rec,      \* Worker -> the entry it is writing or has open
  tab,      \* whether the page shows the log and polls it
  rows,     \* the page's copy
  lastId,   \* the newest id the page knows
  poll,     \* Poll -> the poll under way
  clearing, \* the log is cleared and the page's copy is about to be
  clears    \* how often

log  == <<nextId, ring, rec>>
page == <<tab, rows, lastId, poll, clearing, clears>>
activityVars == <<log, page>>

-----------------------------------------------------------------------------
(* What the state is made of. *)

\* "ok" and "error" are one here: no property tells how a body ended.
Status == {"started", "ended", "aborted"}
Entry  == [id : Nat \ {0}, status : Status]

\* A worker's entry has its id and waits for the ring; or it is in the ring and
\* its body is being sent; or the body has ended and is still to be dropped.
NoRec == [pc |-> "none", id |-> 0, status |-> "ended"]
Rec   == [pc : {"none", "taken", "open", "ended"}, id : Nat, status : Status]

NoPoll == [pc |-> "idle", since |-> 0, all |-> FALSE, got |-> <<>>]

Least(a, b) == IF a <= b THEN a ELSE b
Most(a, b)  == IF a <= b THEN b ELSE a
FirstOf(s, n) == [i \in 1..Least(n, Len(s)) |-> s[i]]

ActivityInit ==
  /\ nextId = 0
  /\ ring = <<>>
  /\ rec = [w \in Worker |-> NoRec]
  /\ rows = <<>>
  /\ lastId = 0
  /\ poll = [p \in Poll |-> NoPoll]
  /\ clearing = FALSE
  /\ clears = 0

-----------------------------------------------------------------------------
(* Writing: log and finalize. *)

TakeIdByLength(w, status) ==   \* mutant
  /\ rec[w].pc = "none"
  /\ nextId' = Most(nextId, Len(ring) + 1)
  /\ rec' = [rec EXCEPT ![w] = [pc |-> "taken", id |-> Len(ring) + 1, status |-> status]]
  /\ UNCHANGED <<ring, page>>

TakeId(w, status) ==
  /\ rec[w].pc = "none"
  /\ nextId' = nextId + 1
  /\ rec' = [rec EXCEPT ![w] = [pc |-> "taken", id |-> nextId + 1, status |-> status]]
  /\ UNCHANGED <<ring, page>>

PushAll(w) ==   \* mutant
  /\ rec[w].pc = "taken"
  /\ ring' = <<[id |-> rec[w].id, status |-> rec[w].status]>> \o ring
  /\ rec' = [rec EXCEPT ![w] = IF rec[w].status = "started" THEN [@ EXCEPT !.pc = "open"]
                               ELSE NoRec]
  /\ UNCHANGED <<nextId, page>>

\* A point event is done with; a response goes on to send its body.
Push(w) ==
  /\ rec[w].pc = "taken"
  /\ ring' = FirstOf(<<[id |-> rec[w].id, status |-> rec[w].status]>> \o ring, RingCap)
  /\ rec' = [rec EXCEPT ![w] = IF rec[w].status = "started" THEN [@ EXCEPT !.pc = "open"]
                               ELSE NoRec]
  /\ UNCHANGED <<nextId, page>>

\* finalize changes the entry if the ring still has it.
Finalized(id, status) ==
  [i \in DOMAIN ring |-> IF ring[i].id = id THEN [ring[i] EXCEPT !.status = status] ELSE ring[i]]

\* CountingBody: the stream comes to its end or to an error.
BodyEnds(w) ==
  /\ rec[w].pc = "open"
  /\ rec' = [rec EXCEPT ![w].pc = "ended"]
  /\ ring' = Finalized(rec[w].id, "ended")
  /\ UNCHANGED <<nextId, page>>

DropAlways(w) ==   \* mutant
  /\ rec[w].pc \in {"open", "ended"}
  /\ rec' = [rec EXCEPT ![w] = NoRec]
  /\ ring' = Finalized(rec[w].id, "aborted")
  /\ UNCHANGED <<nextId, page>>

DropSilent(w) ==   \* mutant
  /\ rec[w].pc \in {"open", "ended"}
  /\ rec' = [rec EXCEPT ![w] = NoRec]
  /\ UNCHANGED <<nextId, ring, page>>

\* ... and is dropped, then or before: the client went away.
DropBody(w) ==
  /\ rec[w].pc \in {"open", "ended"}
  /\ rec' = [rec EXCEPT ![w] = NoRec]
  /\ ring' = IF rec[w].pc = "open" THEN Finalized(rec[w].id, "aborted") ELSE ring
  /\ UNCHANGED <<nextId, page>>

-----------------------------------------------------------------------------
(* Reading: pollActivity, get_activity_log and clear_activity_log. *)

\* The entries up to the first that is not newer than since.
ReadSince(since) ==
  LET new == {n \in DOMAIN ring : \A i \in 1..n : ring[i].id > since}
  IN  FirstOf(ring, Least(Cardinality(new), PageLimit))

StartPoll(p) ==
  /\ tab /\ poll[p].pc = "idle"
  /\ poll' = [poll EXCEPT ![p] = [NoPoll EXCEPT !.pc = "asked", !.since = lastId]]
  /\ UNCHANGED <<log, tab, rows, lastId, clearing, clears>>

AnswerPoll(p) ==
  /\ poll[p].pc = "asked"
  /\ poll' = [poll EXCEPT ![p].pc = "answered", ![p].since = 0,
                                ![p].got = ReadSince(poll[p].since)]
  /\ UNCHANGED <<log, tab, rows, lastId, clearing, clears>>

\* New rows go before the old ones.  With none, every row is asked for again:
\* rows the page holds may have changed.
NoRefetch(p) ==   \* mutant
  /\ poll[p].pc = "answered" /\ ~poll[p].all /\ poll[p].got = <<>>
  /\ poll' = [poll EXCEPT ![p] = NoPoll]
  /\ UNCHANGED <<log, tab, rows, lastId, clearing, clears>>

Refetch(p) ==
  /\ poll[p].pc = "answered" /\ ~poll[p].all /\ poll[p].got = <<>>
  /\ poll' = [poll EXCEPT ![p] = [NoPoll EXCEPT !.pc = "asked", !.all = TRUE]]
  /\ UNCHANGED <<log, tab, rows, lastId, clearing, clears>>

PrependRows(p) ==
  /\ poll[p].pc = "answered" /\ ~poll[p].all /\ poll[p].got # <<>>
  /\ lastId' = Most(lastId, poll[p].got[1].id)
  /\ rows' = FirstOf(poll[p].got \o rows, RingCap)
  /\ poll' = [poll EXCEPT ![p] = NoPoll]
  /\ UNCHANGED <<log, tab, clearing, clears>>

ReplaceRows(p) ==
  /\ poll[p].pc = "answered" /\ poll[p].all
  /\ IF poll[p].got = <<>> THEN UNCHANGED <<rows, lastId>>
     ELSE rows' = poll[p].got /\ lastId' = poll[p].got[1].id
  /\ poll' = [poll EXCEPT ![p] = NoPoll]
  /\ UNCHANGED <<log, tab, clearing, clears>>

\* The button clears the ring, then, when the command has returned, the rows.
ClearRing ==
  /\ tab /\ ~clearing /\ clears < MaxClears
  /\ ring' = <<>>
  /\ clearing' = TRUE
  /\ clears' = clears + 1
  /\ UNCHANGED <<nextId, rec, tab, rows, lastId, poll>>

ClearRows ==
  /\ clearing
  /\ clearing' = FALSE
  /\ rows' = <<>>
  /\ lastId' = 0
  /\ UNCHANGED <<log, tab, poll, clears>>

PollStep(p) ==
  StartPoll(p) \/ AnswerPoll(p) \/ Refetch(p) \/ PrependRows(p) \/ ReplaceRows(p)

-----------------------------------------------------------------------------
(* Properties. *)

Known(id) == id \in 1..nextId

ActivityTypeOK ==
  /\ nextId \in Nat
  /\ ring \in Seq(Entry) /\ Len(ring) <= RingCap
  /\ rec \in [Worker -> Rec]
  /\ tab \in BOOLEAN
  /\ rows \in Seq(Entry) /\ Len(rows) <= RingCap
  /\ lastId \in Nat
  /\ poll \in [Poll -> [pc : {"idle", "asked", "answered"}, since : Nat, all : BOOLEAN,
                        got : Seq(Entry)]]
  /\ \A p \in Poll : Len(poll[p].got) <= PageLimit
  /\ clearing \in BOOLEAN /\ clears \in 0..MaxClears

\* No two entries share an id, and an entry is said to be going on only while
\* the worker that sends its body has it open: a client that goes away does not
\* leave an entry that says "started" for ever (activity.rs:4-8).
StartedIsRunning ==
  /\ \A i, j \in DOMAIN ring : ring[i].id = ring[j].id => i = j
  /\ \A i \in DOMAIN ring :
       ring[i].status = "started" => \E w \in Worker : rec[w].pc = "open" /\ rec[w].id = ring[i].id

\* How a transfer ended is written once: dropping a body that was sent, or that
\* failed, does not turn its entry into an aborted one.
FinalStatusStays ==
  [][\A i \in DOMAIN ring, j \in DOMAIN ring' :
       ring[i].id = ring'[j].id /\ ring[i].status # "started"
         => ring'[j].status = ring[i].status]_ring

\* The log is "honest" (activity.rs:1): whatever ids the threads have taken and
\* however their writes cross, it shows each transfer once, tells once how it
\* ended, and loses entries only at its cap or to a clear.
Written == {i \in 1..nextId : \A w \in Worker : rec[w].pc = "taken" => rec[w].id # i}
Sending == {rec[w].id : w \in {v \in Worker : rec[v].pc = "open"}}

Promise == INSTANCE LogPromise WITH
  Cap <- RingCap, shown <- ring, sending <- Sending, used <- Written
LogIsHonest == Promise!Spec

\* However late the answers come and whichever overtakes which, the page may be
\* behind the log but never contradicts it: of a transfer that both have, it
\* shows the same end, or still none.  And it knows no id that was not handed
\* out: it would not ask for the entries below it again (ui/app.js:1136).
PageOnlyBehind ==
  /\ lastId \in 0..nextId
  /\ \A i \in DOMAIN rows, j \in DOMAIN ring :
       rows[i].id = ring[j].id => rows[i].status \in {"started", ring[j].status}

\* Once nothing more is logged, the page shows what the ring holds, however the
\* ids and the answers crossed and whenever the log was cleared.  A log that is
\* empty is the exception: the page keeps what a late answer brought
\* (ui/app.js:1153).
PageCatchesUp == tab => <>[](ring # <<>> => rows = FirstOf(ring, PageLimit))
=============================================================================
