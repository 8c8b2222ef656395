-------------------------- MODULE LogPromiseProofs --------------------------
(***************************************************************************)
(* The threads of activity.rs implement the log of LogPromise.             *)
(*                                                                         *)
(* An id is used from the moment its entry is in the ring, not from the    *)
(* moment it is taken: Written leaves out what a thread holds between the  *)
(* two (Taking).  Ids are one thread's each (Numbers), so pushing an entry *)
(* uses one id, and ending a body ends one entry (Ending).                 *)
(*                                                                         *)
(* What the page holds, and what is on its way to it, was read from that   *)
(* log at some time: it is behind the log of now (Behind), and no step of  *)
(* the log changes that, because an id that is used is not pushed again    *)
(* (Fresh) and an end that is told stays (FinalKept).                      *)
(***************************************************************************)
EXTENDS TransfersProofs

\* An entry does not begin as an aborted one.
Begins == \A w \in Worker : rec[w].status \in {"started", "ended"}

LogInv == ActivityTypeOK /\ Log /\ Begins

LEMMA BeginsKept ==
  ASSUME ActivityTypeOK, Begins, LogMove
  PROVE  Begins'
<1>1. rec \in [Worker -> Rec]
  BY DEF ActivityTypeOK
<1>2. ASSUME rec' = rec
      PROVE  Begins'
  BY <1>2 DEF Begins
<1>3. NoRec.status = "ended"
  BY DEF NoRec
<1>4. ASSUME NEW w \in Worker, NEW status \in {"started", "ended"}, TakeId(w, status)
      PROVE  Begins'
  <2>1. rec' = [rec EXCEPT ![w] = [pc |-> "taken", id |-> nextId + 1, status |-> status]]
    BY <1>4 DEF TakeId
  <2> QED
    BY <1>1, <2>1 DEF Begins
<1>5. ASSUME NEW w \in Worker, Push(w) \/ BodyEnds(w) \/ DropBody(w)
      PROVE  Begins'
  <2>1. PICK pc \in {"open", "ended"} : rec' \in {[rec EXCEPT ![w] = [rec[w] EXCEPT !.pc = pc]],
                                                 [rec EXCEPT ![w] = NoRec]}
    BY <1>1, <1>5 DEF Push, BodyEnds, DropBody
  <2>2. [rec[w] EXCEPT !.pc = pc].status = rec[w].status
    BY <1>1 DEF Rec
  <2> QED
    BY <1>1, <1>3, <2>1, <2>2 DEF Begins
<1>6. ClearRing \/ ClearRows \/ (\E p \in Poll : PollStep(p)) \/ UNCHANGED activityVars => rec' = rec
  BY DEF ClearRing, ClearRows, PollStep, StartPoll, AnswerPoll, Refetch, PrependRows, ReplaceRows,
     activityVars, log
<1> QED
  BY <1>2, <1>4, <1>5, <1>6 DEF LogMove

\* The log's invariant holds of every reachable state.
THEOREM LogAlways == Spec => []LogInv
<1>1. Init => LogInv
  <2>1. Init => Begins
    BY DEF Begins, Init, ActivityInit, NoRec
  <2> QED
    BY <2>1, InitInv DEF Inv, TypeOK, LogInv
<1>2. LogInv /\ [Next]_vars => LogInv'
  <2>1. [Next]_vars => LogMove
    BY LogMoves DEF LogMove, vars
  <2> QED
    BY <2>1, LogTypes, LogKept, BeginsKept DEF LogInv, Log
<1> QED
  BY <1>1, <1>2, PTL DEF Spec

-----------------------------------------------------------------------------
(* What the steps do to the ids. *)

\* Taking an id uses none.
LEMMA Taking ==
  ASSUME LogInv, NEW w \in Worker, NEW status, TakeId(w, status)
  PROVE  Written' = Written /\ Sending' = Sending /\ ring' = ring
<1>1. /\ rec \in [Worker -> Rec] /\ nextId \in Nat /\ nextId' = nextId + 1
      /\ rec[w].pc = "none" /\ ring' = ring
      /\ rec' = [rec EXCEPT ![w] = [pc |-> "taken", id |-> nextId + 1, status |-> status]]
  BY DEF LogInv, ActivityTypeOK, TakeId
<1>2. /\ rec'[w].pc = "taken" /\ rec'[w].id = nextId + 1
      /\ \A v \in Worker \ {w} : rec'[v] = rec[v]
  BY <1>1
<1>3. \A i \in 1..(nextId + 1) :
        (\A v \in Worker : rec'[v].pc = "taken" => rec'[v].id # i)
          <=> i # nextId + 1 /\ \A v \in Worker : rec[v].pc = "taken" => rec[v].id # i
  BY <1>1, <1>2
<1>4. Written' = Written
  BY <1>1, <1>3 DEF Written
<1>5. Sending' = Sending
  BY <1>1, <1>2 DEF Sending
<1> QED
  BY <1>1, <1>4, <1>5

\* Pushing an entry uses the id its thread had taken.
LEMMA Pushing ==
  ASSUME LogInv, NEW w \in Worker, Push(w)
  PROVE  /\ rec[w].id \notin Written /\ Written' = Written \cup {rec[w].id}
         /\ Sending' = IF rec[w].status = "started" THEN Sending \cup {rec[w].id} ELSE Sending
<1>1. /\ rec \in [Worker -> Rec] /\ rec[w].pc = "taken" /\ nextId' = nextId
      /\ rec' = [rec EXCEPT ![w] = IF rec[w].status = "started" THEN [rec[w] EXCEPT !.pc = "open"]
                                   ELSE NoRec]
  BY DEF LogInv, ActivityTypeOK, Push
<1>2. /\ rec[w].id \in 1..nextId
      /\ \A v \in Worker \ {w} : rec[v].pc # "none" => rec[v].id # rec[w].id
  BY <1>1 DEF LogInv, Log, Numbers
<1>3. /\ \A v \in Worker \ {w} : rec'[v] = rec[v]
      /\ rec'[w].pc # "taken"
      /\ rec[w].status = "started" => rec'[w].pc = "open" /\ rec'[w].id = rec[w].id
      /\ rec[w].status # "started" => rec'[w].pc = "none"
  BY <1>1 DEF Rec, NoRec
<1>4. rec[w].id \notin Written
  BY <1>1 DEF Written
<1>5. \A i \in 1..nextId :
        (\A v \in Worker : rec'[v].pc = "taken" => rec'[v].id # i)
          <=> i = rec[w].id \/ \A v \in Worker : rec[v].pc = "taken" => rec[v].id # i
  BY <1>1, <1>2, <1>3
<1>6. Written' = Written \cup {rec[w].id}
  BY <1>1, <1>2, <1>5 DEF Written
<1>7. Sending' = IF rec[w].status = "started" THEN Sending \cup {rec[w].id} ELSE Sending
  BY <1>1, <1>3 DEF Sending
<1> QED
  BY <1>4, <1>6, <1>7

\* A body that ends, or is dropped before, ends what was going on under its id.
LEMMA Ending ==
  ASSUME LogInv, NEW w \in Worker, BodyEnds(w) \/ DropBody(w)
  PROVE  /\ Written' = Written
         /\ rec[w].pc = "open" => rec[w].id \in Sending /\ Sending' = Sending \ {rec[w].id}
         /\ rec[w].pc # "open" => Sending' = Sending
<1>1. /\ rec \in [Worker -> Rec] /\ rec[w].pc \in {"open", "ended"} /\ nextId' = nextId
      /\ \/ rec' = [rec EXCEPT ![w] = [rec[w] EXCEPT !.pc = "ended"]]
         \/ rec' = [rec EXCEPT ![w] = NoRec]
  BY DEF LogInv, ActivityTypeOK, BodyEnds, DropBody
<1>2. \A v \in Worker \ {w} : rec[v].pc # "none" => rec[v].id # rec[w].id
  BY <1>1 DEF LogInv, Log, Numbers
<1>3. rec'[w].pc \notin {"taken", "open"} /\ \A v \in Worker \ {w} : rec'[v] = rec[v]
  BY <1>1 DEF Rec, NoRec
<1>4. Written' = Written
  <2>1. \A i : (\A v \in Worker : rec'[v].pc = "taken" => rec'[v].id # i)
                 <=> \A v \in Worker : rec[v].pc = "taken" => rec[v].id # i
    BY <1>1, <1>3
  <2> QED
    BY <1>1, <2>1 DEF Written
<1>5. Sending' = {rec[v].id : v \in {u \in Worker \ {w} : rec[u].pc = "open"}}
  BY <1>3 DEF Sending
<1>6. CASE rec[w].pc = "open"
  <2>1. rec[w].id \in Sending
    BY <1>6 DEF Sending
  <2>2. Sending = {rec[w].id} \cup {rec[v].id : v \in {u \in Worker \ {w} : rec[u].pc = "open"}}
    BY <1>6 DEF Sending
  <2>3. rec[w].id \notin {rec[v].id : v \in {u \in Worker \ {w} : rec[u].pc = "open"}}
    BY <1>2
  <2> QED
    BY <1>4, <1>5, <1>6, <2>1, <2>2, <2>3
<1>7. CASE rec[w].pc # "open"
  <2>1. {u \in Worker \ {w} : rec[u].pc = "open"} = {u \in Worker : rec[u].pc = "open"}
    BY <1>7
  <2> QED
    BY <1>4, <1>5, <1>7, <2>1 DEF Sending
<1> QED
  BY <1>6, <1>7

-----------------------------------------------------------------------------
(* The refinement. *)

LEMMA HonestStep ==
  ASSUME LogInv, LogMove
  PROVE  [Promise!Next]_Promise!vars
<1>1. ASSUME UNCHANGED <<ring, Sending, Written>>
      PROVE  [Promise!Next]_Promise!vars
  BY <1>1 DEF Promise!vars
<1>2. ASSUME NEW w \in Worker, NEW status, TakeId(w, status)
      PROVE  [Promise!Next]_Promise!vars
  BY <1>1, <1>2, Taking
<1>3. ASSUME NEW w \in Worker, Push(w)
      PROVE  Promise!Next
  <2>1. rec[w].status \in {"started", "ended"}
    BY DEF LogInv, Begins
  <2>2. ring' = Promise!Newest(<<[id |-> rec[w].id, status |-> rec[w].status]>> \o ring)
    BY <1>3 DEF Push, FirstOf, Least, Promise!Newest
  <2>3. Promise!Appear(rec[w].id, rec[w].status) /\ rec[w].id \in Written'
    BY <1>3, <2>2, Pushing DEF Promise!Appear
  <2> QED
    BY <2>1, <2>3 DEF Promise!Next
<1>4. ASSUME NEW w \in Worker, BodyEnds(w) \/ DropBody(w)
      PROVE  [Promise!Next]_Promise!vars
  <2>1. CASE rec[w].pc = "open"
    <3>1. PICK status \in {"ended", "aborted"} : ring' = Finalized(rec[w].id, status)
      BY <1>4, <2>1 DEF BodyEnds, DropBody
    <3>2. Promise!Settle(rec[w].id, status) /\ rec[w].id \in Sending
      BY <1>4, <2>1, <3>1, Ending DEF Promise!Settle, Finalized
    <3> QED
      BY <3>1, <3>2 DEF Promise!Next
  <2>2. CASE rec[w].pc # "open"
    <3>1. ring' = ring
      BY <1>4, <2>2 DEF BodyEnds, DropBody
    <3> QED
      BY <1>1, <1>4, <2>2, <3>1, Ending
  <2> QED
    BY <2>1, <2>2
<1>5. ASSUME ClearRing
      PROVE  Promise!Next
  BY <1>5 DEF ClearRing, Promise!Next, Promise!Clear, Sending, Written
<1>6. ASSUME UNCHANGED log
      PROVE  [Promise!Next]_Promise!vars
  BY <1>1, <1>6 DEF log, Sending, Written
<1>7. ClearRows \/ (\E p \in Poll : PollStep(p)) \/ UNCHANGED activityVars => UNCHANGED log
  BY DEF ClearRows, PollStep, StartPoll, AnswerPoll, Refetch, PrependRows, ReplaceRows,
     activityVars
<1> QED
  BY <1>2, <1>3, <1>4, <1>5, <1>6, <1>7 DEF LogMove

\* ServerCtx::log, finalize, CountingBody and clear_activity_log implement the
\* log of LogPromise, for any number of threads and any cap: each transfer
\* appears once and is told once how it ended.
THEOREM ThreadsKeepTheLog == Spec => LogIsHonest
<1>1. Init => Promise!Init
  <2> SUFFICES ASSUME Init PROVE Promise!Init
    OBVIOUS
  <2>1. ring = <<>> /\ nextId = 0 /\ \A w \in Worker : rec[w].pc = "none"
    BY DEF Init, ActivityInit, NoRec
  <2>2. Sending = {}
    BY <2>1 DEF Sending
  <2>3. Written = {}
    BY <2>1 DEF Written
  <2> QED
    BY <2>1, <2>2, <2>3 DEF Promise!Init
<1>2. LogInv /\ [Next]_vars => [Promise!Next]_Promise!vars
  <2>1. [Next]_vars => LogMove
    BY LogMoves DEF LogMove, vars
  <2> QED
    BY <2>1, HonestStep
<1> QED
  BY <1>1, <1>2, LogAlways, PTL DEF Spec, LogIsHonest, Promise!Spec
-----------------------------------------------------------------------------
(* The page's copy. *)

Behind(e) ==
  /\ e.id \in Written
  /\ \A j \in DOMAIN ring : ring[j].id = e.id => e.status \in {"started", ring[j].status}

Shown  == \A i \in DOMAIN rows : Behind(rows[i])
OnWay  == \A p \in Poll : \A i \in DOMAIN poll[p].got : Behind(poll[p].got[i])
Newest == lastId \in 0..nextId

PageInv == Shown /\ OnWay /\ Newest

\* What a step of the log puts into the ring has an id that was not used before.
LEMMA Fresh ==
  ASSUME LogInv, LogMove
  PROVE  /\ Written \subseteq Written' /\ nextId \in Nat /\ nextId' \in Nat /\ nextId <= nextId'
         /\ \A j \in DOMAIN ring' :
              ring'[j].id \in Written => \E i \in DOMAIN ring : ring[i].id = ring'[j].id
<1> DEFINE Goal ==
      /\ Written \subseteq Written' /\ nextId \in Nat /\ nextId' \in Nat /\ nextId <= nextId'
      /\ \A j \in DOMAIN ring' :
           ring'[j].id \in Written => \E i \in DOMAIN ring : ring[i].id = ring'[j].id
<1>n. nextId \in Nat
  BY DEF LogInv, ActivityTypeOK
<1>1. ASSUME Written' = Written, nextId' = nextId, ring' = ring
      PROVE  Goal
  BY <1>1, <1>n
<1>2. ASSUME NEW w \in Worker, NEW status, TakeId(w, status)
      PROVE  Goal
  <2>1. Written' = Written /\ ring' = ring /\ nextId' = nextId + 1
    BY <1>2, Taking DEF TakeId
  <2> QED
    BY <2>1, <1>n
<1>3. ASSUME NEW w \in Worker, Push(w)
      PROVE  Goal
  <2>1. rec[w].id \notin Written /\ Written' = Written \cup {rec[w].id} /\ nextId' = nextId
    BY <1>3, Pushing DEF Push
  <2>2. /\ ring'[1] = [id |-> rec[w].id, status |-> rec[w].status]
        /\ \A j \in DOMAIN ring' : j = 1 \/ \E k \in DOMAIN ring : j = k + 1 /\ ring'[j] = ring[k]
    BY <1>3, Pushed DEF LogInv, Log
  <2>3. ring'[1].id = rec[w].id
    BY <2>2
  <2> QED
    BY <2>1, <2>2, <2>3, <1>n
<1>4. ASSUME NEW w \in Worker, BodyEnds(w) \/ DropBody(w)
      PROVE  Goal
  <2>1. Written' = Written /\ nextId' = nextId
    BY <1>4, Ending DEF BodyEnds, DropBody
  <2>2. DOMAIN ring' = DOMAIN ring /\ \A j \in DOMAIN ring : ring'[j].id = ring[j].id
    BY <1>4, Closed DEF LogInv
  <2> QED
    BY <2>1, <2>2, <1>n
<1>5. ASSUME ClearRing
      PROVE  Goal
  <2>1. ring' = <<>> /\ nextId' = nextId /\ Written' = Written
    BY <1>5 DEF ClearRing, Written
  <2> QED
    BY <2>1, <1>n
<1>6. ClearRows \/ (\E p \in Poll : PollStep(p)) \/ UNCHANGED activityVars => UNCHANGED log
  BY DEF ClearRows, PollStep, StartPoll, AnswerPoll, Refetch, PrependRows, ReplaceRows,
     activityVars
<1>7. UNCHANGED log => Goal
  BY <1>1 DEF log, Written
<1> QED
  BY <1>2, <1>3, <1>4, <1>5, <1>6, <1>7 DEF LogMove

\* What is behind the log stays behind it.
LEMMA BehindStays ==
  ASSUME LogInv, LogMove, NEW e, Behind(e)
  PROVE  /\ e.id \in Written'
         /\ \A j \in DOMAIN ring' : ring'[j].id = e.id => e.status \in {"started", ring'[j].status}
<1>1. e.id \in Written /\ e.id \in Written'
  BY Fresh DEF Behind
<1>2. ASSUME NEW j \in DOMAIN ring', ring'[j].id = e.id
      PROVE  e.status \in {"started", ring'[j].status}
  <2>1. PICK i \in DOMAIN ring : ring[i].id = ring'[j].id
    BY <1>1, <1>2, Fresh
  <2>2. e.status \in {"started", ring[i].status}
    BY <1>2, <2>1 DEF Behind
  <2>3. ring[i].status # "started" => ring'[j].status = ring[i].status
    BY <2>1, FinalKept DEF LogInv
  <2> QED
    BY <2>2, <2>3
<1> QED
  BY <1>1, <1>2

\* The ring's own entries are behind it.
LEMMA RingBehind ==
  ASSUME LogInv, NEW i \in DOMAIN ring
  PROVE  Behind(ring[i])
<1>1. ring[i].id \in 1..nextId
  BY DEF LogInv, Log, Numbers
<1>2. \A w \in Worker : rec[w].pc = "taken" => rec[w].id # ring[i].id
  BY DEF LogInv, Log, Entries
<1>3. ring[i].id \in Written
  BY <1>1, <1>2 DEF Written
<1>4. \A j \in DOMAIN ring : ring[j].id = ring[i].id => j = i
  BY DEF LogInv, Log, Numbers
<1> QED
  BY <1>3, <1>4 DEF Behind

\* An answer consists of entries of the ring.
LEMMA ReadIsRing ==
  ASSUME ActivityTypeOK, NEW since \in Nat
  PROVE  \A i \in DOMAIN ReadSince(since) : i \in DOMAIN ring /\ ReadSince(since)[i] = ring[i]
<1>1. ring \in Seq(Entry)
  BY DEF ActivityTypeOK
<1>2. Len(ring) \in Nat /\ DOMAIN ring = 1..Len(ring)
  BY <1>1, LenProperties
<1> DEFINE new == {n \in DOMAIN ring : \A i \in 1..n : ring[i].id > since}
           n == Least(Cardinality(new), PageLimit)
<1>3. IsFiniteSet(new)
  <2>1. IsFiniteSet(1..Len(ring)) /\ new \subseteq 1..Len(ring)
    BY <1>2, FS_Interval
  <2> QED
    BY <2>1, FS_Subset
<1>4. n \in Nat
  BY <1>3, FS_CardinalityType, ActivityAssumption DEF Least
<1>5. ReadSince(since) = FirstOf(ring, n)
  BY DEF ReadSince
<1> HIDE DEF n
<1> QED
  BY <1>1, <1>4, <1>5, FirstOfFacts

LEMMA PageKept ==
  ASSUME LogInv, PageInv, LogMove
  PROVE  PageInv'
<1> DEFINE Stays(e) ==
      /\ e.id \in Written'
      /\ \A j \in DOMAIN ring' : ring'[j].id = e.id => e.status \in {"started", ring'[j].status}
<1>1. \A i \in DOMAIN rows : Stays(rows[i])
  BY BehindStays DEF PageInv, Shown
<1>2. \A p \in Poll : \A i \in DOMAIN poll[p].got : Stays(poll[p].got[i])
  BY BehindStays DEF PageInv, OnWay
<1>3. \A i \in DOMAIN ring : Stays(ring[i])
  BY BehindStays, RingBehind
<1>4. nextId \in Nat /\ nextId' \in Nat /\ nextId <= nextId' /\ lastId \in 0..nextId
  BY Fresh DEF PageInv, Newest
<1>5. ASSUME \A i \in DOMAIN rows' : Stays(rows'[i]),
             \A p \in Poll : \A i \in DOMAIN poll'[p].got : Stays(poll'[p].got[i]),
             lastId' \in 0..nextId'
      PROVE  PageInv'
  BY <1>5 DEF PageInv, Shown, OnWay, Newest, Behind
<1> HIDE DEF Stays
<1>s. ASSUME rows' = rows, lastId' = lastId
      PROVE  (\A i \in DOMAIN rows' : Stays(rows'[i])) /\ lastId' \in 0..nextId'
  <2>1. lastId' \in 0..nextId'
    BY <1>4, <1>s
  <2> QED
    BY <1>1, <1>s, <2>1
<1>6. ASSUME rows' = rows, lastId' = lastId, poll' = poll
      PROVE  PageInv'
  BY <1>2, <1>5, <1>6, <1>s
<1>e. /\ NoPoll.got = <<>> /\ DOMAIN <<>> = {}
      /\ poll \in [Poll -> [pc : {"idle", "asked", "answered"}, since : Nat, all : BOOLEAN,
                            got : Seq(Entry)]]
      /\ rows \in Seq(Entry) /\ ActivityTypeOK
  BY DEF NoPoll, LogInv, ActivityTypeOK
<1>7. ASSUME NEW p \in Poll, NEW q, poll' = [poll EXCEPT ![p] = q], q.got = <<>>
      PROVE  \A r \in Poll : \A i \in DOMAIN poll'[r].got : Stays(poll'[r].got[i])
  BY <1>2, <1>7, <1>e
<1>8. ASSUME NEW p \in Poll, StartPoll(p) \/ Refetch(p)
      PROVE  PageInv'
  <2> DEFINE ask == [NoPoll EXCEPT !.pc = "asked", !.since = lastId]
             all == [NoPoll EXCEPT !.pc = "asked", !.all = TRUE]
  <2>1. rows' = rows /\ lastId' = lastId
    BY <1>8 DEF StartPoll, Refetch
  <2>2. ask.got = <<>> /\ all.got = <<>>
    BY DEF NoPoll
  <2>3. poll' = [poll EXCEPT ![p] = ask] \/ poll' = [poll EXCEPT ![p] = all]
    BY <1>8 DEF StartPoll, Refetch
  <2> HIDE DEF ask, all
  <2>4. \A r \in Poll : \A i \in DOMAIN poll'[r].got : Stays(poll'[r].got[i])
    BY <1>7, <2>2, <2>3
  <2> QED
    BY <1>5, <1>s, <2>1, <2>4
<1>9. ASSUME NEW p \in Poll, AnswerPoll(p)
      PROVE  PageInv'
  <2>1. /\ rows' = rows /\ lastId' = lastId
        /\ \A r \in Poll \ {p} : poll'[r] = poll[r]
        /\ poll'[p].got = ReadSince(poll[p].since) /\ poll[p].since \in Nat
    BY <1>9, <1>e DEF AnswerPoll
  <2>2. \A i \in DOMAIN poll'[p].got : Stays(poll'[p].got[i])
    BY <1>3, <1>e, <2>1, ReadIsRing
  <2> QED
    BY <1>1, <1>2, <1>4, <1>5, <2>1, <2>2
<1>10. ASSUME NEW p \in Poll, PrependRows(p)
       PROVE  PageInv'
  <2> DEFINE got == poll[p].got
  <2>1. /\ got \in Seq(Entry) /\ got # <<>> /\ lastId' = Most(lastId, got[1].id)
        /\ rows' = FirstOf(got \o rows, RingCap) /\ poll' = [poll EXCEPT ![p] = NoPoll]
    BY <1>10, <1>e DEF PrependRows
  <2>2. /\ Len(got) \in Nat /\ DOMAIN got = 1..Len(got)
        /\ Len(rows) \in Nat /\ DOMAIN rows = 1..Len(rows)
    BY <1>e, <2>1, LenProperties
  <2>3. 1 \in DOMAIN got
    BY <2>1, <2>2, EmptySeq
  <2>4. /\ got \o rows \in Seq(Entry) /\ Len(got \o rows) = Len(got) + Len(rows)
        /\ \A i \in 1..(Len(got) + Len(rows)) :
             (got \o rows)[i] = IF i <= Len(got) THEN got[i] ELSE rows[i - Len(got)]
    BY <1>e, <2>1, ConcatProperties
  <2>5. ASSUME NEW i \in 1..(Len(got) + Len(rows))
        PROVE  Stays((got \o rows)[i])
    <3>1. CASE i <= Len(got)
      BY <1>2, <2>2, <2>4, <3>1
    <3>2. CASE ~(i <= Len(got))
      <4>1. i - Len(got) \in DOMAIN rows
        BY <2>2, <3>2
      <4> QED
        BY <1>1, <2>4, <3>2, <4>1
    <3> QED
      BY <3>1, <3>2
  <2>6. DOMAIN (got \o rows) = 1..(Len(got) + Len(rows))
    BY <2>4, LenProperties
  <2>7. \A i \in DOMAIN rows' : i \in DOMAIN (got \o rows) /\ rows'[i] = (got \o rows)[i]
    <3> HIDE DEF got
    <3>1. RingCap \in Nat
      BY ActivityAssumption
    <3> QED
      BY <2>1, <2>4, <3>1, FirstOfFacts
  <2>8. \A i \in DOMAIN rows' : Stays(rows'[i])
    BY <2>5, <2>6, <2>7
  <2>9. got[1].id \in 0..nextId
    BY <2>3 DEF PageInv, OnWay, Behind, Written
  <2>10. lastId' \in 0..nextId'
    BY <1>4, <2>1, <2>9 DEF Most
  <2> QED
    BY <1>5, <1>7, <1>e, <2>1, <2>8, <2>10
<1>11. ASSUME NEW p \in Poll, ReplaceRows(p)
       PROVE  PageInv'
  <2> DEFINE got == poll[p].got
  <2>1. /\ got \in Seq(Entry) /\ poll' = [poll EXCEPT ![p] = NoPoll]
        /\ \/ rows' = rows /\ lastId' = lastId
           \/ got # <<>> /\ rows' = got /\ lastId' = got[1].id
    BY <1>11, <1>e DEF ReplaceRows
  <2>2. CASE rows' = rows /\ lastId' = lastId
    <3>1. \A r \in Poll : \A i \in DOMAIN poll'[r].got : Stays(poll'[r].got[i])
      BY <1>7, <1>e, <2>1
    <3> QED
      BY <1>5, <1>s, <2>2, <3>1
  <2>3. CASE got # <<>> /\ rows' = got /\ lastId' = got[1].id
    <3>1. 1 \in DOMAIN got
      BY <2>1, <2>3, EmptySeq, LenProperties
    <3>2. got[1].id \in 0..nextId
      BY <3>1 DEF PageInv, OnWay, Behind, Written
    <3>3. \A i \in DOMAIN rows' : Stays(rows'[i])
      BY <1>2, <2>3
    <3>4. lastId' \in 0..nextId'
      BY <1>4, <2>3, <3>2
    <3> QED
      BY <1>5, <1>7, <1>e, <2>1, <3>3, <3>4
  <2> QED
    BY <2>1, <2>2, <2>3
<1>12. ASSUME ClearRows
       PROVE  PageInv'
  <2>1. rows' = <<>> /\ lastId' = 0 /\ poll' = poll
    BY <1>12 DEF ClearRows
  <2> QED
    BY <1>2, <1>4, <1>5, <1>e, <2>1
<1>13. \/ \E w \in Worker : \/ \E status \in {"started", "ended"} : TakeId(w, status)
                            \/ Push(w) \/ BodyEnds(w) \/ DropBody(w)
       \/ ClearRing \/ UNCHANGED activityVars
       => rows' = rows /\ lastId' = lastId /\ poll' = poll
  BY DEF TakeId, Push, BodyEnds, DropBody, ClearRing, activityVars, page
<1> QED
  BY <1>6, <1>8, <1>9, <1>10, <1>11, <1>12, <1>13 DEF LogMove, PollStep

\* pollActivity and the button that clears: for any number of polls under way and
\* any order of their answers, the page may be behind the log but shows of no
\* transfer an end that the log does not show, and knows no id of the future.
THEOREM PageIsBehind == Spec => []PageOnlyBehind
<1>1. Init => PageInv
  <2> SUFFICES ASSUME Init PROVE PageInv
    OBVIOUS
  <2>1. /\ rows = <<>> /\ lastId = 0 /\ nextId = 0
        /\ \A p \in Poll : poll[p].got = <<>>
    BY DEF Init, ActivityInit, NoPoll
  <2> QED
    BY <2>1 DEF PageInv, Shown, OnWay, Newest
<1>2. LogInv /\ PageInv /\ [Next]_vars => PageInv'
  <2>1. [Next]_vars => LogMove
    BY LogMoves DEF LogMove, vars
  <2> QED
    BY <2>1, PageKept
<1>3. PageInv => PageOnlyBehind
  BY DEF PageInv, Shown, Newest, Behind, PageOnlyBehind
<1> QED
  BY <1>1, <1>2, <1>3, LogAlways, PTL DEF Spec
=============================================================================
