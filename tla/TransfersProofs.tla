-------------------------- MODULE TransfersProofs --------------------------
(***************************************************************************)
(* Proofs about Transfers and Activity for any workers, workloads and      *)
(* bounds.                                                                 *)
(*                                                                         *)
(* Whether a file is whole depends on who else could write it.  The        *)
(* invariant follows that through four facts: two workers that hold one    *)
(* name are marked (Rivals); so is a worker that holds a name under which  *)
(* another's file stands (Trespass), and one that writes into another's    *)
(* file (Sharing); a worker that is not marked fills its own file, under   *)
(* its own name (OwnFile).  What it leaves there is out of reach of all    *)
(* others from then on (Settled).  That a download saved all of its files  *)
(* is a matter of one worker only (Whole).                                 *)
(***************************************************************************)
EXTENDS Transfers, FiniteSetTheorems, SequenceTheorems, TLAPS

Held(w)    == wk[w].pc \in {"picked", "open", "stalled"}
Filling(w) == wk[w].pc \in {"open", "stalled"}
Raced(w)   == fate[w][wk[w].n].raced

\* Where a worker is and what it holds.
Places ==
  \A w \in Worker :
    /\ wk[w].slot = 0 <=> ~Held(w)
    /\ IF Filling(w) THEN wk[w].ino \in File ELSE wk[w].ino = Free
    /\ wk[w].pc # "done" => wk[w].n <= workload.does[w].files

\* The file that was there before: nobody holds its name.
HostKept ==
  /\ \A s \in Slot : dir[s] = Host => s = 1 /\ workload.host
  /\ workload.host =>
       /\ dir[1] = Host /\ content[Host] = [by |-> Host, whole |-> TRUE]
       /\ \A w \in Worker : wk[w].slot # 1

\* What a worker has not come to yet has no fate and no name; what it is about
\* has the name it holds.
Ahead(w, n) == n > wk[w].n \/ (n = wk[w].n /\ wk[w].pc # "done")

Unfated ==
  \A w \in Worker, n \in 1..MaxFiles : Ahead(w, n) => fate[w][n].end = "none"

Named ==
  \A w \in Worker, n \in 1..MaxFiles, s \in Slot :
    dir[s] = <<w, n>> /\ Ahead(w, n) => n = wk[w].n /\ Filling(w) /\ s = wk[w].slot

\* What was given up is gone.
Gone ==
  \A w \in Worker, n \in 1..MaxFiles :
    fate[w][n].end = "gone" => \A s \in Slot : dir[s] # <<w, n>>

Rivals ==
  \A v, w \in Worker :
    v # w /\ wk[v].slot # 0 /\ wk[v].slot = wk[w].slot => Raced(v) /\ Raced(w)

Trespass ==
  \A v, w \in Worker, n \in 1..MaxFiles :
    Held(v) /\ dir[wk[v].slot] = <<w, n>> /\ <<w, n>> # Me(v) => Raced(v) /\ fate[w][n].raced

Sharing ==
  \A v, w \in Worker, n \in 1..MaxFiles :
    Filling(v) /\ wk[v].ino = <<w, n>> /\ <<w, n>> # Me(v) => Raced(v) /\ fate[w][n].raced

OwnFile ==
  \A w \in Worker :
    Filling(w) /\ ~Raced(w) =>
      /\ wk[w].ino = Me(w) /\ dir[wk[w].slot] = Me(w)
      /\ content[Me(w)] = [by |-> Me(w), whole |-> FALSE]

Kept(w, n) ==
  fate[w][n].end = "kept" /\ ~fate[w][n].raced /\ ~MayBeShort(<<w, n>>)

Stands(w, n) ==
  /\ \E s \in Slot : dir[s] = <<w, n>>
  /\ \A s \in Slot : dir[s] = <<w, n>> => \A v \in Worker : wk[v].slot # s
  /\ content[<<w, n>>] = [by |-> <<w, n>>, whole |-> TRUE]
  /\ \A v \in Worker : wk[v].ino # <<w, n>>

Settled == \A w \in Worker, n \in 1..MaxFiles : Kept(w, n) => Stands(w, n)

Files == /\ Places /\ HostKept /\ Unfated /\ Named /\ Gone
         /\ Rivals /\ Trespass /\ Sharing /\ OwnFile /\ Settled

\* Ids are handed out once; an entry that is not in the ring yet, and one whose
\* body is being sent, belong to one worker.
Numbers ==
  /\ \A i \in DOMAIN ring : ring[i].id \in 1..nextId
  /\ \A i, j \in DOMAIN ring : ring[i].id = ring[j].id => i = j
  /\ \A w \in Worker : rec[w].pc # "none" => rec[w].id \in 1..nextId
  /\ \A v, w \in Worker :
       v # w /\ rec[v].pc # "none" /\ rec[w].pc # "none" => rec[v].id # rec[w].id

Entries ==
  /\ \A w \in Worker, i \in DOMAIN ring :
       ring[i].id = rec[w].id =>
         rec[w].pc # "taken" /\ (rec[w].pc = "open" => ring[i].status = "started")
  /\ \A i \in DOMAIN ring :
       ring[i].status = "started" => \E w \in Worker : rec[w].pc = "open" /\ rec[w].id = ring[i].id

\* A download that runs has a row that is going on, and rows of one key exclude
\* each other from the moment the user is being asked.
Busy(w) == row[w] = "going" \/ wk[w].pc = "peek"

Desks ==
  /\ \A w \in Worker : task[w] = "running" => row[w] = "going"
  /\ \A v, w \in Worker :
       v # w /\ Busy(v) /\ Busy(w) => workload.does[v].key # workload.does[w].key

Log == Numbers /\ Entries

-----------------------------------------------------------------------------
(* Sequences. *)

LEMMA FirstOfFacts ==
  ASSUME NEW S, NEW s \in Seq(S), NEW n \in Nat
  PROVE  /\ FirstOf(s, n) \in Seq(S)
         /\ Len(FirstOf(s, n)) = Least(n, Len(s))
         /\ DOMAIN FirstOf(s, n) \subseteq DOMAIN s
         /\ \A i \in DOMAIN FirstOf(s, n) : FirstOf(s, n)[i] = s[i]
<1>1. /\ Len(s) \in Nat /\ DOMAIN s = 1..Len(s)
      /\ \A i \in 1..Len(s) : s[i] \in S
  BY LenProperties, ElementOfSeq
<1> DEFINE m == Least(n, Len(s))
<1>2. m \in Nat /\ m <= Len(s)
  BY <1>1 DEF Least
<1>3. FirstOf(s, n) \in [1..m -> S]
  BY <1>1, <1>2 DEF FirstOf
<1>4. FirstOf(s, n) \in Seq(S)
  BY <1>2, <1>3, SeqDef
<1>5. DOMAIN FirstOf(s, n) = 1..m
  BY DEF FirstOf
<1>6. Len(FirstOf(s, n)) = m
  BY <1>2, <1>4, <1>5, LenProperties
<1> QED
  BY <1>1, <1>2, <1>4, <1>5, <1>6 DEF FirstOf

LEMMA FinalizedFacts ==
  ASSUME ActivityTypeOK, NEW id, NEW status \in Status
  PROVE  /\ Finalized(id, status) \in Seq(Entry) /\ Len(Finalized(id, status)) = Len(ring)
         /\ DOMAIN Finalized(id, status) = DOMAIN ring
         /\ \A i \in DOMAIN ring :
              /\ Finalized(id, status)[i].id = ring[i].id
              /\ Finalized(id, status)[i].status = IF ring[i].id = id THEN status ELSE ring[i].status
<1>1. ring \in Seq(Entry)
  BY DEF ActivityTypeOK
<1>2. Len(ring) \in Nat /\ DOMAIN ring = 1..Len(ring) /\ \A i \in 1..Len(ring) : ring[i] \in Entry
  BY <1>1, LenProperties, ElementOfSeq
<1>3. Finalized(id, status) \in [1..Len(ring) -> Entry]
  BY <1>2 DEF Finalized, Entry
<1>4. Finalized(id, status) \in Seq(Entry)
  BY <1>2, <1>3, SeqDef
<1>5. Len(Finalized(id, status)) = Len(ring)
  BY <1>2, <1>3, <1>4, LenProperties
<1> QED
  BY <1>2, <1>3, <1>4, <1>5 DEF Finalized, Entry

LEMMA ReadFacts ==
  ASSUME ActivityTypeOK, NEW since \in Nat
  PROVE  ReadSince(since) \in Seq(Entry) /\ Len(ReadSince(since)) <= PageLimit
<1>1. ring \in Seq(Entry)
  BY DEF ActivityTypeOK
<1>2. Len(ring) \in Nat /\ DOMAIN ring = 1..Len(ring)
  BY <1>1, LenProperties
<1> DEFINE new == {n \in DOMAIN ring : \A i \in 1..n : ring[i].id > since}
<1>3. IsFiniteSet(new)
  <2>1. IsFiniteSet(1..Len(ring))
    BY <1>2, FS_Interval
  <2>2. new \subseteq 1..Len(ring)
    BY <1>2
  <2> QED
    BY <2>1, <2>2, FS_Subset
<1> DEFINE n == Least(Cardinality(new), PageLimit)
<1>4. n \in Nat /\ n <= PageLimit
  BY <1>3, FS_CardinalityType, ActivityAssumption DEF Least
<1>5. ReadSince(since) = FirstOf(ring, n)
  BY DEF ReadSince
<1> HIDE DEF n
<1>6. FirstOf(ring, n) \in Seq(Entry) /\ Len(FirstOf(ring, n)) = Least(n, Len(ring))
  BY <1>1, <1>4, FirstOfFacts
<1> QED
  BY <1>2, <1>4, <1>5, <1>6, ActivityAssumption DEF Least

-----------------------------------------------------------------------------
(* The log and the page. *)

LogMove ==
  \/ \E w \in Worker : \/ \E status \in {"started", "ended"} : TakeId(w, status)
                       \/ Push(w) \/ BodyEnds(w) \/ DropBody(w)
  \/ ClearRing \/ ClearRows
  \/ \E p \in Poll : PollStep(p)
  \/ UNCHANGED activityVars

LEMMA LogMoves ==
  ASSUME Next
  PROVE  LogMove
<1>1. ASSUME NEW w \in Worker,
             \/ Ask(w) \/ NotStarted(w) \/ StartTask(w) \/ Cancel(w) \/ PollTask(w)
             \/ UploadStarts(w) \/ Listed(w) \/ Quits(w) \/ PickName(w) \/ NoName(w)
             \/ CreateFile(w) \/ CreateFails(w)
      PROVE  UNCHANGED activityVars
  BY <1>1 DEF Ask, NotStarted, StartTask, Cancel, PollTask, UploadStarts, Listed, Quits, PickName,
     NoName, CreateFile, CreateFails
<1>2. ASSUME NEW w \in Worker, Chunk(w) \/ WriteFails(w) \/ Vanish(w) \/ FlushFails(w) \/ HandlerDropped(w)
      PROVE  UNCHANGED activityVars
  BY <1>2 DEF Chunk, Write, WriteFails, GiveUp, Vanish, FlushFails, HandlerDropped
<1>3. ASSUME NEW w \in Worker, NEW cut, Keep(w, cut)
      PROVE  TakeId(w, "ended") \/ UNCHANGED activityVars
  BY <1>3 DEF Keep
<1>4. ASSUME NEW w \in Worker, StreamEnds(w) \/ StreamBreaks(w) \/ ArchiveCut(w)
      PROVE  TakeId(w, "ended") \/ UNCHANGED activityVars
  BY <1>3, <1>4 DEF StreamEnds, StreamBreaks, ArchiveCut, GiveUp
<1>5. ASSUME NEW w \in Worker, SkipField(w) \/ Respond(w) \/ LogStep(w)
      PROVE  LogMove
  BY <1>5 DEF SkipField, Respond, LogStep, LogMove
<1>6. PageStep => LogMove
  BY DEF PageStep, LogMove
<1>7. Over => UNCHANGED activityVars
  BY DEF Over, vars
<1> QED
  BY <1>1, <1>2, <1>4, <1>5, <1>6, <1>7 DEF Next, Moves, LogMove

\* A new first entry pushes the others back and at most the last one out.
LEMMA Pushed ==
  ASSUME ActivityTypeOK, Numbers, NEW w \in Worker, Push(w)
  PROVE  /\ ring' \in Seq(Entry) /\ Len(ring') <= RingCap
         /\ 1 \in DOMAIN ring' /\ ring'[1] = [id |-> rec[w].id, status |-> rec[w].status]
         /\ \A i \in DOMAIN ring' : i = 1 \/ \E k \in DOMAIN ring : i = k + 1 /\ ring'[i] = ring[k]
         /\ DOMAIN ring' \subseteq Nat
<1> DEFINE e == [id |-> rec[w].id, status |-> rec[w].status]
<1>e. e \in Entry /\ ring \in Seq(Entry)
  BY DEF Push, Entry, Rec, Numbers, ActivityTypeOK
<1> DEFINE c == <<e>> \o ring
<1>0. ring' = FirstOf(c, RingCap)
  BY DEF Push
<1> HIDE DEF e
<1>1. <<e>> \in Seq(Entry) /\ Len(<<e>>) = 1 /\ <<e>>[1] = e
  BY <1>e
<1>2. Len(ring) \in Nat /\ DOMAIN ring = 1..Len(ring)
  BY <1>e, LenProperties
<1>3. /\ c \in Seq(Entry) /\ Len(c) = 1 + Len(ring)
      /\ \A i \in 1..(1 + Len(ring)) : c[i] = IF i <= 1 THEN <<e>>[i] ELSE ring[i - 1]
  BY <1>e, <1>1, <1>2, ConcatProperties
<1>4. DOMAIN c = 1..(1 + Len(ring))
  BY <1>3, LenProperties
<1> HIDE DEF c
<1>5. /\ ring' \in Seq(Entry) /\ Len(ring') = Least(RingCap, Len(c))
      /\ DOMAIN ring' \subseteq DOMAIN c /\ \A i \in DOMAIN ring' : ring'[i] = c[i]
  <2>1. c \in Seq(Entry) /\ RingCap \in Nat
    BY <1>3, ActivityAssumption
  <2>2. LET u == FirstOf(c, RingCap)
        IN  /\ u \in Seq(Entry) /\ Len(u) = Least(RingCap, Len(c))
            /\ DOMAIN u \subseteq DOMAIN c /\ \A i \in DOMAIN u : u[i] = c[i]
    BY <2>1, FirstOfFacts
  <2> QED
    BY <1>0, <2>2
<1>6. DOMAIN ring' = 1..Len(ring')
  BY <1>5, LenProperties
<1>7. Len(ring') \in Nat /\ 1 <= Len(ring') /\ Len(ring') <= RingCap
  BY <1>2, <1>3, <1>5, ActivityAssumption DEF Least
<1>8. ASSUME NEW i \in DOMAIN ring', i # 1
      PROVE  i - 1 \in DOMAIN ring /\ ring'[i] = ring[i - 1]
  <2>1. i \in 1..(1 + Len(ring)) /\ ring'[i] = c[i]
    BY <1>4, <1>5, <1>8
  <2>2. i - 1 \in 1..Len(ring)
    BY <1>2, <1>8, <2>1
  <2> QED
    BY <1>2, <1>3, <2>1, <2>2
<1>9. 1 \in DOMAIN ring' /\ ring'[1] = e
  BY <1>1, <1>2, <1>3, <1>4, <1>5, <1>6, <1>7
<1> QED
  <2>1. \A i \in DOMAIN ring' : i = 1 \/ \E k \in DOMAIN ring : i = k + 1 /\ ring'[i] = ring[k]
    BY <1>2, <1>6, <1>7, <1>8
  <2> QED
    BY <1>5, <1>6, <1>7, <1>9, <2>1 DEF e

\* The types of what is logged and of what the page holds.
LEMMA LogTypes ==
  ASSUME ActivityTypeOK, Numbers, LogMove
  PROVE  ActivityTypeOK'
<1>0. USE DEF ActivityTypeOK, log, page, activityVars
<1>e. <<>> \in Seq(Entry) /\ Len(<<>>) <= PageLimit /\ Len(<<>>) <= RingCap
  BY EmptySeq, ActivityAssumption
<1>1. ASSUME NEW w \in Worker, NEW status \in {"started", "ended"}, TakeId(w, status)
      PROVE  ActivityTypeOK'
  BY <1>1 DEF TakeId, Rec, Status
<1>2. ASSUME NEW w \in Worker, Push(w)
      PROVE  ActivityTypeOK'
  <2>2. ring' \in Seq(Entry) /\ Len(ring') <= RingCap
    BY <1>2, Pushed
  <2>3. rec' \in [Worker -> Rec]
    BY <1>2 DEF Push, Rec, NoRec, Status
  <2> QED
    BY <1>2, <2>2, <2>3 DEF Push
<1>3. ASSUME NEW w \in Worker, BodyEnds(w) \/ DropBody(w)
      PROVE  ActivityTypeOK'
  <2>1. ring' \in Seq(Entry) /\ Len(ring') <= RingCap
    BY <1>3, FinalizedFacts DEF BodyEnds, DropBody, Status
  <2>2. rec' \in [Worker -> Rec]
    <3>1. BodyEnds(w) => rec' \in [Worker -> Rec]
      BY DEF BodyEnds, Rec
    <3>2. DropBody(w) => rec' \in [Worker -> Rec]
      BY DEF DropBody, Rec, NoRec, Status
    <3> QED
      BY <1>3, <3>1, <3>2
  <2> QED
    BY <1>3, <2>1, <2>2 DEF BodyEnds, DropBody
<1>4. ASSUME NEW p \in Poll, PollStep(p)
      PROVE  ActivityTypeOK'
  <2>1. CASE StartPoll(p)
    BY <2>1, <1>e DEF StartPoll, NoPoll
  <2>2. CASE AnswerPoll(p)
    BY <2>2, ReadFacts DEF AnswerPoll
  <2>3. CASE Refetch(p)
    BY <2>3, <1>e DEF Refetch, NoPoll
  <2>4. CASE PrependRows(p)
    <3> DEFINE got == poll[p].got
    <3>1. got \in Seq(Entry) /\ Len(got) \in Nat /\ got # <<>>
      BY <2>4, LenProperties DEF PrependRows
    <3>2. got[1] \in Entry
      BY <3>1, EmptySeq, ElementOfSeq
    <3>3. got \o rows \in Seq(Entry)
      BY <3>1, ConcatProperties
    <3>4. rows' \in Seq(Entry) /\ Len(rows') = Least(RingCap, Len(got \o rows))
      BY <2>4, <3>3, FirstOfFacts, ActivityAssumption DEF PrependRows
    <3>5. Len(got \o rows) \in Nat
      BY <3>3, LenProperties
    <3>6. Len(rows') <= RingCap
      BY <3>4, <3>5, ActivityAssumption DEF Least
    <3>7. lastId' \in Nat
      BY <2>4, <3>2 DEF PrependRows, Most, Entry
    <3>8. poll' = [poll EXCEPT ![p] = NoPoll]
      BY <2>4 DEF PrependRows
    <3>9. /\ poll' \in [Poll -> [pc : {"idle", "asked", "answered"}, since : Nat, all : BOOLEAN,
                                 got : Seq(Entry)]]
          /\ \A q \in Poll : Len(poll'[q].got) <= PageLimit
      BY <3>8, <1>e DEF NoPoll
    <3> QED
      BY <2>4, <3>4, <3>6, <3>7, <3>9 DEF PrependRows
  <2>5. CASE ReplaceRows(p)
    <3> DEFINE got == poll[p].got
    <3>1. got \in Seq(Entry) /\ Len(got) \in Nat /\ Len(got) <= RingCap
      BY <2>5, LenProperties, ActivityAssumption DEF ReplaceRows
    <3>2. got # <<>> => got[1] \in Entry
      BY <3>1, EmptySeq, ElementOfSeq
    <3>3. rows' \in Seq(Entry) /\ Len(rows') <= RingCap /\ lastId' \in Nat
      BY <2>5, <3>1, <3>2 DEF ReplaceRows, Entry
    <3>4. poll' = [poll EXCEPT ![p] = NoPoll]
      BY <2>5 DEF ReplaceRows
    <3>5. /\ poll' \in [Poll -> [pc : {"idle", "asked", "answered"}, since : Nat, all : BOOLEAN,
                                 got : Seq(Entry)]]
          /\ \A q \in Poll : Len(poll'[q].got) <= PageLimit
      BY <3>4, <1>e DEF NoPoll
    <3> QED
      BY <2>5, <3>3, <3>5 DEF ReplaceRows
  <2> QED
    BY <1>4, <2>1, <2>2, <2>3, <2>4, <2>5 DEF PollStep
<1>5. ClearRing => ActivityTypeOK'
  BY <1>e, ActivityAssumption DEF ClearRing
<1>7. ASSUME ClearRows
      PROVE  ActivityTypeOK'
  <2>1. rows' = <<>> /\ lastId' = 0 /\ clearing' = FALSE
    BY <1>7 DEF ClearRows
  <2>2. /\ nextId' = nextId /\ ring' = ring /\ rec' = rec
        /\ tab' = tab /\ poll' = poll /\ clears' = clears
    BY <1>7 DEF ClearRows
  <2>3. rows' \in Seq(Entry) /\ Len(rows') <= RingCap /\ lastId' \in Nat
    BY <2>1, <1>e
  <2> QED
    BY <2>1, <2>2, <2>3
<1>6. UNCHANGED activityVars => ActivityTypeOK'
  OBVIOUS
<1> QED
  BY <1>1, <1>2, <1>3, <1>4, <1>5, <1>6, <1>7 DEF LogMove

LEMMA Closed ==
  ASSUME ActivityTypeOK, NEW w \in Worker, BodyEnds(w) \/ DropBody(w)
  PROVE  /\ DOMAIN ring' = DOMAIN ring /\ nextId' = nextId
         /\ \A i \in DOMAIN ring :
              /\ ring'[i].id = ring[i].id
              /\ rec[w].pc = "open" =>
                   ring'[i].status # "started" \/ (ring[i].id # rec[w].id /\ ring'[i] = ring[i])
              /\ rec[w].pc # "open" => ring'[i] = ring[i]
              /\ ring[i].id # rec[w].id => ring'[i].status = ring[i].status
<1>1. BodyEnds(w) => nextId' = nextId /\ rec[w].pc = "open" /\ ring' = Finalized(rec[w].id, "ended")
  BY DEF BodyEnds
<1>2. DropBody(w) =>
        /\ nextId' = nextId
        /\ ring' = IF rec[w].pc = "open" THEN Finalized(rec[w].id, "aborted") ELSE ring
  BY DEF DropBody
<1>3. \A status \in {"ended", "aborted"}, i \in DOMAIN ring :
        ring[i].id # rec[w].id => Finalized(rec[w].id, status)[i] = ring[i]
  BY DEF Finalized
<1> QED
  BY <1>1, <1>2, <1>3, FinalizedFacts DEF Status

\* Of one entry there is one, and of one worker.
LEMMA LogKept ==
  ASSUME ActivityTypeOK, Log, LogMove
  PROVE  Log'
<1> USE DEF Log
<1>0. /\ ring \in Seq(Entry) /\ DOMAIN ring \subseteq Nat /\ nextId \in Nat
      /\ rec \in [Worker -> Rec]
  BY LenProperties DEF ActivityTypeOK
<1>1. ASSUME NEW w \in Worker, NEW status \in {"started", "ended"}, TakeId(w, status)
      PROVE  Log'
  <2>1. Numbers'
    BY <1>0, <1>1 DEF TakeId, Numbers, Rec
  <2>2. Entries'
    BY <1>0, <1>1 DEF TakeId, Numbers, Entries, Rec
  <2> QED
    BY <2>1, <2>2
<1>2. ASSUME NEW w \in Worker, Push(w)
      PROVE  Log'
  <2> DEFINE e == [id |-> rec[w].id, status |-> rec[w].status]
  <2>2. /\ 1 \in DOMAIN ring' /\ ring'[1] = e /\ DOMAIN ring' \subseteq Nat
        /\ \A i \in DOMAIN ring' : i = 1 \/ \E k \in DOMAIN ring : i = k + 1 /\ ring'[i] = ring[k]
    BY <1>2, Pushed
  <2>3. /\ rec[w].pc = "taken" /\ nextId' = nextId
        /\ rec' = [rec EXCEPT ![w] = IF rec[w].status = "started" THEN [@ EXCEPT !.pc = "open"]
                                     ELSE NoRec]
    BY <1>2 DEF Push
  <2>4. \A i \in DOMAIN ring : ring[i].id # rec[w].id
    BY <2>3 DEF Entries
  <2>5. \A i \in DOMAIN ring' : ring'[i].id = rec[w].id <=> i = 1
    BY <2>2, <2>4
  <2>6. \A v \in Worker \ {w} : rec'[v] = rec[v]
    BY <1>0, <2>3
  <2>7. /\ rec[w].status = "started" => rec'[w].pc = "open" /\ rec'[w].id = rec[w].id
        /\ rec[w].status # "started" => rec'[w].pc = "none" /\ rec'[w].id = 0
    BY <1>0, <2>3 DEF NoRec, Rec
  <2>8. Numbers'
    <3>1. \A i \in DOMAIN ring' : ring'[i].id \in 1..nextId'
      BY <2>2, <2>3 DEF Numbers
    <3>2. \A i, j \in DOMAIN ring' : ring'[i].id = ring'[j].id => i = j
      BY <2>2, <2>5 DEF Numbers
    <3> QED
      BY <2>3, <2>6, <2>7, <3>1, <3>2 DEF Numbers
  <2>9. Entries'
    <3>1. ASSUME NEW v \in Worker, NEW i \in DOMAIN ring', ring'[i].id = rec'[v].id
          PROVE  rec'[v].pc # "taken" /\ (rec'[v].pc = "open" => ring'[i].status = "started")
      <4>1. CASE v = w
        BY <2>2, <2>3, <2>5, <2>7, <3>1, <4>1
      <4>2. CASE v # w
        <5>1. ring'[i].id = rec[v].id
          BY <2>6, <3>1, <4>2
        <5>2. CASE i = 1
          <6>1. rec[v].pc = "none"
            BY <2>2, <2>3, <4>2, <5>1, <5>2 DEF Numbers
          <6> QED
            BY <2>6, <4>2, <6>1
        <5>3. CASE i # 1
          BY <2>2, <2>6, <4>2, <5>1, <5>3 DEF Entries
        <5> QED
          BY <5>2, <5>3
      <4> QED
        BY <4>1, <4>2
    <3>2. ASSUME NEW i \in DOMAIN ring', ring'[i].status = "started"
          PROVE  \E v \in Worker : rec'[v].pc = "open" /\ rec'[v].id = ring'[i].id
      <4>1. CASE i = 1
        BY <2>2, <2>7, <3>2, <4>1
      <4>2. CASE i # 1
        <5>1. PICK k \in DOMAIN ring : i = k + 1 /\ ring'[i] = ring[k]
          BY <2>2, <4>2
        <5>2. PICK v \in Worker : rec[v].pc = "open" /\ rec[v].id = ring[k].id
          BY <3>2, <5>1 DEF Entries
        <5> QED
          BY <2>3, <2>6, <5>1, <5>2
      <4> QED
        BY <4>1, <4>2
    <3> QED
      BY <3>1, <3>2 DEF Entries
  <2> QED
    BY <2>8, <2>9
<1>3. ASSUME NEW w \in Worker, BodyEnds(w) \/ DropBody(w)
      PROVE  Log'
  <2>1. /\ DOMAIN ring' = DOMAIN ring /\ nextId' = nextId
        /\ \A i \in DOMAIN ring :
             /\ ring'[i].id = ring[i].id
             /\ rec[w].pc = "open" =>
                  ring'[i].status # "started" \/ (ring[i].id # rec[w].id /\ ring'[i] = ring[i])
             /\ rec[w].pc # "open" => ring'[i] = ring[i]
             /\ ring[i].id # rec[w].id => ring'[i].status = ring[i].status
    BY <1>3, Closed
  <2>2. /\ rec'[w].pc \in {"none", "ended"} /\ rec[w].pc \in {"open", "ended"}
        /\ rec'[w].id = IF rec'[w].pc = "none" THEN 0 ELSE rec[w].id
        /\ \A v \in Worker \ {w} : rec'[v] = rec[v]
    BY <1>0, <1>3 DEF BodyEnds, DropBody, NoRec, Rec
  <2>3. Numbers'
    BY <2>1, <2>2 DEF Numbers
  <2>4. Entries'
    <3>1. ASSUME NEW v \in Worker, NEW i \in DOMAIN ring', ring'[i].id = rec'[v].id
          PROVE  rec'[v].pc # "taken" /\ (rec'[v].pc = "open" => ring'[i].status = "started")
      <4>1. CASE v = w
        BY <2>2, <4>1
      <4>2. CASE v # w
        <5>1. rec'[v] = rec[v] /\ i \in DOMAIN ring /\ ring[i].id = rec[v].id
          BY <2>1, <2>2, <3>1, <4>2
        <5>2. CASE rec[v].pc = "none"
          BY <5>1, <5>2
        <5>3. CASE rec[v].pc # "none"
          <6>1. ring[i].id # rec[w].id
            BY <2>2, <4>2, <5>1, <5>3 DEF Numbers
          <6> QED
            BY <2>1, <5>1, <6>1 DEF Entries
        <5> QED
          BY <5>2, <5>3
      <4> QED
        BY <4>1, <4>2
    <3>2. ASSUME NEW i \in DOMAIN ring', ring'[i].status = "started"
          PROVE  \E v \in Worker : rec'[v].pc = "open" /\ rec'[v].id = ring'[i].id
      <4>1. ring[i].status = "started" /\ i \in DOMAIN ring /\ ring'[i].id = ring[i].id
        BY <2>1, <3>2
      <4>2. PICK v \in Worker : rec[v].pc = "open" /\ rec[v].id = ring[i].id
        BY <4>1 DEF Entries
      <4>3. v # w
        BY <2>1, <3>2, <4>1, <4>2
      <4> QED
        BY <2>2, <4>1, <4>2, <4>3
    <3> QED
      BY <3>1, <3>2 DEF Entries
  <2> QED
    BY <2>3, <2>4
<1>4. ClearRing => Log'
  BY DEF ClearRing, Numbers, Entries
<1>5. ASSUME UNCHANGED log
      PROVE  Log'
  BY <1>5 DEF log, Numbers, Entries
<1>6. ClearRows \/ (\E p \in Poll : PollStep(p)) \/ UNCHANGED activityVars => UNCHANGED log
  BY DEF ClearRows, PollStep, StartPoll, AnswerPoll, Refetch, PrependRows, ReplaceRows, activityVars
<1> QED
  BY <1>1, <1>2, <1>3, <1>4, <1>5, <1>6 DEF LogMove

\* What FinalStatusStays says of one step.
LEMMA FinalKept ==
  ASSUME ActivityTypeOK, Log, LogMove
  PROVE  \A i \in DOMAIN ring, j \in DOMAIN ring' :
           ring[i].id = ring'[j].id /\ ring[i].status # "started"
             => ring'[j].status = ring[i].status
<1> SUFFICES ASSUME NEW i \in DOMAIN ring, NEW j \in DOMAIN ring',
                    ring[i].id = ring'[j].id, ring[i].status # "started"
             PROVE  ring'[j].status = ring[i].status
  OBVIOUS
<1>1. ASSUME ring' = ring
      PROVE  ring'[j].status = ring[i].status
  BY <1>1 DEF Log, Numbers
<1>2. ASSUME NEW w \in Worker, Push(w)
      PROVE  ring'[j].status = ring[i].status
  <2>1. rec[w].pc = "taken"
    BY <1>2 DEF Push
  <2>4. ring'[1] = [id |-> rec[w].id, status |-> rec[w].status]
    BY <1>2, Pushed DEF Log
  <2>5. ring[i].id # rec[w].id
    BY <2>1 DEF Log, Entries
  <2>2. j # 1
    BY <2>4, <2>5
  <2>3. PICK k \in DOMAIN ring : ring'[j] = ring[k]
    BY <1>2, <2>2, Pushed DEF Log
  <2> QED
    BY <2>3 DEF Log, Numbers
<1>3. ASSUME NEW w \in Worker, BodyEnds(w) \/ DropBody(w)
      PROVE  ring'[j].status = ring[i].status
  <2>1. i = j
    BY <1>3, Closed DEF Log, Numbers
  <2>2. rec[w].pc = "open" => ring[i].id # rec[w].id
    BY DEF Log, Entries
  <2> QED
    BY <1>3, <2>1, <2>2, Closed
<1>4. CASE ClearRing
  BY <1>4 DEF ClearRing
<1>5. \/ \E w \in Worker, status \in {"started", "ended"} : TakeId(w, status)
      \/ ClearRows \/ (\E p \in Poll : PollStep(p)) \/ UNCHANGED activityVars
      => ring' = ring
  BY DEF TakeId, ClearRows, PollStep, StartPoll, AnswerPoll, Refetch, PrependRows, ReplaceRows,
     activityVars, log
<1> QED
  BY <1>1, <1>2, <1>3, <1>4, <1>5 DEF LogMove

-----------------------------------------------------------------------------
(* The files: what a step may do, one kind of step after another. *)

Shapes ==
  /\ workload \in Workload
  /\ dir \in [Slot -> File \cup {Host, Free}]
  /\ content \in [File \cup {Host} -> [by : File \cup {Host, Mixed}, whole : BOOLEAN]]
  /\ wk \in [Worker -> [pc : Pc, n : 1..MaxFiles, slot : 0..MaxVariant, ino : File \cup {Host, Free}]]
  /\ fate \in [Worker -> [1..MaxFiles ->
        [end : {"none", "kept", "gone", "left"}, raced : BOOLEAN, cut : BOOLEAN]]]

Alone(w) == \A v \in Worker \ {w} : wk'[v] = wk[v]

\* A worker goes on without a file, or leaves the one it has.
Walk(w) ==
  /\ wk[w].pc # "done"
  /\ Alone(w)
  /\ wk'[w].slot = 0 /\ wk'[w].ino = Free
  /\ wk'[w].pc \in {"idle", "peek", "list", "next", "done"}
  /\ \/ wk'[w].n = wk[w].n /\ (wk'[w].pc = "done" \/ ~Held(w))
     \/ wk'[w].n = wk[w].n + 1
  /\ wk'[w].pc # "done" => wk'[w].n <= workload.does[w].files

LEMMA WalkFacts ==
  ASSUME Shapes, Places, NEW w \in Worker, Walk(w), workload' = workload
  PROVE  /\ Places' /\ ~Held(w)'
         /\ \A v \in Worker, n \in 1..MaxFiles :
              Ahead(v, n)' => Ahead(v, n) /\ (v = w /\ Held(w) => n # wk[w].n)
<1>1. \A v \in Worker : wk[v].n \in Nat
  BY DEF Shapes
<1>2. Places'
  BY DEF Places, Walk, Alone, Held, Filling
<1>3. ~Held(w)'
  BY DEF Walk, Held
<1>4. ASSUME NEW v \in Worker, NEW n \in 1..MaxFiles, Ahead(v, n)'
      PROVE  Ahead(v, n) /\ (v = w /\ Held(w) => n # wk[w].n)
  <2>1. CASE v = w
    BY <1>1, <1>4, <2>1 DEF Ahead, Walk, Held
  <2>2. CASE v # w
    BY <1>4, <2>2 DEF Ahead, Walk, Alone
  <2> QED
    BY <2>1, <2>2
<1> QED
  BY <1>2, <1>3, <1>4

LEMMA WalkKeeps ==
  ASSUME Shapes, Files, NEW w \in Worker, Walk(w),
         workload' = workload, dir' = dir, content' = content, fate' = fate
  PROVE  Files'
<1>0. USE DEF Files
<1>1. Places' /\ ~Held(w)'
  BY WalkFacts
<1>2. \A v \in Worker, n \in 1..MaxFiles :
        Ahead(v, n)' => Ahead(v, n) /\ (v = w /\ Held(w) => n # wk[w].n)
  BY WalkFacts
<1>3. /\ wk'[w].slot = 0 /\ wk'[w].ino = Free
      /\ \A v \in Worker \ {w} : wk'[v] = wk[v]
  BY DEF Walk, Alone
<1>4. 0 \notin Slot /\ Free \notin File
  BY TransfersAssumption DEF Slot
<1>5. HostKept'
  BY <1>3 DEF HostKept
<1>6. Unfated'
  BY <1>2 DEF Unfated
<1>7. Named'
  <2> SUFFICES ASSUME NEW v \in Worker, NEW n \in 1..MaxFiles, NEW s \in Slot,
                      dir[s] = <<v, n>>, Ahead(v, n)'
               PROVE  n = wk'[v].n /\ Filling(v)' /\ s = wk'[v].slot
    BY DEF Named
  <2>1. n = wk[v].n /\ Filling(v) /\ s = wk[v].slot
    BY <1>2 DEF Named
  <2>2. v # w
    BY <1>2, <2>1 DEF Filling, Held
  <2> QED
    BY <1>3, <2>1, <2>2 DEF Filling
<1>8. Gone'
  BY DEF Gone
<1>9. Rivals'
  BY <1>3 DEF Rivals, Raced
<1>10. Trespass'
  BY <1>1, <1>3 DEF Trespass, Held, Raced, Me
<1>11. Sharing'
  BY <1>1, <1>3 DEF Sharing, Held, Filling, Raced, Me
<1>12. OwnFile'
  BY <1>1, <1>3 DEF OwnFile, Held, Filling, Raced, Me
<1>13. Settled'
  <2> SUFFICES ASSUME NEW v \in Worker, NEW n \in 1..MaxFiles, Kept(v, n)
               PROVE  Stands(v, n)'
    BY DEF Settled, Kept, MayBeShort, Kd
  <2>1. \A u \in Worker : wk'[u].slot \in {0, wk[u].slot} /\ wk'[u].ino \in {Free, wk[u].ino}
    BY <1>3
  <2>2. <<v, n>> # Free
    BY <1>4 DEF File
  <2> QED
    BY <1>4, <2>1, <2>2 DEF Settled, Stands
<1> QED
  BY <1>1, <1>5, <1>6, <1>7, <1>8, <1>9, <1>10, <1>11, <1>12, <1>13

\* A worker finds a name free.  Those that hold it already are marked.
Pick(w) ==
  /\ wk[w].pc = "next" /\ Alone(w)
  /\ wk'[w].pc = "picked" /\ wk'[w].n = wk[w].n /\ wk'[w].ino = Free
  /\ wk'[w].slot \in Slot /\ dir[wk'[w].slot] = Free
  /\ \A v \in Worker, n \in 1..MaxFiles :
       /\ fate'[v][n].end = fate[v][n].end /\ fate'[v][n].cut = fate[v][n].cut
       /\ fate[v][n].raced => fate'[v][n].raced
  /\ \A v \in Worker \ {w} :
       wk[v].slot = wk'[w].slot => fate'[v][wk[v].n].raced /\ fate'[w][wk[w].n].raced

LEMMA PickKeeps ==
  ASSUME Shapes, Files, NEW w \in Worker, Pick(w),
         workload' = workload, dir' = dir, content' = content
  PROVE  Files'
<1>0. USE DEF Files
<1>1. /\ \A v \in Worker : wk'[v].n = wk[v].n /\ wk'[v].ino = wk[v].ino /\ wk[v].n \in 1..MaxFiles
      /\ \A v \in Worker \ {w} : wk'[v] = wk[v]
      /\ \A v \in Worker : Filling(v)' <=> Filling(v)
      /\ ~Filling(w) /\ ~Held(w)
      /\ \A v \in Worker, n \in 1..MaxFiles : Ahead(v, n)' <=> Ahead(v, n)
  <2>1. \A v \in Worker \ {w} : wk'[v] = wk[v]
    BY DEF Pick, Alone
  <2>2. wk[w].pc = "next" /\ wk'[w].pc = "picked" /\ wk'[w].n = wk[w].n /\ wk'[w].ino = Free
    BY DEF Pick
  <2>3. ~Filling(w) /\ ~Held(w) /\ ~Filling(w)'
    BY <2>2 DEF Filling, Held
  <2>4. wk[w].ino = Free
    BY <2>3 DEF Places
  <2>5. \A v \in Worker : wk[v].n \in 1..MaxFiles
    BY DEF Shapes
  <2>6. \A v \in Worker : Filling(v)' <=> Filling(v)
    BY <2>1, <2>3 DEF Filling
  <2>7. \A v \in Worker, n \in 1..MaxFiles : Ahead(v, n)' <=> Ahead(v, n)
    BY <2>1, <2>2 DEF Ahead
  <2>8. \A v \in Worker : wk'[v].n = wk[v].n /\ wk'[v].ino = wk[v].ino
    BY <2>1, <2>2, <2>4
  <2> QED
    BY <2>1, <2>3, <2>5, <2>6, <2>7, <2>8
<1>2. PICK s \in Slot : s = wk'[w].slot /\ dir[s] = Free
  BY DEF Pick
<1>3. 0 \notin Slot /\ Free \notin File /\ Free # Host
  BY TransfersAssumption DEF Slot
<1>4. \A v \in Worker : Raced(v) => Raced(v)'
  BY <1>1 DEF Raced, Pick
<1>5. Places'
  BY <1>1, <1>2, <1>3 DEF Places, Pick, Held, Filling
<1>6. HostKept'
  BY <1>1, <1>2, <1>3 DEF HostKept
<1>7. Unfated' /\ Gone'
  BY <1>1 DEF Unfated, Gone, Pick
<1>8. Named'
  <2> SUFFICES ASSUME NEW v \in Worker, NEW n \in 1..MaxFiles, NEW t \in Slot,
                      dir[t] = <<v, n>>, Ahead(v, n)
               PROVE  n = wk'[v].n /\ Filling(v)' /\ t = wk'[v].slot
    BY <1>1 DEF Named
  <2>1. n = wk[v].n /\ Filling(v) /\ t = wk[v].slot
    BY DEF Named
  <2> QED
    BY <1>1, <2>1
<1>9. Rivals'
  <2> SUFFICES ASSUME NEW u \in Worker, NEW v \in Worker, u # v,
                      wk'[u].slot # 0, wk'[u].slot = wk'[v].slot
               PROVE  Raced(u)' /\ Raced(v)'
    BY DEF Rivals
  <2>1. CASE u # w /\ v # w
    BY <1>1, <1>4, <2>1 DEF Rivals
  <2>2. CASE u = w
    BY <1>1, <2>2 DEF Pick, Raced
  <2>3. CASE v = w
    BY <1>1, <2>3 DEF Pick, Raced
  <2> QED
    BY <2>1, <2>2, <2>3
<1>10. Trespass'
  <2> SUFFICES ASSUME NEW u \in Worker, NEW v \in Worker, NEW n \in 1..MaxFiles,
                      Held(u)', dir[wk'[u].slot] = <<v, n>>, <<v, n>> # Me(u)
               PROVE  Raced(u)' /\ fate'[v][n].raced
    BY <1>1 DEF Trespass, Me
  <2>1. u # w
    BY <1>2, <1>3 DEF File
  <2>2. Raced(u) /\ fate[v][n].raced
    BY <1>1, <2>1 DEF Trespass, Held
  <2> QED
    BY <1>4, <2>2 DEF Pick
<1>11. Sharing'
  <2> SUFFICES ASSUME NEW u \in Worker, NEW v \in Worker, NEW n \in 1..MaxFiles,
                      Filling(u), wk[u].ino = <<v, n>>, <<v, n>> # Me(u)
               PROVE  Raced(u)' /\ fate'[v][n].raced
    BY <1>1 DEF Sharing, Me
  <2>1. Raced(u) /\ fate[v][n].raced
    BY DEF Sharing
  <2> QED
    BY <1>4, <2>1 DEF Pick
<1>12. OwnFile'
  BY <1>1, <1>4 DEF OwnFile, Me
<1>13. Settled'
  <2> SUFFICES ASSUME NEW v \in Worker, NEW n \in 1..MaxFiles, Kept(v, n)'
               PROVE  Stands(v, n)'
    BY DEF Settled
  <2>1. Kept(v, n)
    BY DEF Kept, MayBeShort, Kd, Pick
  <2>2. dir[s] # <<v, n>>
    BY <1>2, <1>3 DEF File
  <2> QED
    BY <1>1, <1>2, <2>1, <2>2 DEF Settled, Stands
<1> QED
  BY <1>5, <1>6, <1>7, <1>8, <1>9, <1>10, <1>11, <1>12, <1>13

\* A worker creates its file, or empties the one that has the name.
Create(w) ==
  LET s == wk[w].slot
      f == wk'[w].ino
  IN  /\ wk[w].pc = "picked" /\ Alone(w)
      /\ wk'[w].pc = "open" /\ wk'[w].n = wk[w].n /\ wk'[w].slot = s
      /\ f = IF dir[s] = Free THEN Me(w) ELSE dir[s]
      /\ dir' = [dir EXCEPT ![s] = f]
      /\ content' = [content EXCEPT ![f] = [by |-> Me(w), whole |-> FALSE]]

LEMMA CreateKeeps ==
  ASSUME Shapes, Files, NEW w \in Worker, Create(w), workload' = workload, fate' = fate
  PROVE  Files'
<1>0. /\ Places /\ HostKept /\ Unfated /\ Named /\ Gone
      /\ Rivals /\ Trespass /\ Sharing /\ OwnFile /\ Settled
  BY DEF Files
<1> DEFINE s == wk[w].slot
           f == wk'[w].ino
<1>1. /\ \A v \in Worker \ {w} : wk'[v] = wk[v]
      /\ wk[w].pc = "picked" /\ wk'[w].pc = "open" /\ wk'[w].n = wk[w].n /\ wk'[w].slot = s
      /\ f = IF dir[s] = Free THEN Me(w) ELSE dir[s]
      /\ dir' = [dir EXCEPT ![s] = f]
      /\ content' = [content EXCEPT ![f] = [by |-> Me(w), whole |-> FALSE]]
  BY DEF Create, Alone
<1>2. Held(w) /\ ~Filling(w) /\ Held(w)' /\ Filling(w)'
  BY <1>1 DEF Held, Filling
<1>3. s \in Slot /\ s # 0
  BY <1>0, <1>2 DEF Places, Shapes, Slot
<1>4. /\ \A v \in Worker : wk'[v].n = wk[v].n /\ wk'[v].slot = wk[v].slot /\ wk[v].n \in 1..MaxFiles
      /\ \A v \in Worker : Me(v)' = Me(v) /\ Me(v) \in File
  BY <1>1 DEF Shapes, Me, File
<1>5. \A v \in Worker : (Held(v)' <=> Held(v)) /\ (v # w => (Filling(v)' <=> Filling(v)))
  BY <1>1, <1>2 DEF Held, Filling
<1>6. \A v \in Worker, n \in 1..MaxFiles : Ahead(v, n)' <=> Ahead(v, n)
  BY <1>1 DEF Ahead
<1>7. f \in File /\ f # Host
  <2>1. dir[s] # Host
    BY <1>0, <1>3 DEF HostKept
  <2>2. dir[s] \in File \cup {Host, Free}
    BY <1>3 DEF Shapes
  <2> QED
    BY <1>1, <1>4, <2>1, <2>2, TransfersAssumption
<1>8. /\ dir'[s] = f /\ \A t \in Slot : t # s => dir'[t] = dir[t]
      /\ content'[f] = [by |-> Me(w), whole |-> FALSE]
      /\ \A g \in File \cup {Host} : g # f => content'[g] = content[g]
  BY <1>1, <1>3, <1>7 DEF Shapes
<1>9. \A v \in Worker : Raced(v)' <=> Raced(v)
  BY <1>4 DEF Raced
\* The file is not its own only if both are marked.
<1>10. ASSUME NEW v \in Worker, NEW n \in 1..MaxFiles, f = <<v, n>>, f # Me(w)
       PROVE  dir[s] = <<v, n>> /\ Raced(w) /\ fate[v][n].raced
  BY <1>0, <1>1, <1>2, <1>10 DEF Trespass
<1>11. ASSUME NEW v \in Worker, v # w, wk[v].slot = s
       PROVE  Raced(v) /\ Raced(w)
  BY <1>0, <1>3, <1>11 DEF Rivals
<1> HIDE DEF s, f
<1>12. Places'
  BY <1>0, <1>1, <1>2, <1>4, <1>5, <1>7 DEF Places, f
<1>13. HostKept'
  <2>1. ASSUME workload.host
        PROVE  s # 1
    BY <1>0, <2>1 DEF HostKept, s
  <2>2. 1 \in Slot
    BY TransfersAssumption DEF Slot
  <2>3. \A t \in Slot : dir'[t] = Host => dir[t] = Host
    BY <1>7, <1>8
  <2>4. content'[Host] = content[Host]
    BY <1>7, <1>8
  <2> QED
    BY <1>0, <1>4, <1>8, <2>1, <2>2, <2>3, <2>4 DEF HostKept
<1>14. Unfated'
  BY <1>0, <1>6 DEF Unfated
<1>15. ASSUME NEW v \in Worker, NEW n \in 1..MaxFiles, NEW t \in Slot, dir'[t] = <<v, n>>, t = s, f = Me(w)
       PROVE  v = w /\ n = wk[w].n
  BY <1>8, <1>15 DEF Me
<1>16. ASSUME NEW v \in Worker, NEW n \in 1..MaxFiles, NEW t \in Slot, dir'[t] = <<v, n>>
       PROVE  dir[t] = <<v, n>> \/ (t = s /\ f = Me(w) /\ v = w /\ n = wk[w].n)
  BY <1>8, <1>10, <1>15, <1>16
<1>17. Named'
  <2> SUFFICES ASSUME NEW v \in Worker, NEW n \in 1..MaxFiles, NEW t \in Slot,
                      dir'[t] = <<v, n>>, Ahead(v, n)
               PROVE  n = wk'[v].n /\ Filling(v)' /\ t = wk'[v].slot
    BY <1>6 DEF Named
  <2>1. CASE dir[t] = <<v, n>>
    <3>1. n = wk[v].n /\ Filling(v) /\ t = wk[v].slot
      BY <1>0, <2>1 DEF Named
    <3> QED
      BY <1>2, <1>4, <1>5, <3>1
  <2>2. CASE t = s /\ v = w /\ n = wk[w].n
    BY <1>2, <1>4, <2>2 DEF s
  <2> QED
    BY <1>16, <2>1, <2>2
<1>18. Gone'
  <2> SUFFICES ASSUME NEW v \in Worker, NEW n \in 1..MaxFiles, NEW t \in Slot,
                      fate[v][n].end = "gone", dir'[t] = <<v, n>>
               PROVE  FALSE
    BY DEF Gone
  <2>1. v = w /\ n = wk[w].n
    BY <1>0, <1>16 DEF Gone
  <2>2. Ahead(w, n)
    BY <1>1, <2>1 DEF Ahead
  <2> QED
    BY <1>0, <2>1, <2>2 DEF Unfated
<1>19. Rivals'
  BY <1>0, <1>4, <1>9 DEF Rivals
<1>20. Trespass'
  <2> SUFFICES ASSUME NEW u \in Worker, NEW v \in Worker, NEW n \in 1..MaxFiles,
                      Held(u), dir'[wk[u].slot] = <<v, n>>, <<v, n>> # Me(u)
               PROVE  Raced(u) /\ fate[v][n].raced
    BY <1>4, <1>5, <1>9 DEF Trespass
  <2>1. wk[u].slot \in Slot
    BY <1>0 DEF Places, Shapes, Slot
  <2>2. CASE dir[wk[u].slot] = <<v, n>>
    BY <1>0, <2>2 DEF Trespass
  <2>3. CASE wk[u].slot = s /\ f = Me(w) /\ v = w /\ n = wk[w].n
    <3>1. u # w
      BY <2>3 DEF Me
    <3> QED
      BY <1>11, <2>3, <3>1 DEF Raced
  <2> QED
    BY <1>16, <2>1, <2>2, <2>3
<1>21. Sharing'
  <2> SUFFICES ASSUME NEW u \in Worker, NEW v \in Worker, NEW n \in 1..MaxFiles,
                      Filling(u)', wk'[u].ino = <<v, n>>, <<v, n>> # Me(u)
               PROVE  Raced(u) /\ fate[v][n].raced
    BY <1>4, <1>9 DEF Sharing
  <2>1. CASE u = w
    BY <1>10, <2>1 DEF f
  <2>2. CASE u # w
    BY <1>0, <1>1, <1>5, <2>2 DEF Sharing
  <2> QED
    BY <2>1, <2>2
<1>22. OwnFile'
  <2> SUFFICES ASSUME NEW v \in Worker, Filling(v)', ~Raced(v)
               PROVE  /\ wk'[v].ino = Me(v) /\ dir'[wk[v].slot] = Me(v)
                      /\ content'[Me(v)] = [by |-> Me(v), whole |-> FALSE]
    BY <1>4, <1>9 DEF OwnFile
  <2>1. CASE v = w
    <3>1. f = Me(w)
      BY <1>7, <1>10, <2>1 DEF File
    <3> QED
      BY <1>8, <2>1, <3>1 DEF s, f
  <2>2. CASE v # w
    <3>1. /\ wk[v].ino = Me(v) /\ dir[wk[v].slot] = Me(v)
          /\ content[Me(v)] = [by |-> Me(v), whole |-> FALSE]
      BY <1>0, <1>5, <2>2 DEF OwnFile
    <3>2. wk[v].slot # s
      BY <1>11, <2>2
    <3>3. wk[v].slot \in Slot
      BY <1>0, <1>5, <2>2 DEF Places, Shapes, Slot, Held, Filling
    <3>4. Me(v) # f
      <4>1. Me(v) # Me(w)
        BY <2>2 DEF Me
      <4>2. f = Me(v) => fate[v][wk[v].n].raced
        BY <1>4, <1>10, <4>1 DEF Me
      <4> QED
        BY <4>2 DEF Raced
    <3> QED
      BY <1>1, <1>4, <1>8, <2>2, <3>1, <3>2, <3>3, <3>4
  <2> QED
    BY <2>1, <2>2
<1>23. Settled'
  <2> SUFFICES ASSUME NEW v \in Worker, NEW n \in 1..MaxFiles, Kept(v, n)
               PROVE  Stands(v, n)'
    BY DEF Settled, Kept, MayBeShort, Kd
  <2>1. Stands(v, n)
    BY <1>0 DEF Settled
  <2>2. <<v, n>> \in File
    BY DEF File
  <2>3. f # <<v, n>>
    <3>1. f = Me(w) => <<v, n>> # Me(w)
      <4>1. Ahead(w, wk[w].n)
        BY <1>1 DEF Ahead
      <4>2. fate[w][wk[w].n].end = "none"
        BY <1>0, <1>4, <4>1 DEF Unfated
      <4> QED
        BY <4>2 DEF Kept, Me
    <3>2. dir[s] # <<v, n>>
      BY <1>3, <2>1 DEF Stands, s
    <3> QED
      BY <1>1, <3>1, <3>2 DEF s, f
  <2>4. PICK t \in Slot : dir[t] = <<v, n>>
    BY <2>1 DEF Stands
  <2>5. t # s
    BY <1>3, <2>1, <2>4 DEF Stands, s
  <2>6. dir'[t] = <<v, n>>
    BY <1>8, <2>4, <2>5
  <2>7. \A r \in Slot : dir'[r] = <<v, n>> => dir[r] = <<v, n>>
    BY <1>8, <2>3
  <2>8. \A u \in Worker : wk'[u].ino # <<v, n>>
    BY <1>1, <2>1, <2>3 DEF Stands, f
  <2> QED
    BY <1>4, <1>8, <2>1, <2>2, <2>3, <2>6, <2>7, <2>8 DEF Stands
<1> QED
  BY <1>12, <1>13, <1>14, <1>17, <1>18, <1>19, <1>20, <1>21, <1>22, <1>23 DEF Files

\* A worker writes into the file it has open, or waits for a device that is gone.
WriteOn(w) ==
  LET f == wk[w].ino
  IN  /\ Filling(w) /\ Alone(w)
      /\ Filling(w)'
      /\ wk'[w].n = wk[w].n /\ wk'[w].slot = wk[w].slot /\ wk'[w].ino = f
      /\ \A g \in File \cup {Host} : g # f \/ content[f].by = Me(w) => content'[g] = content[g]

LEMMA WriteKeeps ==
  ASSUME Shapes, Files, NEW w \in Worker, WriteOn(w),
         workload' = workload, dir' = dir, fate' = fate
  PROVE  Files'
<1>0. /\ Places /\ HostKept /\ Unfated /\ Named /\ Gone
      /\ Rivals /\ Trespass /\ Sharing /\ OwnFile /\ Settled
  BY DEF Files
<1> DEFINE f == wk[w].ino
<1>1. /\ Filling(w) /\ Filling(w)' /\ \A v \in Worker \ {w} : wk'[v] = wk[v]
      /\ \A g \in File \cup {Host} : g # f \/ content[f].by = Me(w) => content'[g] = content[g]
  BY DEF WriteOn, Alone
<1>2. \A v \in Worker : /\ wk'[v].n = wk[v].n /\ wk'[v].slot = wk[v].slot /\ wk'[v].ino = wk[v].ino
                        /\ wk[v].n \in 1..MaxFiles
  BY DEF WriteOn, Alone, Shapes
<1>3. \A v \in Worker : (Filling(v)' <=> Filling(v)) /\ (Held(v)' <=> Held(v))
  BY <1>1 DEF Filling, Held
<1>4. \A v \in Worker : /\ Me(v)' = Me(v) /\ (Raced(v)' <=> Raced(v))
                        /\ Me(v) \in File
  BY <1>2 DEF Me, Raced, File
<1>5. \A v \in Worker, n \in 1..MaxFiles : Ahead(v, n)' <=> Ahead(v, n)
  BY <1>1, <1>2 DEF Ahead, Filling
<1>6. f \in File /\ f # Host
  BY <1>0, <1>1, TransfersAssumption DEF Places
<1> HIDE DEF f
<1>7. Places'
  <2>1. \A v \in Worker : wk'[v].pc = "done" <=> wk[v].pc = "done"
    BY <1>1 DEF Filling
  <2> QED
    BY <1>0, <1>2, <1>3, <2>1 DEF Places
<1>8. HostKept'
  <2>1. content'[Host] = content[Host]
    BY <1>1, <1>6
  <2> QED
    BY <1>0, <1>2, <2>1 DEF HostKept
<1>9. Unfated' /\ Gone'
  BY <1>0, <1>5 DEF Unfated, Gone
<1>10. Named'
  BY <1>0, <1>2, <1>3, <1>5 DEF Named
<1>11. Rivals'
  BY <1>0, <1>2, <1>4 DEF Rivals
<1>12. Trespass'
  BY <1>0, <1>2, <1>3, <1>4 DEF Trespass
<1>13. Sharing'
  BY <1>0, <1>2, <1>3, <1>4 DEF Sharing
<1>14. OwnFile'
  <2> SUFFICES ASSUME NEW v \in Worker, Filling(v), ~Raced(v)
               PROVE  content'[Me(v)] = content[Me(v)]
    BY <1>0, <1>2, <1>3, <1>4 DEF OwnFile
  <2>1. CASE v = w
    <3>1. f = Me(w) /\ content[f].by = Me(w)
      <4>1. wk[w].ino = Me(w) /\ content[Me(w)] = [by |-> Me(w), whole |-> FALSE]
        BY <1>0, <2>1 DEF OwnFile
      <4> QED
        BY <4>1 DEF f
    <3> QED
      BY <1>1, <1>4, <3>1
  <2>2. CASE v # w
    <3>1. Me(v) # Me(w)
      BY <2>2 DEF Me
    <3>2. f = Me(v) => fate[v][wk[v].n].raced
      BY <1>0, <1>1, <1>2, <3>1 DEF Sharing, Me, f
    <3> QED
      BY <1>1, <1>4, <3>2 DEF Raced
  <2> QED
    BY <2>1, <2>2
<1>15. Settled'
  <2> SUFFICES ASSUME NEW v \in Worker, NEW n \in 1..MaxFiles, Kept(v, n)
               PROVE  Stands(v, n)'
    BY DEF Settled, Kept, MayBeShort, Kd
  <2>1. Stands(v, n)
    BY <1>0 DEF Settled
  <2>2. <<v, n>> \in File /\ f # <<v, n>>
    BY <2>1 DEF File, Stands, f
  <2> QED
    BY <1>1, <1>2, <2>1, <2>2 DEF Stands
<1> QED
  BY <1>7, <1>8, <1>9, <1>10, <1>11, <1>12, <1>13, <1>14, <1>15 DEF Files

\* A worker is done with its file: it is removed, or left, or taken to be whole.
Told(w, end) ==
  /\ \A v \in Worker, n \in 1..MaxFiles : <<v, n>> # Me(w) => fate'[v][n] = fate[v][n]
  /\ fate'[w][wk[w].n].end = end
  /\ fate'[w][wk[w].n].raced = fate[w][wk[w].n].raced

Remove(w) ==
  /\ Told(w, "gone") /\ content' = content
  /\ dir' = [dir EXCEPT ![wk[w].slot] = Free]

Leave(w) == Told(w, "left") /\ dir' = dir /\ content' = content

Take(w) ==
  LET f == wk[w].ino
      t == fate'[w][wk[w].n]
  IN  /\ Told(w, "kept") /\ dir' = dir
      /\ t.cut => Kd(w) \in {"upload", "archive"}
      /\ \A g \in File \cup {Host} : g # f => content'[g] = content[g]
      /\ content[f].by = Me(w) /\ ~t.cut => content'[f] = [by |-> Me(w), whole |-> TRUE]

LEMMA EndKeeps ==
  ASSUME Shapes, Files, NEW w \in Worker, Filling(w), Walk(w), workload' = workload,
         Remove(w) \/ Leave(w) \/ Take(w)
  PROVE  Files'
<1>0. /\ Places /\ HostKept /\ Unfated /\ Named /\ Gone
      /\ Rivals /\ Trespass /\ Sharing /\ OwnFile /\ Settled
  BY DEF Files
<1> DEFINE f == wk[w].ino
           s == wk[w].slot
           m == wk[w].n
<1>1. Places' /\ ~Held(w)' /\ ~Filling(w)' /\ Held(w)
  BY <1>0, WalkFacts DEF Filling, Held
<1>2. \A v \in Worker, n \in 1..MaxFiles :
        Ahead(v, n)' => Ahead(v, n) /\ <<v, n>> # Me(w)
  BY <1>0, <1>1, WalkFacts DEF Me
<1>3. /\ wk'[w].slot = 0 /\ wk'[w].ino = Free /\ wk[w].pc # "done"
      /\ \A v \in Worker \ {w} : wk'[v] = wk[v]
  BY DEF Walk, Alone
<1>4. 0 \notin Slot /\ Free \notin File
  BY TransfersAssumption DEF Slot
<1>5. /\ s \in Slot /\ f \in File /\ f # Host /\ m \in 1..MaxFiles
      /\ \A v \in Worker : Me(v) \in File /\ wk[v].n \in 1..MaxFiles
  BY <1>0, <1>1, TransfersAssumption DEF Places, Shapes, Slot, File, Me
<1>6. \A v \in Worker : v # w => (Held(v)' <=> Held(v)) /\ (Filling(v)' <=> Filling(v)) /\ Me(v)' = Me(v)
  BY <1>3 DEF Held, Filling, Me
<1>7. /\ \A v \in Worker, n \in 1..MaxFiles : fate'[v][n].raced <=> fate[v][n].raced
      /\ \A v \in Worker, n \in 1..MaxFiles : <<v, n>> # Me(w) => fate'[v][n] = fate[v][n]
      /\ \A v \in Worker : v # w => (Raced(v)' <=> Raced(v))
  <2>1. \/ Told(w, "gone") \/ Told(w, "left") \/ Told(w, "kept")
    BY DEF Remove, Leave, Take
  <2>2. \A v \in Worker, n \in 1..MaxFiles : <<v, n>> # Me(w) => fate'[v][n] = fate[v][n]
    BY <2>1 DEF Told
  <2>3. \A v \in Worker, n \in 1..MaxFiles : fate'[v][n].raced <=> fate[v][n].raced
    BY <2>1, <2>2 DEF Told, Me
  <2>4. \A v \in Worker : v # w => (Raced(v)' <=> Raced(v))
    BY <1>3, <1>5, <2>3 DEF Raced
  <2> QED
    BY <2>2, <2>3, <2>4
\* Names are at most taken away, and the one it held at most from its own.
<1>8. /\ \A t \in Slot : t # s => dir'[t] = dir[t]
      /\ dir'[s] \in {dir[s], Free}
  BY <1>5 DEF Remove, Leave, Take, Shapes
<1>9. \A g \in File \cup {Host} : g # f => content'[g] = content[g]
  BY DEF Remove, Leave, Take
<1>10. \A v \in Worker, n \in 1..MaxFiles, t \in Slot : dir'[t] = <<v, n>> => dir[t] = <<v, n>>
  BY <1>4, <1>8 DEF File
<1> HIDE DEF s, f, m
<1>11. HostKept'
  <2>1. \A t \in Slot : dir'[t] = Host => dir[t] = Host
    BY <1>8, TransfersAssumption
  <2>2. workload.host => s # 1 /\ 1 \in Slot
    BY <1>0, TransfersAssumption DEF HostKept, s, Slot
  <2>3. content'[Host] = content[Host]
    BY <1>5, <1>9
  <2>4. \A v \in Worker : wk'[v].slot = 1 => wk[v].slot = 1
    BY <1>3
  <2> QED
    BY <1>0, <1>8, <2>1, <2>2, <2>3, <2>4 DEF HostKept
<1>12. Unfated'
  BY <1>0, <1>2, <1>7 DEF Unfated
<1>13. Named'
  <2> SUFFICES ASSUME NEW v \in Worker, NEW n \in 1..MaxFiles, NEW t \in Slot,
                      dir'[t] = <<v, n>>, Ahead(v, n)'
               PROVE  n = wk'[v].n /\ Filling(v)' /\ t = wk'[v].slot
    BY DEF Named
  <2>1. n = wk[v].n /\ Filling(v) /\ t = wk[v].slot
    BY <1>0, <1>2, <1>10 DEF Named
  <2>2. v # w
    BY <1>2, <2>1 DEF Me
  <2> QED
    BY <1>3, <1>6, <2>1, <2>2
<1>14. Gone'
  <2> SUFFICES ASSUME NEW v \in Worker, NEW n \in 1..MaxFiles, NEW t \in Slot,
                      fate'[v][n].end = "gone", dir'[t] = <<v, n>>
               PROVE  FALSE
    BY DEF Gone
  <2>1. dir[t] = <<v, n>>
    BY <1>10
  <2>2. v = w /\ n = m
    BY <1>0, <1>7, <2>1 DEF Gone, Me, m
  <2>3. Remove(w)
    BY <2>2 DEF Leave, Take, Told, m
  <2>4. Ahead(w, m)
    BY <1>3, <1>5 DEF Ahead, m
  <2>5. t = s
    BY <1>0, <2>1, <2>2, <2>4 DEF Named, s
  <2>6. dir'[s] = Free
    BY <1>5, <2>3 DEF Remove, Shapes, s
  <2> QED
    BY <1>4, <2>5, <2>6 DEF File
<1>15. Rivals'
  BY <1>0, <1>3, <1>7 DEF Rivals
<1>16. Trespass'
  <2> SUFFICES ASSUME NEW u \in Worker, NEW v \in Worker, NEW n \in 1..MaxFiles,
                      Held(u)', dir'[wk'[u].slot] = <<v, n>>, <<v, n>> # Me(u)'
               PROVE  Raced(u)' /\ fate'[v][n].raced
    BY DEF Trespass
  <2>1. u # w
    BY <1>1
  <2>2. Held(u) /\ wk[u].slot \in Slot /\ wk'[u] = wk[u]
    BY <1>0, <1>3, <1>6, <2>1 DEF Places, Shapes, Slot
  <2>3. dir[wk[u].slot] = <<v, n>> /\ <<v, n>> # Me(u)
    BY <1>6, <1>10, <2>1, <2>2
  <2>4. Raced(u) /\ fate[v][n].raced
    BY <1>0, <2>2, <2>3 DEF Trespass
  <2> QED
    BY <1>7, <2>1, <2>4
<1>17. Sharing'
  BY <1>0, <1>1, <1>3, <1>6, <1>7 DEF Sharing
<1>18. OwnFile'
  <2> SUFFICES ASSUME NEW v \in Worker, v # w, Filling(v), ~Raced(v)
               PROVE  dir'[wk[v].slot] = dir[wk[v].slot] /\ content'[Me(v)] = content[Me(v)]
    BY <1>0, <1>1, <1>3, <1>6, <1>7 DEF OwnFile
  <2>1. wk[v].slot \in Slot /\ wk[v].slot # 0
    BY <1>0, <1>4 DEF Places, Shapes, Slot, Filling, Held
  <2>2. wk[v].slot # s
    BY <1>0, <2>1 DEF Rivals, s
  <2>3. f # Me(v)
    <3>1. Me(v) # Me(w)
      BY DEF Me
    <3> QED
      BY <1>0, <1>5, <3>1 DEF Sharing, Me, Raced, f
  <2> QED
    BY <1>5, <1>8, <1>9, <2>1, <2>2, <2>3
<1>19. Settled'
  <2> SUFFICES ASSUME NEW v \in Worker, NEW n \in 1..MaxFiles, Kept(v, n)'
               PROVE  Stands(v, n)'
    BY DEF Settled
  <2>0. <<v, n>> \in File
    BY DEF File
  <2>1. CASE <<v, n>> # Me(w)
    <3>1. Kept(v, n)
      BY <1>7, <2>1 DEF Kept, MayBeShort, Kd
    <3>2. Stands(v, n)
      BY <1>0, <3>1 DEF Settled
    <3>3. f # <<v, n>> /\ dir[s] # <<v, n>>
      BY <1>5, <3>2 DEF Stands, f, s
    <3>4. PICK t \in Slot : dir[t] = <<v, n>>
      BY <3>2 DEF Stands
    <3>5. dir'[t] = <<v, n>>
      BY <1>8, <3>3, <3>4
    <3>6. \A u \in Worker : wk'[u].slot \in {0, wk[u].slot} /\ wk'[u].ino \in {Free, wk[u].ino}
      BY <1>3
    <3>7. \A u \in Worker : wk'[u].ino # <<v, n>>
      BY <1>4, <2>0, <3>2, <3>6 DEF Stands
    <3>8. \A r \in Slot : dir'[r] = <<v, n>> => \A u \in Worker : wk'[u].slot # r
      BY <1>4, <1>10, <3>2, <3>6 DEF Stands
    <3>9. content'[<<v, n>>] = content[<<v, n>>]
      BY <1>9, <2>0, <3>3
    <3> QED
      BY <3>2, <3>5, <3>7, <3>8, <3>9 DEF Stands
  <2>2. CASE <<v, n>> = Me(w)
    <3>1. v = w /\ n = m
      BY <2>2 DEF Me, m
    <3>2. Take(w)
      BY <3>1 DEF Kept, Remove, Leave, Told, m
    <3>3. ~Raced(w)
      BY <1>7, <3>1 DEF Kept, Raced, m
    <3>4. f = Me(w) /\ dir[s] = Me(w) /\ content[f].by = Me(w)
      <4>1. /\ wk[w].ino = Me(w) /\ dir[wk[w].slot] = Me(w)
            /\ content[Me(w)] = [by |-> Me(w), whole |-> FALSE]
        BY <1>0, <3>3 DEF OwnFile
      <4> QED
        BY <4>1 DEF f, s
    <3>5. ~fate'[w][m].cut
      BY <3>1, <3>2 DEF Kept, MayBeShort, Kd, Take, m
    <3>6. content'[f] = [by |-> Me(w), whole |-> TRUE] /\ dir' = dir
      BY <3>2, <3>4, <3>5 DEF Take, f, m
    <3>7. Ahead(w, m)
      BY <1>3, <1>5 DEF Ahead, m
    <3>8. \A t \in Slot : dir[t] = <<w, m>> => t = s
      BY <1>0, <1>5, <3>7 DEF Named, s
    <3>9. \A u \in Worker : wk'[u].slot # s
      BY <1>0, <1>3, <1>4, <1>5, <3>3 DEF Rivals, s
    <3>10. \A u \in Worker : wk'[u].ino # <<w, m>>
      <4> SUFFICES ASSUME NEW u \in Worker, u # w, wk[u].ino = <<w, m>>
                   PROVE  FALSE
        BY <1>3, <1>4, <2>0, <3>1
      <4>1. Filling(u)
        BY <1>0, <1>4, <2>0, <3>1 DEF Places
      <4>2. <<w, m>> # Me(u)
        BY DEF Me
      <4> QED
        BY <1>0, <1>5, <3>3, <4>1, <4>2 DEF Sharing, Raced, m
    <3> QED
      BY <1>5, <2>2, <3>1, <3>4, <3>6, <3>8, <3>9, <3>10 DEF Stands
  <2> QED
    BY <2>1, <2>2
<1> QED
  BY <1>1, <1>11, <1>12, <1>13, <1>14, <1>15, <1>16, <1>17, <1>18, <1>19 DEF Files

-----------------------------------------------------------------------------
(* The files: every step is of one of these kinds. *)

Kinds(w) ==
  \/ Walk(w) /\ dir' = dir /\ content' = content /\ fate' = fate
  \/ Pick(w) /\ dir' = dir /\ content' = content
  \/ Create(w) /\ fate' = fate
  \/ WriteOn(w) /\ dir' = dir /\ fate' = fate
  \/ Filling(w) /\ Walk(w) /\ (Remove(w) \/ Leave(w) \/ Take(w))

FileMove ==
  /\ workload' = workload
  /\ \/ dir' = dir /\ content' = content /\ wk' = wk /\ fate' = fate
     \/ \E w \in Worker : Kinds(w)

LEMMA FilesKept ==
  ASSUME Shapes, Files, FileMove
  PROVE  Files'
<1>1. CASE dir' = dir /\ content' = content /\ wk' = wk /\ fate' = fate
  <2> USE <1>1 DEF FileMove, Held, Filling, Raced, Ahead, Me
  <2>1. Places' /\ HostKept' /\ Unfated' /\ Named' /\ Gone'
    BY DEF Files, Places, HostKept, Unfated, Named, Gone
  <2>2. Rivals' /\ Trespass' /\ Sharing' /\ OwnFile'
    BY DEF Files, Rivals, Trespass, Sharing, OwnFile
  <2>3. Settled'
    BY DEF Files, Settled, Kept, Stands, MayBeShort, Kd
  <2> QED
    BY <2>1, <2>2, <2>3 DEF Files
<1>2. ASSUME NEW w \in Worker, Kinds(w)
      PROVE  Files'
  BY <1>2, WalkKeeps, PickKeeps, CreateKeeps, WriteKeeps, EndKeeps DEF Kinds, FileMove
<1> QED
  BY <1>1, <1>2 DEF FileMove

Spot  == [pc : Pc, n : 1..MaxFiles, slot : 0..MaxVariant, ino : File \cup {Host, Free}]
Fate  == [end : {"none", "kept", "gone", "left"}, raced : BOOLEAN, cut : BOOLEAN]
Spots == [Worker -> Spot]
Fates == [Worker -> [1..MaxFiles -> Fate]]
Disks == [File \cup {Host} -> [by : File \cup {Host, Mixed}, whole : BOOLEAN]]
Dirs  == [Slot -> File \cup {Host, Free}]

LEMMA ShapesAre ==
  Shapes <=> /\ workload \in Workload /\ dir \in Dirs /\ content \in Disks
             /\ wk \in Spots /\ fate \in Fates
BY DEF Shapes, Dirs, Disks, Spots, Spot, Fates, Fate

LEMMA ShapesAreNext ==
  Shapes' <=> /\ workload' \in Workload /\ dir' \in Dirs /\ content' \in Disks
              /\ wk' \in Spots /\ fate' \in Fates
BY DEF Shapes, Dirs, Disks, Spots, Spot, Fates, Fate

\* Leaving a file, or what there was to do instead of one.
LEMMA Leaving ==
  ASSUME Shapes, Places, NEW w \in Worker, wk[w].pc # "done",
         Onward(w) \/ Done(w) \/ Refuse(w)
  PROVE  Walk(w) /\ wk' \in Spots /\ wk'[w].pc # "peek"
<1>1. wk \in Spots /\ wk[w].n \in 1..MaxFiles /\ wk[w].n <= workload.does[w].files
  BY ShapesAre DEF Spots, Spot, Places
<1>2. workload.does[w].files \in 0..MaxFiles
  BY TransfersAssumption DEF Shapes, Workloads
<1>3. MaxVariant \in Nat /\ MaxFiles \in Nat
  BY TransfersAssumption
<1>4. ASSUME NEW n \in 1..MaxFiles, NEW pc \in {"next", "done"},
             pc = "done" \/ n <= workload.does[w].files,
             (n = wk[w].n /\ pc = "done") \/ n = wk[w].n + 1,
             wk' = [wk EXCEPT ![w] = [Idle EXCEPT !.pc = pc, !.n = n]]
      PROVE  Walk(w) /\ wk' \in Spots /\ wk'[w].pc # "peek"
  <2> DEFINE r == [Idle EXCEPT !.pc = pc, !.n = n]
  <2>1. Idle \in Spot /\ Idle.slot = 0 /\ Idle.ino = Free
    BY <1>3, TransfersAssumption DEF Idle, Spot, Pc
  <2>2. r \in Spot /\ r.pc = pc /\ r.n = n /\ r.slot = 0 /\ r.ino = Free
    BY <2>1 DEF Spot, Pc
  <2>0. wk' = [wk EXCEPT ![w] = r]
    BY <1>4
  <2> HIDE DEF r
  <2>3. wk' \in Spots /\ wk'[w] = r /\ \A v \in Worker \ {w} : wk'[v] = wk[v]
    BY <1>1, <2>0, <2>2 DEF Spots
  <2>4. wk'[w].pc = pc /\ wk'[w].n = n /\ wk'[w].slot = 0 /\ wk'[w].ino = Free
    BY <2>2, <2>3
  <2> QED
    BY <1>4, <2>3, <2>4 DEF Walk, Alone
<1>6. Done(w) => Walk(w) /\ wk' \in Spots /\ wk'[w].pc # "peek"
  BY <1>1, <1>4 DEF Done
<1>5. Onward(w) => Walk(w) /\ wk' \in Spots /\ wk'[w].pc # "peek"
  <2>1. ASSUME wk[w].n # workload.does[w].files,
               wk' = [wk EXCEPT ![w] = [Idle EXCEPT !.pc = "next", !.n = wk[w].n + 1]]
        PROVE  Walk(w) /\ wk' \in Spots /\ wk'[w].pc # "peek"
    <3>1. wk[w].n + 1 \in 1..MaxFiles /\ wk[w].n + 1 <= workload.does[w].files
      BY <1>1, <1>2, <1>3, <2>1
    <3> QED
      BY <1>4, <2>1, <3>1
  <2> QED
    BY <1>6, <2>1 DEF Onward
<1> QED
  BY <1>5, <1>6 DEF Refuse

\* Going on before there is a file.
LEMMA Going ==
  ASSUME Shapes, Places, NEW w \in Worker, wk[w].pc \in {"idle", "peek", "list"},
         NEW pc \in {"idle", "peek", "list", "next"}, wk' = [wk EXCEPT ![w].pc = pc]
  PROVE  Walk(w) /\ wk' \in Spots
<1>1. ~Held(w) /\ ~Filling(w)
  BY DEF Held, Filling
<1>2. wk[w].slot = 0 /\ wk[w].ino = Free /\ wk[w].n <= workload.does[w].files
  BY <1>1 DEF Places
<1>3. wk \in Spots
  BY ShapesAre
<1> QED
  BY <1>1, <1>2, <1>3 DEF Walk, Alone, Spots, Spot, Pc

LEMMA Telling ==
  ASSUME Shapes, NEW w \in Worker, NEW end \in {"none", "kept", "gone", "left"}, Ends(w, end)
  PROVE  Told(w, end) /\ fate' \in Fates
<1>1. fate \in Fates /\ wk[w].n \in 1..MaxFiles
  BY ShapesAre DEF Spots, Spot
<1> DEFINE n == wk[w].n
<1>2. fate' = [fate EXCEPT ![w][n].end = end]
  BY DEF Ends
<1> HIDE DEF n
<1>3. /\ fate'[w] = [fate[w] EXCEPT ![n].end = end]
      /\ fate' = [fate EXCEPT ![w] = fate'[w]]
  BY <1>1, <1>2 DEF Fates
<1>4. fate[w] \in [1..MaxFiles -> Fate]
  BY <1>1 DEF Fates
<1>5. /\ fate'[w] \in [1..MaxFiles -> Fate]
      /\ fate'[w][n].end = end /\ fate'[w][n].raced = fate[w][n].raced
      /\ \A m \in 1..MaxFiles : m # n => fate'[w][m] = fate[w][m]
  <2> DEFINE r == [fate[w][n] EXCEPT !.end = end]
  <2>1. fate[w][n] \in Fate /\ n \in 1..MaxFiles
    BY <1>1, <1>4 DEF n
  <2>2. r \in Fate /\ r.end = end /\ r.raced = fate[w][n].raced
    BY <2>1 DEF Fate
  <2>3. fate'[w] = [fate[w] EXCEPT ![n] = r]
    BY <1>3
  <2> HIDE DEF r
  <2> QED
    BY <1>4, <2>1, <2>2, <2>3
<1>6. fate' \in Fates /\ \A v \in Worker \ {w} : fate'[v] = fate[v]
  BY <1>1, <1>3, <1>5 DEF Fates
<1> QED
  BY <1>5, <1>6 DEF Told, Me, n

LEMMA GivingUp ==
  ASSUME Shapes, Places, NEW w \in Worker, Filling(w), GiveUp(w)
  PROVE  workload' = workload /\ Kinds(w) /\ Shapes'
<1>1. Walk(w) /\ wk' \in Spots
  BY Leaving DEF GiveUp, Filling
<1>2. Told(w, "gone") /\ fate' \in Fates
  BY Telling DEF GiveUp
<1>3. /\ workload' = workload /\ content' = content
      /\ dir' = [dir EXCEPT ![wk[w].slot] = Free]
  BY DEF GiveUp
<1>4. Remove(w)
  BY <1>2, <1>3 DEF Remove
<1> QED
  <2>1. dir' \in Dirs
    BY <1>3, ShapesAre DEF Dirs
  <2> QED
    BY <1>1, <1>2, <1>3, <1>4, <2>1, ShapesAre, ShapesAreNext DEF Kinds

LEMMA Keeping ==
  ASSUME Shapes, Places, NEW w \in Worker, Filling(w), NEW cut \in BOOLEAN, Keep(w, cut),
         Onward(w) \/ Done(w), cut => Kd(w) \in {"upload", "archive"}
  PROVE  workload' = workload /\ Kinds(w) /\ Shapes'
<1> DEFINE f == wk[w].ino
           n == wk[w].n
<1>1. Walk(w) /\ wk' \in Spots
  BY Leaving DEF Filling
<1>2. fate \in Fates /\ n \in 1..MaxFiles /\ content \in Disks /\ f \in File
  BY ShapesAre DEF Spots, Spot, Places
<1>3. /\ fate' = [fate EXCEPT ![w][n].end = "kept", ![w][n].cut = cut]
      /\ workload' = workload /\ dir' = dir
      /\ content' = [content EXCEPT ![f].whole = @ \/ (content[f].by = Me(w) /\ ~cut)]
  BY DEF Keep
<1> HIDE DEF f, n
<1>4. /\ fate' \in Fates /\ \A v \in Worker \ {w} : fate'[v] = fate[v]
      /\ fate'[w][n].end = "kept" /\ fate'[w][n].raced = fate[w][n].raced /\ fate'[w][n].cut = cut
      /\ \A m \in 1..MaxFiles : m # n => fate'[w][m] = fate[w][m]
  <2>1. /\ fate'[w] = [fate[w] EXCEPT ![n].end = "kept", ![n].cut = cut]
        /\ fate' = [fate EXCEPT ![w] = fate'[w]]
    BY <1>2, <1>3 DEF Fates
  <2>2. fate[w] \in [1..MaxFiles -> Fate]
    BY <1>2 DEF Fates
  <2>3. /\ fate'[w] \in [1..MaxFiles -> Fate]
        /\ fate'[w][n].end = "kept" /\ fate'[w][n].raced = fate[w][n].raced /\ fate'[w][n].cut = cut
        /\ \A m \in 1..MaxFiles : m # n => fate'[w][m] = fate[w][m]
    <3> DEFINE r == [fate[w][n] EXCEPT !.end = "kept", !.cut = cut]
    <3>1. fate[w][n] \in Fate
      BY <1>2, <2>2
    <3>2. r \in Fate /\ r.end = "kept" /\ r.raced = fate[w][n].raced /\ r.cut = cut
      BY <3>1 DEF Fate
    <3>3. fate'[w] = [fate[w] EXCEPT ![n] = r]
      BY <1>2, <2>1, <2>2 DEF Fate
    <3> HIDE DEF r
    <3> QED
      BY <1>2, <2>2, <3>2, <3>3
  <2> QED
    BY <1>2, <2>1, <2>3 DEF Fates
<1>5. fate'[w][n].cut = cut /\ Told(w, "kept")
  BY <1>4 DEF Told, Me, n
<1>6. content' \in Disks
  BY <1>2, <1>3 DEF Disks
<1>7. /\ \A g \in File \cup {Host} : g # f => content'[g] = content[g]
      /\ content[f].by = Me(w) /\ ~cut => content'[f] = [by |-> Me(w), whole |-> TRUE]
  BY <1>2, <1>3 DEF Disks
<1>8. Take(w)
  BY <1>3, <1>5, <1>7 DEF Take, f, n
<1> QED
  BY <1>1, <1>3, <1>4, <1>6, <1>8, ShapesAre, ShapesAreNext DEF Kinds

LEMMA FileMoves ==
  ASSUME Shapes, Places, HostKept, Next
  PROVE  FileMove /\ Shapes'
<1> DEFINE Result == FileMove /\ Shapes'
<1>0. /\ wk \in Spots /\ fate \in Fates /\ content \in Disks /\ dir \in Dirs
  BY ShapesAre
<1>1. ASSUME NEW w \in Worker, workload' = workload, Kinds(w), Shapes'
      PROVE  Result
  BY <1>1 DEF FileMove
<1>2. ASSUME workload' = workload, dir' = dir, content' = content, wk' = wk, fate' = fate
      PROVE  Result
  BY <1>2 DEF FileMove, Shapes
<1>3. ASSUME NEW w \in Worker, Walk(w), wk' \in Spots,
             workload' = workload, dir' = dir, content' = content, fate' = fate
      PROVE  Result
  <2>1. Kinds(w)
    BY <1>3 DEF Kinds
  <2>2. Shapes'
    BY <1>3, ShapesAre, ShapesAreNext
  <2> QED
    BY <1>1, <1>3, <2>1, <2>2
<1> HIDE DEF Result
<1>4. ASSUME NEW w \in Worker,
             Ask(w) \/ NotStarted(w) \/ StartTask(w) \/ UploadStarts(w) \/ Listed(w)
      PROVE  Result
  <2>1. /\ workload' = workload /\ dir' = dir /\ content' = content /\ fate' = fate
        /\ wk[w].pc \in {"idle", "peek", "list"}
        /\ \E pc \in {"idle", "peek", "list", "next"} : wk' = [wk EXCEPT ![w].pc = pc]
    BY <1>4 DEF Ask, NotStarted, StartTask, UploadStarts, Listed, At, disk
  <2> QED
    BY <1>3, <2>1, Going
<1>5. ASSUME NEW w \in Worker,
             \/ Quits(w) \/ SkipField(w) \/ NoName(w) \/ CreateFails(w)
             \/ HandlerDropped(w) \/ Respond(w)
      PROVE  Result
  <2>1. /\ workload' = workload /\ dir' = dir /\ content' = content /\ fate' = fate
        /\ wk[w].pc # "done"
        /\ Onward(w) \/ Done(w) \/ Refuse(w)
    BY <1>5 DEF Quits, SkipField, NoName, MayPick, CreateFails, HandlerDropped, Respond, At, disk
  <2> QED
    BY <1>3, <2>1, Leaving
<1>6. ASSUME NEW w \in Worker, Cancel(w) \/ PollTask(w) \/ LogStep(w)
      PROVE  Result
  BY <1>2, <1>6 DEF Cancel, PollTask, LogStep, disk
<1>7. PageStep \/ Over => Result
  BY <1>2 DEF PageStep, Over, vars, disk
<1>8. ASSUME NEW w \in Worker, PickName(w)
      PROVE  Result
  <2>1. PICK s \in Slot : /\ dir[s] = Free
                          /\ wk' = [wk EXCEPT ![w].pc = "picked", ![w].slot = s]
                          /\ fate' = Race(w, s)
    <3>1. PICK s \in FirstFree(w) : /\ wk' = [wk EXCEPT ![w].pc = "picked", ![w].slot = s]
                                    /\ fate' = Race(w, s)
      BY <1>8 DEF PickName
    <3>2. s \in Slot /\ dir[s] = Free
      BY TransfersAssumption DEF FirstFree, Names, Slot
    <3> QED
      BY <3>1, <3>2
  <2>2. workload' = workload /\ dir' = dir /\ content' = content /\ wk[w].pc = "next"
    BY <1>8 DEF PickName, MayPick, At, disk
  <2>3. wk[w].slot = 0 /\ wk[w].ino = Free /\ \A v \in Worker : wk[v].n \in 1..MaxFiles
    BY <2>2, ShapesAre DEF Places, Held, Filling, Spots, Spot
  <2>4. /\ wk' \in Spots /\ \A v \in Worker \ {w} : wk'[v] = wk[v]
        /\ wk'[w].pc = "picked" /\ wk'[w].n = wk[w].n /\ wk'[w].slot = s /\ wk'[w].ino = wk[w].ino
    <3>1. wk[w] \in Spot
      BY <1>0 DEF Spots
    <3>2. wk' = [wk EXCEPT ![w] = [wk[w] EXCEPT !.pc = "picked", !.slot = s]]
      BY <1>0, <2>1, <3>1 DEF Spots, Spot
    <3>0. s \in 0..MaxVariant
      BY TransfersAssumption DEF Slot
    <3>3. [wk[w] EXCEPT !.pc = "picked", !.slot = s] \in Spot
      BY <3>0, <3>1 DEF Spot, Pc
    <3>4. wk'[w] = [wk[w] EXCEPT !.pc = "picked", !.slot = s]
      BY <1>0, <3>2 DEF Spots
    <3> QED
      BY <1>0, <3>1, <3>2, <3>3, <3>4 DEF Spots, Spot
  <2>5. \A v \in Worker :
          \/ fate'[v] = fate[v]
          \/ fate'[v] = [fate[v] EXCEPT ![wk[v].n].raced = TRUE]
    BY <2>1 DEF Race
  <2>r. ASSUME NEW v \in Worker
        PROVE  /\ fate'[v] \in [1..MaxFiles -> Fate]
               /\ \A n \in 1..MaxFiles :
                    /\ fate'[v][n].end = fate[v][n].end /\ fate'[v][n].cut = fate[v][n].cut
                    /\ fate[v][n].raced => fate'[v][n].raced
               /\ fate'[v] # fate[v] => fate'[v][wk[v].n].raced
    <3>1. fate[v] \in [1..MaxFiles -> Fate] /\ wk[v].n \in 1..MaxFiles
      BY <1>0, <2>3 DEF Fates
    <3>2. CASE fate'[v] = fate[v]
      BY <3>1, <3>2
    <3>3. CASE fate'[v] = [fate[v] EXCEPT ![wk[v].n].raced = TRUE]
      <4> DEFINE m == wk[v].n
                 r == [fate[v][m] EXCEPT !.raced = TRUE]
      <4>1. r \in Fate /\ r.end = fate[v][m].end /\ r.cut = fate[v][m].cut /\ r.raced
        BY <3>1 DEF Fate
      <4>2. fate'[v] = [fate[v] EXCEPT ![m] = r]
        BY <3>3
      <4> HIDE DEF r
      <4> QED
        BY <3>1, <4>1, <4>2
    <3> QED
      BY <2>5, <3>2, <3>3
  <2>6. fate' \in Fates
    <3>1. fate' = [v \in Worker |-> fate'[v]]
      BY <2>1 DEF Race
    <3>2. \A v \in Worker : fate'[v] \in [1..MaxFiles -> Fate]
      BY <2>r
    <3> QED
      BY <3>1, <3>2 DEF Fates
  <2>7. \A v \in Worker, n \in 1..MaxFiles :
          /\ fate'[v][n].end = fate[v][n].end /\ fate'[v][n].cut = fate[v][n].cut
          /\ fate[v][n].raced => fate'[v][n].raced
    BY <2>r
  <2>8. \A v \in Worker \ {w} : wk[v].slot = s => fate'[v][wk[v].n].raced /\ fate'[w][wk[w].n].raced
    <3> SUFFICES ASSUME NEW v \in Worker \ {w}, wk[v].slot = s
                 PROVE  fate'[v][wk[v].n].raced /\ fate'[w][wk[w].n].raced
      OBVIOUS
    <3>1. /\ fate'[v] = [fate[v] EXCEPT ![wk[v].n].raced = TRUE]
          /\ fate'[w] = [fate[w] EXCEPT ![wk[w].n].raced = TRUE]
      BY <2>1 DEF Race
    <3>2. \A u \in Worker : fate[u] \in [1..MaxFiles -> Fate]
      BY <1>0 DEF Fates
    <3>3. \A u \in {v, w} : fate[u][wk[u].n] \in Fate
      BY <2>3, <3>2
    <3>4. \A u \in {v, w} : [fate[u][wk[u].n] EXCEPT !.raced = TRUE].raced
      BY <3>3 DEF Fate
    <3> QED
      BY <2>3, <3>1, <3>2, <3>4
  <2>9. Pick(w)
    BY <2>1, <2>2, <2>3, <2>4, <2>7, <2>8 DEF Pick, Alone
  <2>10. Shapes' /\ Kinds(w)
    BY <1>0, <2>2, <2>4, <2>6, <2>9, ShapesAre, ShapesAreNext DEF Kinds
  <2> QED
    BY <1>1, <2>2, <2>10
<1>9. ASSUME NEW w \in Worker, CreateFile(w)
      PROVE  Result
  <2> DEFINE s == wk[w].slot
             f == IF dir[s] = Free THEN Me(w) ELSE dir[s]
  <2>1. /\ wk[w].pc = "picked" /\ workload' = workload /\ fate' = fate
        /\ dir' = [dir EXCEPT ![s] = f]
        /\ content' = [content EXCEPT ![f] = [by |-> Me(w), whole |-> FALSE]]
        /\ wk' = [wk EXCEPT ![w].pc = "open", ![w].ino = f]
    BY <1>9 DEF CreateFile, At
  <2>2. s \in Slot /\ Me(w) \in File
    BY <1>0, <2>1 DEF Places, Held, Spots, Spot, Slot, Me, File
  <2>3. f \in File
    <3>1. dir[s] # Host
      BY <2>2 DEF HostKept
    <3> QED
      BY <1>0, <2>2, <3>1 DEF Dirs
  <2> HIDE DEF f
  <2>4. dir' \in Dirs
    BY <1>0, <2>1, <2>2, <2>3 DEF Dirs
  <2>5. content' \in Disks
    BY <1>0, <2>1, <2>2, <2>3 DEF Disks
  <2>6. /\ wk' \in Spots /\ \A v \in Worker \ {w} : wk'[v] = wk[v]
        /\ wk'[w].pc = "open" /\ wk'[w].n = wk[w].n /\ wk'[w].slot = s /\ wk'[w].ino = f
    <3>1. wk[w] \in Spot
      BY <1>0 DEF Spots
    <3>2. wk' = [wk EXCEPT ![w] = [wk[w] EXCEPT !.pc = "open", !.ino = f]]
      BY <1>0, <2>1, <3>1 DEF Spots, Spot
    <3>3. [wk[w] EXCEPT !.pc = "open", !.ino = f] \in Spot
      BY <2>3, <3>1 DEF Spot, Pc
    <3>4. wk'[w] = [wk[w] EXCEPT !.pc = "open", !.ino = f]
      BY <1>0, <3>2 DEF Spots
    <3> QED
      BY <1>0, <3>1, <3>2, <3>3, <3>4 DEF Spots, Spot
  <2>7. Create(w)
    BY <2>1, <2>6 DEF Create, Alone, f
  <2>8. Shapes' /\ Kinds(w)
    BY <1>0, <2>1, <2>4, <2>5, <2>6, <2>7, ShapesAre, ShapesAreNext DEF Kinds
  <2> QED
    BY <1>1, <2>1, <2>8
<1>10. ASSUME NEW w \in Worker, At(w, {"open", "stalled"}), GiveUp(w)
       PROVE  Result
  BY <1>1, <1>10, GivingUp DEF At, Filling
<1>11. ASSUME NEW w \in Worker, NEW cut \in BOOLEAN, At(w, {"open", "stalled"}), Keep(w, cut),
              Onward(w) \/ Done(w), cut => Kd(w) \in {"upload", "archive"}
       PROVE  Result
  BY <1>1, <1>11, Keeping DEF At, Filling
<1>12. ASSUME NEW w \in Worker, At(w, {"open"}), Write(w)
       PROVE  Result
  <2> DEFINE f == wk[w].ino
  <2>1. /\ workload' = workload /\ dir' = dir /\ wk' = wk /\ fate' = fate
        /\ content' = [content EXCEPT ![f] = IF @.by = Me(w) THEN @ ELSE [by |-> Mixed, whole |-> FALSE]]
    BY <1>12 DEF Write
  <2>2. Filling(w) /\ f \in File
    BY <1>12 DEF At, Filling, Places
  <2>3. content' \in Disks
    BY <1>0, <2>1, <2>2 DEF Disks
  <2>4. \A g \in File \cup {Host} : g # f \/ content[f].by = Me(w) => content'[g] = content[g]
    BY <1>0, <2>1, <2>2 DEF Disks
  <2>5. WriteOn(w)
    BY <2>1, <2>2, <2>4 DEF WriteOn, Alone, Filling
  <2>6. Shapes' /\ Kinds(w)
    BY <1>0, <2>1, <2>3, <2>5, ShapesAre, ShapesAreNext DEF Kinds
  <2> QED
    BY <1>1, <2>1, <2>6
<1>13. ASSUME NEW w \in Worker, Vanish(w)
       PROVE  Result
  <2>1. /\ wk[w].pc = "open" /\ wk' = [wk EXCEPT ![w].pc = "stalled"]
        /\ workload' = workload /\ dir' = dir /\ content' = content /\ fate' = fate
    BY <1>13 DEF Vanish, At, disk
  <2>2. WriteOn(w)
    BY <1>0, <2>1 DEF WriteOn, Alone, Filling, Spots, Spot
  <2>3. Shapes' /\ Kinds(w)
    <3>1. wk' \in Spots
      BY <1>0, <2>1 DEF Spots, Spot, Pc
    <3> QED
      BY <1>0, <2>1, <2>2, <3>1, ShapesAre, ShapesAreNext DEF Kinds
  <2> QED
    BY <1>1, <2>1, <2>3
<1>14. ASSUME NEW w \in Worker, FlushFails(w)
       PROVE  Result
  <2>1. /\ wk[w].pc = "open" /\ Refuse(w) /\ Ends(w, "left")
        /\ workload' = workload /\ dir' = dir /\ content' = content
    BY <1>14 DEF FlushFails, At, disk
  <2>2. Walk(w) /\ wk' \in Spots
    BY <2>1, Leaving
  <2>3. Told(w, "left") /\ fate' \in Fates
    BY <2>1, Telling
  <2>4. Shapes' /\ Kinds(w)
    BY <1>0, <2>1, <2>2, <2>3, ShapesAre, ShapesAreNext DEF Kinds, Leave, Filling
  <2> QED
    BY <1>1, <2>1, <2>4
<1>15. ASSUME NEW w \in Worker, Chunk(w) \/ WriteFails(w)
       PROVE  Result
  BY <1>10, <1>12, <1>15 DEF Chunk, WriteFails, At
<1>16. ASSUME NEW w \in Worker, StreamEnds(w) \/ StreamBreaks(w) \/ ArchiveCut(w)
       PROVE  Result
  BY <1>10, <1>11, <1>16 DEF StreamEnds, StreamBreaks, ArchiveCut, At, Uploads
<1> QED
  BY <1>4, <1>5, <1>6, <1>7, <1>8, <1>9, <1>13, <1>14, <1>15, <1>16 DEF Next, Moves, Result

-----------------------------------------------------------------------------
(* The task table and the page's rows. *)

DeskShapes ==
  /\ task \in [Worker -> {"none", "running", "saved", "failed"}]
  /\ flag \in [Worker -> BOOLEAN]
  /\ row \in [Worker -> {"none", "going", "saved", "failed"}]

\* Nobody starts to ask, and at most a task ends.
Quiet ==
  /\ \A v \in Worker : wk'[v].pc = "peek" => wk[v].pc = "peek"
  /\ row' = row /\ flag' = flag
  /\ task' = task \/ \E w \in Worker, verdict \in {"saved", "failed"} : task' = [task EXCEPT ![w] = verdict]

DeskMove ==
  \/ \E w \in Worker : Ask(w) \/ StartTask(w) \/ Cancel(w) \/ PollTask(w)
  \/ Quiet

LEMMA DeskMoves ==
  ASSUME Shapes, Places, Next
  PROVE  DeskMove
<1>0. wk \in Spots
  BY ShapesAre
<1>1. ASSUME UNCHANGED <<wk, desk>>
      PROVE  Quiet
  BY <1>1 DEF Quiet, desk
<1>2. ASSUME NEW w \in Worker, UNCHANGED desk \/ TaskEnds(w, "saved") \/ TaskEnds(w, "failed"),
             Alone(w), wk'[w].pc # "peek"
      PROVE  Quiet
  BY <1>2 DEF Quiet, desk, TaskEnds, Alone
<1>3. ASSUME NEW w \in Worker, wk[w].pc # "done",
             UNCHANGED desk \/ TaskEnds(w, "saved") \/ TaskEnds(w, "failed"), Onward(w) \/ Done(w)
      PROVE  Quiet
  BY <1>2, <1>3, Leaving DEF Walk
<1>4. ASSUME NEW w \in Worker, wk[w].pc # "done", Refuse(w)
      PROVE  Quiet
  BY <1>3, <1>4 DEF Refuse
<1>5. ASSUME NEW w \in Worker,
             \/ NotStarted(w) \/ UploadStarts(w) \/ Listed(w) \/ PickName(w)
             \/ CreateFile(w) \/ Vanish(w)
      PROVE  Quiet
  <2>1. /\ UNCHANGED desk
        /\ \/ wk' = [wk EXCEPT ![w].pc = "idle"]
           \/ wk' = [wk EXCEPT ![w].pc = "next"]
           \/ wk' = [wk EXCEPT ![w].pc = "stalled"]
           \/ \E s \in Slot : wk' = [wk EXCEPT ![w].pc = "picked", ![w].slot = s]
           \/ \E f : wk' = [wk EXCEPT ![w].pc = "open", ![w].ino = f]
    <3>1. PickName(w) => UNCHANGED desk /\ \E s \in Slot : wk' = [wk EXCEPT ![w].pc = "picked", ![w].slot = s]
      <4>1. FirstFree(w) \subseteq Slot
        BY TransfersAssumption DEF FirstFree, Names, Slot
      <4> QED
        BY <4>1 DEF PickName
    <3>2. CreateFile(w) => UNCHANGED desk /\ \E f : wk' = [wk EXCEPT ![w].pc = "open", ![w].ino = f]
      BY DEF CreateFile
    <3> QED
      BY <1>5, <3>1, <3>2 DEF NotStarted, UploadStarts, Listed, Vanish
  <2>2. Alone(w) /\ wk'[w].pc # "peek"
    BY <1>0, <2>1 DEF Alone, Spots, Spot
  <2> QED
    BY <1>2, <2>1, <2>2
<1>6. ASSUME NEW w \in Worker, Quits(w) \/ SkipField(w) \/ HandlerDropped(w) \/ Respond(w)
      PROVE  Quiet
  <2>1. /\ wk[w].pc # "done"
        /\ Onward(w) \/ Done(w)
        /\ UNCHANGED desk \/ TaskEnds(w, "failed")
    BY <1>6 DEF Quits, SkipField, HandlerDropped, Respond, At
  <2> QED
    BY <1>3, <2>1
<1>7. ASSUME NEW w \in Worker, NoName(w) \/ CreateFails(w) \/ WriteFails(w) \/ FlushFails(w)
      PROVE  Quiet
  BY <1>4, <1>7 DEF NoName, MayPick, CreateFails, WriteFails, GiveUp, FlushFails, At
<1>8. ASSUME NEW w \in Worker, Chunk(w)
      PROVE  Quiet
  BY <1>1, <1>4, <1>8 DEF Chunk, GiveUp, Write, At
<1>9. ASSUME NEW w \in Worker, NEW cut, Keep(w, cut)
      PROVE  UNCHANGED desk \/ TaskEnds(w, "saved")
  BY <1>9 DEF Keep
<1>10. ASSUME NEW w \in Worker, StreamEnds(w) \/ StreamBreaks(w) \/ ArchiveCut(w)
       PROVE  Quiet
  BY <1>3, <1>4, <1>9, <1>10 DEF StreamEnds, StreamBreaks, ArchiveCut, GiveUp, At
<1>11. (\E w \in Worker : LogStep(w)) \/ PageStep \/ Over => Quiet
  BY <1>1 DEF LogStep, PageStep, Over, vars
<1> QED
  BY <1>5, <1>6, <1>7, <1>8, <1>10, <1>11 DEF Next, Moves, DeskMove

LEMMA DesksKept ==
  ASSUME Shapes, DeskShapes, Desks, DeskMove, workload' = workload
  PROVE  DeskShapes' /\ Desks'
<1> USE DEF DeskShapes
<1>0. wk \in Spots
  BY ShapesAre
<1>1. ASSUME NEW w \in Worker, Ask(w)
      PROVE  DeskShapes' /\ Desks'
  <2>1. /\ wk' = [wk EXCEPT ![w].pc = "peek"] /\ UNCHANGED desk
        /\ \A v \in Worker \ {w} : workload.does[v].key = workload.does[w].key => ~Busy(v)
    BY <1>1 DEF Ask, Busy, At
  <2>2. \A v \in Worker \ {w} : wk'[v] = wk[v]
    BY <1>0, <2>1 DEF Spots
  <2>3. \A v \in Worker \ {w} : Busy(v)' => Busy(v)
    BY <2>1, <2>2 DEF Busy, desk
  <2> QED
    BY <2>1, <2>3 DEF Desks, desk
<1>2. ASSUME NEW w \in Worker, StartTask(w)
      PROVE  DeskShapes' /\ Desks'
  <2>1. /\ wk[w].pc = "peek" /\ \E pc \in {"next", "list"} : wk' = [wk EXCEPT ![w].pc = pc]
        /\ task' = [task EXCEPT ![w] = "running"]
        /\ flag' = [flag EXCEPT ![w] = FALSE]
        /\ row' = [row EXCEPT ![w] = "going"]
    BY <1>2 DEF StartTask, At
  <2>2. \A v \in Worker \ {w} : wk'[v] = wk[v]
    BY <1>0, <2>1 DEF Spots
  <2>3. \A v \in Worker : Busy(v)' => Busy(v)
    BY <2>1, <2>2 DEF Busy
  <2> QED
    BY <2>1, <2>3 DEF Desks
<1>3. ASSUME NEW w \in Worker, Cancel(w)
      PROVE  DeskShapes' /\ Desks'
  BY <1>3 DEF Cancel, Desks, Busy
<1>4. ASSUME NEW w \in Worker, PollTask(w)
      PROVE  DeskShapes' /\ Desks'
  BY <1>4 DEF PollTask, Desks, Busy
<1>5. ASSUME Quiet
      PROVE  DeskShapes' /\ Desks'
  <2>1. \A v \in Worker : Busy(v)' => Busy(v)
    BY <1>5 DEF Quiet, Busy
  <2>2. DeskShapes' /\ row' = row /\ \A v \in Worker : task'[v] = "running" => task[v] = "running"
    BY <1>5 DEF Quiet
  <2> QED
    BY <2>1, <2>2 DEF Desks
<1> QED
  BY <1>1, <1>2, <1>3, <1>4, <1>5 DEF DeskMove

-----------------------------------------------------------------------------
(* All or nothing: a download comes to its next file only by keeping the    *)
(* one before, so it is said to be saved when all of its files were kept.   *)

Saved(w) == task[w] = "saved" \/ row[w] = "saved"

Complete(w) ==
  /\ wk[w].pc \in {"peek", "list"} => Downloads(w)
  /\ Held(w) => Downloads(w) \/ Uploads(w)
  /\ Downloads(w) /\ wk[w].pc # "done" =>
       \A n \in 1..MaxFiles : n < wk[w].n => fate[w][n].end = "kept"
  /\ Saved(w) =>
       /\ wk[w].pc = "done"
       /\ \A n \in 1..workload.does[w].files : fate[w][n].end = "kept"

Whole == \A w \in Worker : Complete(w)

SameEnds(v) == \A n \in 1..MaxFiles : fate'[v][n].end = fate[v][n].end

\* Where others work, nothing changes but the marks of a race.
LEMMA Elsewhere ==
  ASSUME Shapes, NEW v \in Worker, Complete(v), workload' = workload, SameEnds(v),
         wk'[v] = wk[v], Saved(v)' => Saved(v)
  PROVE  Complete(v)'
<1>1. workload.does[v].files \in 0..MaxFiles /\ MaxFiles \in Nat
  BY TransfersAssumption DEF Shapes, Workloads
<1>2. 1..workload.does[v].files \subseteq 1..MaxFiles
  BY <1>1
<1> QED
  BY <1>2 DEF Complete, SameEnds, Held, Downloads, Uploads, Kd

\* A worker that goes on with its file, or to the place where it has one.
LEMMA StaysComplete ==
  ASSUME Shapes, NEW w \in Worker, Complete(w), workload' = workload, SameEnds(w),
         wk[w].pc # "done", wk'[w].n = wk[w].n, wk'[w].pc # "done",
         Saved(w)' => Saved(w),
         wk'[w].pc \in {"peek", "list"} => Downloads(w),
         Held(w)' => Downloads(w) \/ Uploads(w)
  PROVE  Complete(w)'
BY DEF Complete, SameEnds, Downloads, Uploads, Kd

\* A worker that is done and has nothing saved, or is not a download.
LEMMA LeavesComplete ==
  ASSUME Shapes, DeskShapes, NEW w \in Worker, Complete(w), workload' = workload,
         wk[w].pc # "done", (Onward(w) /\ ~Downloads(w)) \/ Done(w),
         UNCHANGED desk \/ TaskEnds(w, "failed")
  PROVE  Complete(w)' /\ Alone(w) /\ \A v \in Worker \ {w} : Saved(v)' => Saved(v)
<1>1. wk \in Spots /\ ~Saved(w)
  BY ShapesAre DEF Complete
<1>2. Idle \in [pc : Pc, n : {1}, slot : {0}, ino : {Free}]
  BY DEF Idle, Pc
<1>3. Alone(w) /\ wk'[w].pc \in {"next", "done"} /\ (wk'[w].pc = "next" => ~Downloads(w))
  BY <1>1, <1>2 DEF Onward, Done, Alone, Spots
<1>4. \A v \in Worker : Saved(v)' => Saved(v)
  BY DEF Saved, desk, TaskEnds, DeskShapes
<1> QED
  BY <1>1, <1>3, <1>4 DEF Complete, Held, Downloads, Uploads, Kd

\* A worker keeps its file.
LEMMA KeepsComplete ==
  ASSUME Shapes, DeskShapes, Places, NEW w \in Worker, Complete(w), workload' = workload,
         Filling(w), NEW cut \in BOOLEAN, Keep(w, cut), Onward(w) \/ (Done(w) /\ Uploads(w))
  PROVE  /\ Complete(w)' /\ Alone(w)
         /\ \A v \in Worker \ {w} : SameEnds(v) /\ (Saved(v)' => Saved(v))
<1> DEFINE n == wk[w].n
           files == workload.does[w].files
<1>0. wk \in Spots /\ fate \in Fates /\ n \in 1..MaxFiles /\ MaxFiles \in Nat
  BY ShapesAre, TransfersAssumption DEF Spots, Spot
<1>1. files \in 0..MaxFiles /\ n <= files /\ wk[w].pc # "done" /\ Held(w)
  BY TransfersAssumption DEF Shapes, Workloads, Places, Filling, Held
<1>2. Told(w, "kept")
  <2>1. fate' = [fate EXCEPT ![w][n].end = "kept", ![w][n].cut = cut]
    BY DEF Keep
  <2>2. fate[w] \in [1..MaxFiles -> Fate]
    BY <1>0 DEF Fates
  <2>3. /\ fate'[w] = [fate[w] EXCEPT ![n].end = "kept", ![n].cut = cut]
        /\ \A v \in Worker \ {w} : fate'[v] = fate[v]
    BY <1>0, <2>1 DEF Fates
  <2> DEFINE r == [fate[w][n] EXCEPT !.end = "kept", !.cut = cut]
  <2>4. r.end = "kept" /\ r.raced = fate[w][n].raced
    BY <1>0, <2>2 DEF Fate
  <2>5. fate'[w] = [fate[w] EXCEPT ![n] = r]
    BY <1>0, <2>2, <2>3 DEF Fate
  <2> HIDE DEF r
  <2>6. fate'[w][n] = r /\ \A m \in 1..MaxFiles : m # n => fate'[w][m] = fate[w][m]
    BY <1>0, <2>2, <2>5
  <2> QED
    BY <2>3, <2>4, <2>6 DEF Told, Me
<1>3. /\ \A v \in Worker \ {w} : SameEnds(v)
      /\ \A m \in 1..MaxFiles : fate'[w][m].end = IF m = n THEN "kept" ELSE fate[w][m].end
  BY <1>2 DEF Told, Me, SameEnds
<1>4. Idle \in [pc : Pc, n : {1}, slot : {0}, ino : {Free}]
  BY DEF Idle, Pc
<1>5. /\ Alone(w) /\ ~Held(w)' /\ wk'[w].pc \in {"next", "done"}
      /\ wk'[w].pc = "next" => n # files /\ wk'[w].n = n + 1
      /\ wk'[w].pc = "done" => n = files \/ Uploads(w)
  BY <1>0, <1>4 DEF Onward, Done, Alone, Spots, Held
<1>6. ~Saved(w) /\ (Downloads(w) => \A m \in 1..MaxFiles : m < n => fate[w][m].end = "kept")
  BY <1>1 DEF Complete
<1>7. /\ \A v \in Worker \ {w} : Saved(v)' => Saved(v)
      /\ Saved(w)' => n = files /\ ~Uploads(w)
  BY <1>6 DEF Keep, TaskEnds, desk, Saved, DeskShapes
<1>8. Downloads(w) \/ Uploads(w)
  BY <1>1 DEF Complete
<1>9. Downloads(w)' = Downloads(w)
  BY DEF Downloads, Kd
<1> HIDE DEF n
<1>10. Downloads(w)' /\ wk'[w].pc # "done" =>
         \A m \in 1..MaxFiles : m < wk'[w].n => fate'[w][m].end = "kept"
  BY <1>0, <1>3, <1>5, <1>6, <1>9
<1>11. Saved(w)' => /\ wk'[w].pc = "done"
                    /\ \A m \in 1..workload'.does[w].files : fate'[w][m].end = "kept"
  BY <1>0, <1>1, <1>3, <1>5, <1>6, <1>7, <1>8
<1> QED
  BY <1>3, <1>5, <1>7, <1>10, <1>11 DEF Complete

LEMMA WholeKept ==
  ASSUME Shapes, DeskShapes, Places, Whole, Next, workload' = workload
  PROVE  Whole'
<1>0. /\ wk \in Spots /\ fate \in Fates /\ \A v \in Worker : Complete(v)
      /\ \A v \in Worker : fate'[v] = fate[v] => SameEnds(v)
  BY ShapesAre DEF Whole, SameEnds
<1>1. ASSUME NEW w \in Worker, Complete(w)', Alone(w),
             \A v \in Worker \ {w} : SameEnds(v) /\ (Saved(v)' => Saved(v))
      PROVE  Whole'
  BY <1>0, <1>1, Elsewhere DEF Whole, Alone
\* Nothing is left and nothing is saved.
<1>2. ASSUME NEW w \in Worker, Alone(w), \A v \in Worker : SameEnds(v), UNCHANGED desk,
             wk[w].pc # "done", wk'[w].n = wk[w].n, wk'[w].pc # "done",
             wk'[w].pc \in {"peek", "list"} => Downloads(w),
             Held(w)' => Downloads(w) \/ Uploads(w)
      PROVE  Whole'
  <2>1. \A v \in Worker : Saved(v)' => Saved(v)
    BY <1>2 DEF Saved, desk
  <2> QED
    BY <1>0, <1>1, <1>2, <2>1, StaysComplete
<1>3. ASSUME NEW w \in Worker, wk[w].pc # "done",
             (Onward(w) /\ ~Downloads(w)) \/ Done(w), UNCHANGED desk \/ TaskEnds(w, "failed"),
             \A v \in Worker \ {w} : SameEnds(v)
      PROVE  Whole'
  BY <1>0, <1>1, <1>3, LeavesComplete
<1>4. ASSUME NEW w \in Worker, wk[w].pc # "done", Refuse(w), \A v \in Worker \ {w} : SameEnds(v)
      PROVE  Whole'
  BY <1>3, <1>4 DEF Refuse, Uploads, Downloads
<1>5. ASSUME wk' = wk, fate' = fate, \A v \in Worker : Saved(v)' => Saved(v)
      PROVE  Whole'
  BY <1>0, <1>5, Elsewhere DEF Whole
<1>6. ASSUME NEW w \in Worker, NEW end, Ends(w, end)
      PROVE  \A v \in Worker \ {w} : SameEnds(v)
  BY <1>0, <1>6 DEF Ends, Fates
<1>7. ASSUME NEW w \in Worker, Ask(w) \/ NotStarted(w) \/ UploadStarts(w) \/ Listed(w) \/ Vanish(w)
      PROVE  Whole'
  <2>1. /\ fate' = fate /\ UNCHANGED desk /\ wk[w].pc # "done"
        /\ \/ wk' = [wk EXCEPT ![w].pc = "peek"] /\ Downloads(w)
           \/ wk' = [wk EXCEPT ![w].pc = "idle"]
           \/ wk' = [wk EXCEPT ![w].pc = "next"]
           \/ wk' = [wk EXCEPT ![w].pc = "stalled"] /\ Downloads(w)
    BY <1>7 DEF Ask, NotStarted, UploadStarts, Listed, Vanish, At
  <2>2. /\ Alone(w) /\ wk'[w].n = wk[w].n /\ wk'[w].pc # "done"
        /\ wk'[w].pc \in {"peek", "list"} => Downloads(w)
        /\ Held(w)' => Downloads(w)
    BY <1>0, <2>1 DEF Alone, Spots, Spot, Held
  <2> QED
    BY <1>0, <1>2, <2>1, <2>2
<1>8. ASSUME NEW w \in Worker, StartTask(w)
      PROVE  Whole'
  <2>1. /\ fate' = fate /\ wk[w].pc = "peek"
        /\ \E pc \in {"next", "list"} : wk' = [wk EXCEPT ![w].pc = pc]
        /\ task' = [task EXCEPT ![w] = "running"] /\ row' = [row EXCEPT ![w] = "going"]
    BY <1>8 DEF StartTask, At
  <2>2. /\ Alone(w) /\ wk'[w].n = wk[w].n /\ wk'[w].pc # "done"
        /\ wk'[w].pc \in {"peek", "list"} => Downloads(w)
        /\ ~Held(w)'
    BY <1>0, <2>1 DEF Alone, Spots, Spot, Held, Complete
  <2>3. \A v \in Worker : Saved(v)' => Saved(v)
    BY <2>1 DEF Saved, DeskShapes
  <2> QED
    BY <1>0, <1>1, <2>1, <2>2, <2>3, StaysComplete
<1>9. ASSUME NEW w \in Worker, Cancel(w) \/ PollTask(w)
      PROVE  Whole'
  <2>1. wk' = wk /\ fate' = fate
    BY <1>9 DEF Cancel, PollTask
  <2>2. \A v \in Worker : Saved(v)' => Saved(v)
    BY <1>9 DEF Cancel, PollTask, Saved, DeskShapes
  <2> QED
    BY <1>5, <2>1, <2>2
<1>10. (\E w \in Worker : LogStep(w)) \/ PageStep \/ Over => Whole'
  <2>1. ASSUME UNCHANGED <<wk, fate, desk>>
        PROVE  Whole'
    BY <1>5, <2>1 DEF Saved, desk
  <2> QED
    BY <2>1 DEF LogStep, PageStep, Over, vars
<1>11. ASSUME NEW w \in Worker, Quits(w) \/ SkipField(w) \/ HandlerDropped(w) \/ Respond(w)
       PROVE  Whole'
  <2>1. /\ fate' = fate /\ wk[w].pc # "done" /\ (UNCHANGED desk \/ TaskEnds(w, "failed"))
        /\ (Onward(w) /\ ~Downloads(w)) \/ Done(w)
    BY <1>11 DEF Quits, SkipField, HandlerDropped, Respond, At, Uploads, Downloads
  <2> QED
    BY <1>0, <1>3, <2>1
<1>12. ASSUME NEW w \in Worker, NoName(w) \/ CreateFails(w)
       PROVE  Whole'
  <2>1. fate' = fate /\ wk[w].pc # "done" /\ Refuse(w)
    BY <1>12 DEF NoName, MayPick, CreateFails, At
  <2> QED
    BY <1>0, <1>4, <2>1
<1>13. ASSUME NEW w \in Worker, wk[w].pc # "done", GiveUp(w)
       PROVE  Whole'
  BY <1>4, <1>6, <1>13 DEF GiveUp
<1>14. ASSUME NEW w \in Worker, FlushFails(w)
       PROVE  Whole'
  BY <1>4, <1>6, <1>14 DEF FlushFails, At
<1>15. ASSUME NEW w \in Worker, Chunk(w) \/ WriteFails(w)
       PROVE  Whole'
  <2>1. CASE Write(w)
    BY <1>5, <2>1 DEF Write, Saved, desk
  <2> QED
    BY <1>13, <1>15, <2>1 DEF Chunk, WriteFails, At
<1>16. ASSUME NEW w \in Worker, Filling(w), NEW cut \in BOOLEAN, Keep(w, cut),
              Onward(w) \/ (Done(w) /\ Uploads(w))
       PROVE  Whole'
  BY <1>0, <1>1, <1>16, KeepsComplete
<1>17. ASSUME NEW w \in Worker, StreamEnds(w) \/ StreamBreaks(w) \/ ArchiveCut(w)
       PROVE  Whole'
  <2>1. At(w, {"open", "stalled"}) => Filling(w) /\ wk[w].pc # "done"
    BY DEF At, Filling
  <2>2. /\ At(w, {"open", "stalled"})
        /\ \/ GiveUp(w)
           \/ \E cut \in BOOLEAN : Keep(w, cut) /\ (Onward(w) \/ (Done(w) /\ Uploads(w)))
    BY <1>17 DEF StreamEnds, StreamBreaks, ArchiveCut, At
  <2> QED
    BY <1>13, <1>16, <2>1, <2>2
<1>18. ASSUME NEW w \in Worker, PickName(w) \/ CreateFile(w)
       PROVE  Whole'
  <2>1. PickName(w) => /\ UNCHANGED desk /\ wk[w].pc = "next" /\ (Downloads(w) \/ Uploads(w))
                       /\ \E s : wk' = [wk EXCEPT ![w].pc = "picked", ![w].slot = s] /\ fate' = Race(w, s)
    BY DEF PickName, MayPick, At
  <2>2. CreateFile(w) => /\ UNCHANGED desk /\ fate' = fate /\ wk[w].pc = "picked"
                         /\ \E f : wk' = [wk EXCEPT ![w].pc = "open", ![w].ino = f]
    BY DEF CreateFile, At
  <2>3. CreateFile(w) => Downloads(w) \/ Uploads(w)
    BY <1>0, <2>2 DEF Complete, Held
  <2>4. /\ Alone(w) /\ wk'[w].n = wk[w].n /\ wk[w].pc # "done" /\ wk'[w].pc \in {"picked", "open"}
        /\ UNCHANGED desk
    BY <1>0, <1>18, <2>1, <2>2 DEF Alone, Spots, Spot
  <2>5. \A v \in Worker : SameEnds(v)
    <3>1. ASSUME NEW s, fate' = Race(w, s), NEW v \in Worker
          PROVE  SameEnds(v)
      <4>1. fate'[v] = fate[v] \/ fate'[v] = [fate[v] EXCEPT ![wk[v].n].raced = TRUE]
        BY <3>1 DEF Race
      <4>2. fate[v] \in [1..MaxFiles -> Fate]
        BY <1>0 DEF Fates
      <4>3. SUFFICES ASSUME NEW n \in 1..MaxFiles
                     PROVE  fate'[v][n].end = fate[v][n].end
        BY DEF SameEnds
      <4>4. fate[v][n] \in Fate
        BY <4>2
      <4>5. CASE fate'[v] = fate[v]
        BY <4>5
      <4>6. CASE fate'[v] = [fate[v] EXCEPT ![wk[v].n].raced = TRUE]
        <5>1. fate'[v][n] \in {fate[v][n], [fate[v][n] EXCEPT !.raced = TRUE]}
          BY <4>2, <4>6
        <5> QED
          BY <4>4, <5>1 DEF Fate
      <4> QED
        BY <4>1, <4>5, <4>6
    <3> QED
      BY <1>0, <1>18, <2>1, <2>2, <3>1
  <2> QED
    BY <1>2, <1>18, <2>1, <2>3, <2>4, <2>5
<1> QED
  BY <1>7, <1>8, <1>9, <1>10, <1>11, <1>12, <1>13, <1>14, <1>15, <1>17, <1>18 DEF Next, Moves

-----------------------------------------------------------------------------
(* The invariant. *)

Inv == TypeOK /\ Files /\ Log /\ Desks /\ Whole

LEMMA TypeOKIs == TypeOK <=> ActivityTypeOK /\ Shapes /\ DeskShapes
BY DEF TypeOK, Shapes, DeskShapes

LEMMA InitInv ==
  ASSUME Init
  PROVE  Inv
<1> USE TransfersAssumption DEF Init
<1>0. /\ workload \in Workload /\ MaxFiles \in Nat /\ 1 \in 1..MaxFiles /\ 1 \in Slot /\ 0 \notin Slot
      /\ \A w \in Worker : workload.does[w].files \in 0..MaxFiles
      /\ workload.host \in BOOLEAN /\ workload.tab \in BOOLEAN
  BY DEF Workloads, Slot
<1>1. ActivityTypeOK
  <2>1. <<>> \in Seq(Entry) /\ Len(<<>>) = 0
    BY EmptySeq
  <2>0. NoRec \in Rec
    BY DEF NoRec, Rec, Status
  <2>2. /\ rec \in [Worker -> Rec] /\ nextId \in Nat /\ lastId \in Nat /\ tab \in BOOLEAN
        /\ clearing \in BOOLEAN /\ clears \in 0..MaxClears
    <3>1. rec = [w \in Worker |-> NoRec]
      BY DEF ActivityInit
    <3>2. rec \in [Worker -> Rec]
      BY <2>0, <3>1
    <3>3. nextId \in Nat /\ lastId \in Nat /\ clears \in 0..MaxClears
      BY ActivityAssumption DEF ActivityInit
    <3>5. clearing \in BOOLEAN
      BY DEF ActivityInit
    <3>4. tab \in BOOLEAN
      BY <1>0
    <3> QED
      BY <3>2, <3>3, <3>4, <3>5
  <2>3. NoPoll \in [pc : {"idle", "asked", "answered"}, since : Nat, all : BOOLEAN, got : Seq(Entry)]
    BY <2>1 DEF NoPoll
  <2>4. poll = [p \in Poll |-> NoPoll] /\ NoPoll.got = <<>> /\ ring = <<>> /\ rows = <<>>
    BY DEF ActivityInit, NoPoll
  <2> QED
    BY <2>1, <2>2, <2>3, <2>4, ActivityAssumption DEF ActivityTypeOK
<1>2. Idle \in Spot /\ [Idle EXCEPT !.pc = "done"] \in Spot
  BY <1>0 DEF Idle, Spot, Pc
<1>3. \A w \in Worker : wk[w] = IF workload.does[w].files = 0 THEN [Idle EXCEPT !.pc = "done"] ELSE Idle
  OBVIOUS
<1>4. \A w \in Worker :
        /\ wk[w].n = 1 /\ wk[w].slot = 0 /\ wk[w].ino = Free
        /\ wk[w].pc = IF workload.does[w].files = 0 THEN "done" ELSE "idle"
  BY <1>2, <1>3 DEF Idle, Spot
<1>5. Shapes
  <2>1. wk \in Spots
    BY <1>2 DEF Spots
  <2>2. fate \in Fates
    BY DEF Fates, Fate
  <2>3. content \in Disks
    BY DEF Disks
  <2>4. dir \in Dirs
    BY DEF Dirs
  <2> QED
    BY <2>1, <2>2, <2>3, <2>4, <1>0, ShapesAre
<1>6. DeskShapes
  BY DEF DeskShapes
<1>7. \A w \in Worker : ~Held(w) /\ ~Filling(w) /\ wk[w].pc # "peek"
  BY <1>4 DEF Held, Filling
<1>8. \A w \in Worker, n \in 1..MaxFiles : fate[w][n].end = "none"
  OBVIOUS
<1>9. \A s \in Slot : dir[s] = IF s = 1 /\ workload.host THEN Host ELSE Free
  OBVIOUS
<1>10. \A w \in Worker, n \in 1..MaxFiles, s \in Slot : dir[s] # <<w, n>>
  <2>1. \A s \in Slot : dir[s] \notin File
    BY <1>9
  <2>2. \A w \in Worker, n \in 1..MaxFiles : <<w, n>> \in File
    BY DEF File
  <2> QED
    BY <2>1, <2>2
<1>11. content[Host] = [by |-> Host, whole |-> TRUE]
  OBVIOUS
<1>12. Places
  BY <1>0, <1>4, <1>7 DEF Places
<1>13. HostKept
  BY <1>0, <1>4, <1>9, <1>11 DEF HostKept
<1>14. Unfated /\ Named /\ Gone
  BY <1>8, <1>10 DEF Unfated, Named, Gone
<1>15. Rivals /\ Trespass /\ Sharing /\ OwnFile
  BY <1>4, <1>7 DEF Rivals, Trespass, Sharing, OwnFile
<1>16. Settled
  BY <1>8 DEF Settled, Kept
<1>17. Log
  BY DEF ActivityInit, NoRec, Log, Numbers, Entries
<1>18. Desks
  BY <1>7 DEF Desks, Busy
<1>19. Whole
  BY <1>4, <1>7 DEF Whole, Complete, Saved
<1> QED
  BY <1>1, <1>5, <1>6, <1>12, <1>13, <1>14, <1>15, <1>16, <1>17, <1>18, <1>19, TypeOKIs
  DEF Inv, Files

LEMMA NextInv ==
  ASSUME Inv, [Next]_vars
  PROVE  Inv'
<1>0. ActivityTypeOK /\ Shapes /\ DeskShapes /\ Files /\ Log /\ Desks /\ Whole
  BY TypeOKIs DEF Inv
<1>1. CASE Next
  <2>1. LogMove
    BY <1>1, LogMoves
  <2>2. ActivityTypeOK' /\ Log'
    BY <1>0, <2>1, LogTypes, LogKept DEF Log
  <2>3. FileMove /\ Shapes'
    BY <1>0, <1>1, FileMoves DEF Files
  <2>4. Files'
    BY <1>0, <2>3, FilesKept
  <2>5. DeskShapes' /\ Desks'
    BY <1>0, <1>1, <2>3, DeskMoves, DesksKept DEF Files, FileMove
  <2>6. TypeOK'
    BY <2>2, <2>3, <2>5 DEF TypeOK, Shapes, DeskShapes
  <2>7. Whole'
    BY <1>0, <1>1, <2>3, WholeKept DEF Files, FileMove
  <2> QED
    BY <2>2, <2>4, <2>5, <2>6, <2>7 DEF Inv
<1>2. CASE UNCHANGED vars
  <2>1. UNCHANGED activityVars /\ workload' = workload /\ UNCHANGED <<dir, content, wk, fate, task, flag, row>>
    BY <1>2 DEF vars, disk, desk
  <2>2. ActivityTypeOK' /\ Log'
    BY <1>0, <2>1, LogTypes, LogKept DEF Log, LogMove
  <2>3. Shapes'
    BY <1>0, <2>1 DEF Shapes
  <2>4. Files'
    BY <1>0, <2>1, FilesKept DEF FileMove
  <2>5. DeskShapes' /\ Desks'
    BY <1>0, <2>1, DesksKept DEF DeskMove, Quiet
  <2>6. TypeOK'
    BY <2>2, <2>3, <2>5 DEF TypeOK, Shapes, DeskShapes
  <2>7. Whole'
    BY <1>0, <2>1 DEF Whole, Complete, Saved, Held, Downloads, Uploads, Kd
  <2> QED
    BY <2>2, <2>4, <2>5, <2>6, <2>7 DEF Inv
<1> QED
  BY <1>1, <1>2

\* The invariant holds of every reachable state, whoever transfers what.
THEOREM TransfersInv == Spec => []Inv
<1>1. Init => Inv
  BY InitInv
<1>2. Inv /\ [Next]_vars => Inv'
  BY NextInv
<1> QED
  BY <1>1, <1>2, PTL DEF Spec

\* Type correctness.
THEOREM TransfersTypes == Spec => []TypeOK
<1>1. Inv => TypeOK
  BY DEF Inv
<1> QED
  BY <1>1, TransfersInv, PTL

\* A file that was in the folder keeps its name and its bytes, whoever transfers
\* what under that name and however it fails.
THEOREM HostFileIsSafe == Spec => []HostFileStands
<1>1. Inv => HostFileStands
  BY DEF Inv, Files, HostKept, HostFileStands
<1> QED
  BY <1>1, TransfersInv, PTL

\* What is reported as saved is in the folder and whole, unless another transfer
\* held its name at the same time or its stream was cut short.
THEOREM SavedIsWhole == Spec => []DoneIsWhole
<1>1. ASSUME Inv
      PROVE  DoneIsWhole
  <2> SUFFICES ASSUME NEW f \in File, fate[f[1]][f[2]].end = "kept",
                      ~fate[f[1]][f[2]].raced, ~MayBeShort(f)
               PROVE  \E s \in Slot : dir[s] = f /\ content[f] = [by |-> f, whole |-> TRUE]
    BY DEF DoneIsWhole
  <2>1. PICK w \in Worker, n \in 1..MaxFiles : f = <<w, n>>
    BY DEF File
  <2>2. Kept(w, n)
    BY <2>1 DEF Kept
  <2>3. Stands(w, n)
    BY <1>1, <2>2 DEF Inv, Files, Settled
  <2> QED
    BY <2>1, <2>3 DEF Stands
<1> QED
  BY <1>1, TransfersInv, PTL

\* What was given up is not in the folder.
THEOREM HalfFilesGo == Spec => []NoHalfFileKept
<1>1. Inv => NoHalfFileKept
  BY DEF Inv, Files, Gone, NoHalfFileKept, File
<1> QED
  BY <1>1, TransfersInv, PTL

\* A download that is told to be saved has saved all of its files.
THEOREM SavedIsAll == Spec => []SavedMeansAll
<1>1. Inv => SavedMeansAll
  BY DEF Inv, Whole, Complete, Saved, SavedMeansAll
<1> QED
  BY <1>1, TransfersInv, PTL

\* The page never runs two downloads of one thing.
THEOREM OneOfAKind == Spec => []NotTwice
<1>1. Inv => NotTwice
  BY DEF Inv, Desks, Busy, NotTwice
<1> QED
  BY <1>1, TransfersInv, PTL

\* An entry that says it is going on has a worker that sends its body.
THEOREM StartedRuns == Spec => []StartedIsRunning
<1>1. Inv => StartedIsRunning
  BY DEF Inv, Log, Numbers, Entries, StartedIsRunning
<1> QED
  BY <1>1, TransfersInv, PTL

\* How a transfer ended is written once.
THEOREM FinalStays == Spec => FinalStatusStays
<1> DEFINE Step == \A i \in DOMAIN ring, j \in DOMAIN ring' :
                     ring[i].id = ring'[j].id /\ ring[i].status # "started"
                       => ring'[j].status = ring[i].status
<1>1. Inv /\ [Next]_vars => [Step]_ring
  <2>1. ASSUME Inv, Next
        PROVE  Step
    BY <2>1, LogMoves, FinalKept, TypeOKIs DEF Inv
  <2>2. UNCHANGED vars => ring' = ring
    BY DEF vars, activityVars, log
  <2> HIDE DEF Step
  <2> QED
    BY <2>1, <2>2
<1>2. Spec => [][Step]_ring
  BY <1>1, TransfersInv, PTL DEF Spec
<1> QED
  BY <1>2 DEF FinalStatusStays
=============================================================================
