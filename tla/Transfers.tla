----------------------------- MODULE Transfers -----------------------------
(***************************************************************************)
(* Files that arrive: uploads into an inbox (routes.rs) and downloads from *)
(* a paired device (tasks.rs), with the task table, the page's list of     *)
(* downloads (ui/app.js) and the activity log.                             *)
(*                                                                         *)
(* Each transfer runs on its own thread.  All of them write here into one  *)
(* folder and want one name, the case in which they can get in each        *)
(* other's way: a name is found free before the file is created, and       *)
(* creating a file that is there empties it.                               *)
(***************************************************************************)
EXTENDS Activity

CONSTANTS
  Workload,    \* what the workers may be given to do
  MaxFiles,    \* files of one upload or download, responses of one sender
  MaxVariant,  \* how many names unique_destination tries; 999 in the code
  Host,        \* a file that was in the folder before
  Mixed,       \* what two writers of one file leave in it
  Free         \* no file

File == Worker \X (1..MaxFiles)
Slot == 1..MaxVariant   \* "name", "name (2)", ...
Kind == {"upload", "files", "zip", "archive", "send", "event"}

Workloads ==
  [does : [Worker -> [kind : Kind, files : 0..MaxFiles, dedupe : BOOLEAN, key : Nat]],
   host : BOOLEAN, tab : BOOLEAN]

ASSUME TransfersAssumption ==
  /\ MaxFiles \in Nat \ {0} /\ MaxVariant \in Nat \ {0}
  /\ Workload \subseteq Workloads
  /\ Host \notin File /\ Mixed \notin File /\ Free \notin File
  /\ Host # Mixed /\ Host # Free /\ Mixed # Free

VARIABLES
  workload, \* what there is to do
  dir,      \* Slot -> the file that has the name
  content,  \* file -> whose bytes are in it, and whether all of them are
  wk,       \* Worker -> where it is: its file's number, name and handle
  fate,     \* Worker -> file number -> what became of the file
  task,     \* Worker -> the download's entry in the task table
  flag,     \* Worker -> its cancel flag
  row       \* Worker -> the download's row on the page

disk  == <<dir, content>>
desk  == <<task, flag, row>>
vars  == <<activityVars, workload, disk, wk, fate, desk>>

-----------------------------------------------------------------------------
(* What the state is made of. *)

Kd(w) == workload.does[w].kind
Downloads(w) == Kd(w) \in {"files", "zip", "archive"}
Uploads(w)   == Kd(w) = "upload"
Me(w) == <<w, wk[w].n>>
At(w, pcs) == wk[w].pc \in pcs

Idle == [pc |-> "idle", n |-> 1, slot |-> 0, ino |-> Free]
Pc   == {"idle", "peek", "list", "next", "picked", "open", "stalled", "done"}

Init ==
  /\ ActivityInit
  /\ workload \in Workload
  /\ tab = workload.tab
  /\ dir = [s \in Slot |-> IF s = 1 /\ workload.host THEN Host ELSE Free]
  /\ content = [f \in File \cup {Host} |-> [by |-> f, whole |-> f = Host]]
  /\ wk = [w \in Worker |-> IF workload.does[w].files = 0 THEN [Idle EXCEPT !.pc = "done"] ELSE Idle]
  /\ fate = [w \in Worker |-> [n \in 1..MaxFiles |-> [end |-> "none", raced |-> FALSE, cut |-> FALSE]]]
  /\ task = [w \in Worker |-> "none"]
  /\ flag = [w \in Worker |-> FALSE]
  /\ row = [w \in Worker |-> "none"]

\* The worker leaves its file: it goes on to the next one, or it is done.
Done(w) == wk' = [wk EXCEPT ![w] = [Idle EXCEPT !.pc = "done", !.n = wk[w].n]]
Onward(w) ==
  IF wk[w].n = workload.does[w].files THEN Done(w)
  ELSE wk' = [wk EXCEPT ![w] = [Idle EXCEPT !.pc = "next", !.n = wk[w].n + 1]]

Ends(w, end) == fate' = [fate EXCEPT ![w][wk[w].n].end = end]

\* finish_download_task.
TaskEnds(w, verdict) == task' = [task EXCEPT ![w] = verdict] /\ UNCHANGED <<flag, row>>

RefuseOn(w) ==   \* mutant
  /\ Onward(w)
  /\ IF Uploads(w) \/ wk[w].n # workload.does[w].files THEN UNCHANGED desk
     ELSE TaskEnds(w, "failed")

\* An upload rejects the file and goes on; a download fails.
Refuse(w) ==
  IF Uploads(w) THEN Onward(w) /\ UNCHANGED desk
  ELSE Done(w) /\ TaskEnds(w, "failed")

-----------------------------------------------------------------------------
(* The page: startNetDownload, the cancel button and pollNetDownload. *)

AskRows(w) ==   \* mutant
  /\ At(w, {"idle"}) /\ Downloads(w)
  /\ \A v \in Worker \ {w} : workload.does[v].key = workload.does[w].key => row[v] # "going"
  /\ wk' = [wk EXCEPT ![w].pc = "peek"]
  /\ UNCHANGED <<activityVars, workload, disk, fate, desk>>

\* Neither under way nor being asked for (downloadStarting).
Ask(w) ==
  /\ At(w, {"idle"}) /\ Downloads(w)
  /\ \A v \in Worker \ {w} :
       workload.does[v].key = workload.does[w].key => row[v] # "going" /\ ~At(v, {"peek"})
  /\ wk' = [wk EXCEPT ![w].pc = "peek"]
  /\ UNCHANGED <<activityVars, workload, disk, fate, desk>>

\* The user is asked when the name is taken, and may leave it at that; or the
\* command fails.
NotStarted(w) ==
  /\ At(w, {"peek"})
  /\ wk' = [wk EXCEPT ![w].pc = "idle"]
  /\ UNCHANGED <<activityVars, workload, disk, fate, desk>>

\* A folder as an archive is one request; otherwise folders are listed first.
StartTask(w) ==
  /\ At(w, {"peek"})
  /\ wk' = [wk EXCEPT ![w].pc = IF Kd(w) = "archive" THEN "next" ELSE "list"]
  /\ task' = [task EXCEPT ![w] = "running"]
  /\ flag' = [flag EXCEPT ![w] = FALSE]
  /\ row' = [row EXCEPT ![w] = "going"]
  /\ UNCHANGED <<activityVars, workload, disk, fate>>

Cancel(w) ==
  /\ row[w] = "going" /\ ~flag[w]
  /\ flag' = [flag EXCEPT ![w] = TRUE]
  /\ UNCHANGED <<activityVars, workload, disk, wk, fate, task, row>>

\* The row is told how it ended, and the entry and the flag are dropped.
PollTask(w) ==
  /\ row[w] = "going" /\ task[w] \in {"saved", "failed"}
  /\ row' = [row EXCEPT ![w] = task[w]]
  /\ task' = [task EXCEPT ![w] = "none"]
  /\ flag' = [flag EXCEPT ![w] = FALSE]
  /\ UNCHANGED <<activityVars, workload, disk, wk, fate>>

-----------------------------------------------------------------------------
(* Before a file: the listing, and the fields of an upload. *)

Listed(w) ==
  /\ At(w, {"list"})
  /\ wk' = [wk EXCEPT ![w].pc = "next"]
  /\ UNCHANGED <<activityVars, workload, disk, fate, desk>>

\* The listing fails, or the user cancels: between two listings, or between two
\* files.
Quits(w) ==
  /\ \/ At(w, {"list"})
     \/ At(w, {"next"}) /\ Kd(w) = "files" /\ flag[w]
  /\ Done(w)
  /\ TaskEnds(w, "failed")
  /\ UNCHANGED <<activityVars, workload, disk, fate>>

UploadStarts(w) ==
  /\ At(w, {"idle"}) /\ Uploads(w)
  /\ wk' = [wk EXCEPT ![w].pc = "next"]
  /\ UNCHANGED <<activityVars, workload, disk, fate, desk>>

\* A field without a proper name is passed over; one whose place cannot be
\* resolved is logged.
SkipField(w) ==
  /\ At(w, {"next"}) /\ Uploads(w) /\ rec[w].pc = "none"
  /\ Onward(w)
  /\ \/ UNCHANGED activityVars
     \/ TakeId(w, "ended")
  /\ UNCHANGED <<workload, disk, fate, desk>>

-----------------------------------------------------------------------------
(* Choosing a name and creating the file: two steps. *)

\* Without upload_dedupe_names only the name itself will do.
Names(w) == IF Uploads(w) /\ ~workload.does[w].dedupe THEN {1} ELSE Slot

MayPick(w) ==
  /\ At(w, {"next"}) /\ (Downloads(w) \/ Uploads(w))
  /\ rec[w].pc = "none"
  /\ ~(Kd(w) = "files" /\ flag[w])

AnyName(w) == {s \in Names(w) : \A t \in 1..(s - 1) : dir[t] # Free}   \* mutant

FirstFree(w) == {s \in Names(w) : dir[s] = Free /\ \A t \in 1..(s - 1) : dir[t] # Free}

\* Two workers that hold one name at a time are in each other's way.
Race(w, s) ==
  LET them == {v \in Worker \ {w} : wk[v].slot = s}
      us   == IF them = {} THEN {} ELSE them \cup {w}
  IN  [v \in Worker |-> IF v \in us THEN [fate[v] EXCEPT ![wk[v].n].raced = TRUE] ELSE fate[v]]

PickName(w) ==
  /\ MayPick(w)
  /\ \E s \in FirstFree(w) :
       /\ wk' = [wk EXCEPT ![w].pc = "picked", ![w].slot = s]
       /\ fate' = Race(w, s)
  /\ UNCHANGED <<activityVars, workload, disk, desk>>

NoName(w) ==
  /\ MayPick(w) /\ FirstFree(w) = {}
  /\ Refuse(w)
  /\ UNCHANGED <<activityVars, workload, disk, fate>>

\* File::create empties the file that has the name.
CreateFile(w) ==
  LET s == wk[w].slot
      f == IF dir[s] = Free THEN Me(w) ELSE dir[s]
  IN  /\ At(w, {"picked"})
      /\ dir' = [dir EXCEPT ![s] = f]
      /\ content' = [content EXCEPT ![f] = [by |-> Me(w), whole |-> FALSE]]
      /\ wk' = [wk EXCEPT ![w].pc = "open", ![w].ino = f]
      /\ UNCHANGED <<activityVars, workload, fate, desk>>

CreateFails(w) ==
  /\ At(w, {"picked"})
  /\ Refuse(w)
  /\ UNCHANGED <<activityVars, workload, disk, fate>>

-----------------------------------------------------------------------------
(* Filling it. *)

GiveUpHalf(w) ==   \* mutant
  /\ Ends(w, "gone")
  /\ Refuse(w)
  /\ UNCHANGED <<activityVars, workload, disk>>

\* The half-written file is removed, by its name.
GiveUp(w) ==
  /\ dir' = [dir EXCEPT ![wk[w].slot] = Free]
  /\ Ends(w, "gone")
  /\ Refuse(w)
  /\ UNCHANGED <<activityVars, workload, content>>

Write(w) ==
  /\ content' = [content EXCEPT ![wk[w].ino] =
                   IF @.by = Me(w) THEN @ ELSE [by |-> Mixed, whole |-> FALSE]]
  /\ UNCHANGED <<activityVars, workload, dir, wk, fate, desk>>

ChunkOn(w) == At(w, {"open"}) /\ Write(w)   \* mutant

\* A download looks at its cancel flag when a chunk is here.
Chunk(w) ==
  /\ At(w, {"open"})
  /\ IF flag[w] THEN GiveUp(w) ELSE Write(w)

WriteFails(w) ==
  /\ At(w, {"open"}) /\ ~flag[w]
  /\ GiveUp(w)

\* The file is taken to be complete.
Keep(w, cut) ==
  /\ fate' = [fate EXCEPT ![w][wk[w].n].end = "kept", ![w][wk[w].n].cut = cut]
  /\ content' = [content EXCEPT ![wk[w].ino].whole = @ \/ (content[wk[w].ino].by = Me(w) /\ ~cut)]
  /\ IF Uploads(w) THEN TakeId(w, "ended") /\ UNCHANGED desk
     ELSE /\ UNCHANGED activityVars
          /\ IF wk[w].n = workload.does[w].files THEN TaskEnds(w, "saved") ELSE UNCHANGED desk
  /\ UNCHANGED <<workload, dir>>

StreamEnds(w) ==
  /\ At(w, {"open"})
  /\ Keep(w, FALSE)
  /\ Onward(w)

BreakKeeps(w) ==   \* mutant
  /\ At(w, {"open", "stalled"})
  /\ Keep(w, TRUE)
  /\ Onward(w)

\* The connection breaks.  A download gives up; for an upload the stream is at
\* its end, as it is when the body has reached its limit.
StreamBreaks(w) ==
  \/ Downloads(w) /\ At(w, {"open", "stalled"}) /\ GiveUp(w)
  \/ Uploads(w) /\ At(w, {"open"}) /\ Keep(w, TRUE) /\ Done(w)

\* The other device cannot read a file it is packing: the archive it streams
\* ends there as if it were complete.
ArchiveCut(w) ==
  /\ At(w, {"open"}) /\ Kd(w) = "archive"
  /\ Keep(w, TRUE)
  /\ Onward(w)

\* The other device is gone without a word.  Nothing times out.
Vanish(w) ==
  /\ At(w, {"open"}) /\ Downloads(w)
  /\ wk' = [wk EXCEPT ![w].pc = "stalled"]
  /\ UNCHANGED <<activityVars, workload, disk, fate, desk>>

\* What is left in the buffer cannot be written: the download fails, and the
\* file stays.
FlushFails(w) ==
  /\ At(w, {"open"}) /\ Downloads(w)
  /\ Ends(w, "left")
  /\ Refuse(w)
  /\ UNCHANGED <<activityVars, workload, disk>>

\* The connection's task is dropped while the handler awaits.
HandlerDropped(w) ==
  /\ Uploads(w)
  /\ At(w, {"open"}) \/ (At(w, {"next"}) /\ rec[w].pc = "none")
  /\ Done(w)
  /\ UNCHANGED <<activityVars, workload, disk, fate, desk>>

-----------------------------------------------------------------------------
(* The rest of what is logged: responses with a body (serve_resolved,       *)
(* serve_zip) and point events (log_event).                                *)

Respond(w) ==
  /\ At(w, {"idle", "next"}) /\ Kd(w) \in {"send", "event"}
  /\ TakeId(w, IF Kd(w) = "send" THEN "started" ELSE "ended")
  /\ Onward(w)
  /\ UNCHANGED <<workload, disk, fate, desk>>

LogStep(w) ==
  /\ Push(w) \/ DropBody(w) \/ BodyEnds(w)
  /\ UNCHANGED <<workload, disk, wk, fate, desk>>

PageStep ==
  /\ ClearRing \/ ClearRows \/ \E p \in Poll : PollStep(p)
  /\ UNCHANGED <<workload, disk, wk, fate, desk>>

\* Everything that was to be done has been.
Over ==
  /\ \A w \in Worker : At(w, {"done"}) /\ rec[w].pc = "none" /\ row[w] # "going"
  /\ UNCHANGED vars

-----------------------------------------------------------------------------
(* The specification. *)

Moves(w) == \/ Listed(w) \/ Quits(w) \/ PickName(w) \/ NoName(w) \/ CreateFile(w)
            \/ CreateFails(w)

Next ==
  \/ \E w \in Worker :
       \/ Ask(w) \/ NotStarted(w) \/ StartTask(w) \/ Cancel(w) \/ PollTask(w)
       \/ UploadStarts(w) \/ SkipField(w) \/ Moves(w)
       \/ Chunk(w) \/ WriteFails(w) \/ StreamEnds(w) \/ StreamBreaks(w) \/ ArchiveCut(w)
       \/ Vanish(w) \/ FlushFails(w) \/ HandlerDropped(w)
       \/ Respond(w) \/ LogStep(w)
  \/ PageStep
  \/ Over

\* A thread that can go on does, chunks arrive while the other device is there,
\* and the page's timers go on.
Runs(w) == Moves(w) \/ Chunk(w) \/ PollTask(w)
Reads   == (ClearRows \/ \E p \in Poll : PollStep(p)) /\ UNCHANGED <<workload, disk, wk, fate, desk>>

Fairness == WF_vars(Reads) /\ \A w \in Worker : WF_vars(Runs(w))

Spec == Init /\ [][Next]_vars /\ Fairness

-----------------------------------------------------------------------------
(* Properties. *)

TypeOK ==
  /\ ActivityTypeOK
  /\ workload \in Workload
  /\ dir \in [Slot -> File \cup {Host, Free}]
  /\ content \in [File \cup {Host} -> [by : File \cup {Host, Mixed}, whole : BOOLEAN]]
  /\ wk \in [Worker -> [pc : Pc, n : 1..MaxFiles, slot : 0..MaxVariant, ino : File \cup {Host, Free}]]
  /\ fate \in [Worker -> [1..MaxFiles ->
        [end : {"none", "kept", "gone", "left"}, raced : BOOLEAN, cut : BOOLEAN]]]
  /\ task \in [Worker -> {"none", "running", "saved", "failed"}]
  /\ flag \in [Worker -> BOOLEAN]
  /\ row \in [Worker -> {"none", "going", "saved", "failed"}]

\* A file that was in the folder keeps its name and its bytes, whatever arrives
\* under the same name, fails and is removed (routes.rs:1288, utils.rs:97).
HostFileStands ==
  workload.host => dir[1] = Host /\ content[Host] = [by |-> Host, whole |-> TRUE]

\* A file that is reported as saved is in the folder and complete, with no byte
\* of another, and stays so while other transfers fail and remove theirs.  The
\* code makes two exceptions: another transfer held its name at the same time,
\* and an upload or an archive whose stream was cut short.
MayBeShort(f) == fate[f[1]][f[2]].cut /\ Kd(f[1]) \in {"upload", "archive"}

DoneIsWhole ==
  \A f \in File :
    LET it == fate[f[1]][f[2]]
    IN  it.end = "kept" /\ ~it.raced /\ ~MayBeShort(f) =>
          \E s \in Slot : dir[s] = f /\ content[f] = [by |-> f, whole |-> TRUE]

\* A download that is told to be saved has saved every file it was to fetch:
\* one that is refused, breaks off or is cancelled fails all of it, whatever was
\* saved before and however late the page asks (tasks.rs:2073-2107).
SavedMeansAll ==
  \A w \in Worker :
    task[w] = "saved" \/ row[w] = "saved" =>
      \A n \in 1..workload.does[w].files : fate[w][n].end = "kept"

\* What was given up for an error of the network or the disk, or because the
\* user cancelled, is not in the folder (tasks.rs:2211).
NoHalfFileKept ==
  \A f \in File : fate[f[1]][f[2]].end = "gone" => \A s \in Slot : dir[s] # f

\* The page never runs two downloads of the same thing, however the user's
\* clicks and the awaits of the start cross (ui/app.js:2650).
NotTwice ==
  \A v, w \in Worker :
    v # w /\ task[v] = "running" /\ task[w] = "running" => workload.does[v].key # workload.does[w].key

\* A cancelled download ends and its row is told, unless the other device has
\* gone without a word: then nothing ends it.
CancelledEnds ==
  \A w \in Worker : row[w] = "going" /\ flag[w] ~> row[w] # "going" \/ At(w, {"stalled"})
=============================================================================
