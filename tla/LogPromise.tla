----------------------------- MODULE LogPromise -----------------------------
(***************************************************************************)
(* What the activity log promises whoever reads it (activity.rs:1-8): no   *)
(* threads, no locks, no ids that are handed out before they are used.     *)
(*                                                                         *)
(* A transfer has one entry.  It appears once, in front of the others,     *)
(* already over or going on; one that goes on is told once how it ended,   *)
(* when it does, wherever it stands by then.  Entries leave only at the    *)
(* back, when there are too many, or all of them, when the log is cleared. *)
(***************************************************************************)
EXTENDS Naturals, Sequences

CONSTANT Cap   \* ACTIVITY_LOG_CAP

VARIABLES
  shown,    \* the log, newest first
  sending,  \* ids of what is going on
  used      \* ids of what has appeared

vars == <<shown, sending, used>>

Newest(s) == [i \in 1..(IF Cap <= Len(s) THEN Cap ELSE Len(s)) |-> s[i]]

Init == shown = <<>> /\ sending = {} /\ used = {}

Appear(id, status) ==
  /\ id \notin used
  /\ used' = used \cup {id}
  /\ sending' = IF status = "started" THEN sending \cup {id} ELSE sending
  /\ shown' = Newest(<<[id |-> id, status |-> status]>> \o shown)

Settle(id, status) ==
  /\ sending' = sending \ {id}
  /\ shown' = [i \in DOMAIN shown |->
                 IF shown[i].id = id THEN [shown[i] EXCEPT !.status = status] ELSE shown[i]]
  /\ UNCHANGED used

Clear ==
  /\ shown' = <<>>
  /\ UNCHANGED <<sending, used>>

Next ==
  \/ \E id \in used', status \in {"started", "ended"} : Appear(id, status)
  \/ \E id \in sending, status \in {"ended", "aborted"} : Settle(id, status)
  \/ Clear

Spec == Init /\ [][Next]_vars

=============================================================================
