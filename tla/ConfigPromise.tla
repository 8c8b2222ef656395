--------------------------- MODULE ConfigPromise ---------------------------
(***************************************************************************)
(* What mutate_config promises of the configuration (tasks.rs:225): one    *)
(* register, which every command changes once, by its own effect and from  *)
(* what is served at that moment.  No files, no steps of a save, no ids.   *)
(*                                                                         *)
(* It has three ways out, and they are the code's.  A save that fails or   *)
(* is interrupted can lose the file; what starts next then starts from     *)
(* nothing.  The settings form changes the page's copy, not the register.  *)
(* And a pairing stores its peer behind the register's back.               *)
(***************************************************************************)
EXTENDS Naturals

CONSTANTS Share, Peer, NoShare

VARIABLES
  served,      \* what the live state serves
  copy,        \* what the page takes it to be
  asked,       \* the command at work, or "none"
  next,        \* what that command will have served
  lost,        \* there is no file to read
  parted       \* a pairing has stored a peer

vars == <<served, copy, asked, next, lost, parted>>

Nothing == [shares |-> [s \in Share |-> 0], inbox |-> NoShare, claims |-> {}, peers |-> {}]

\* At most one share is the inbox, and it says so itself.
Tidy(c) == c.claims = {c.inbox} \ {NoShare}

Init ==
  /\ Tidy(served)
  /\ copy = served
  /\ asked = "none"
  /\ next = Nothing
  /\ ~parted

-----------------------------------------------------------------------------
(* Effects: c becomes d. *)

Without(c, s) == [shares |-> [c.shares EXCEPT ![s] = 0], claims |-> c.claims \ {s},
                  inbox |-> IF c.inbox = s THEN NoShare ELSE c.inbox, peers |-> c.peers]

Effect(cmd, c, d) ==
  CASE cmd = "add" -> \E s \in Share : c.shares[s] = 0 /\ d = [c EXCEPT !.shares[s] = 1]
    [] cmd = "remove" -> \E s \in Share : c.shares[s] # 0 /\ d = Without(c, s)
    [] cmd = "regenerate" ->
         \E s \in Share : /\ c.shares[s] # 0
                          /\ d.shares[s] > c.shares[s] /\ d.shares[s] > copy.shares[s]
                          /\ d = [c EXCEPT !.shares[s] = d.shares[s]]
    [] cmd = "unpair" -> \E p \in c.peers : d = [c EXCEPT !.peers = @ \ {p}]
    [] cmd \in {"update", "pin", "other"} -> d = c
    [] cmd \in {"settings", "folder"} ->
         /\ d.shares = copy.shares /\ d.peers = copy.peers
         /\ Tidy(d) /\ d.inbox \in copy.claims \cup {NoShare}

Source == IF lost THEN Nothing ELSE served

-----------------------------------------------------------------------------

Ask(cmd) ==
  /\ asked = "none"
  /\ asked' = cmd
  /\ Effect(cmd, Source, next')
  /\ UNCHANGED <<served, copy, lost, parted>>

\* The command returns, and its effect is served; the page keeps what it sent.
Done ==
  /\ asked # "none"
  /\ served' = next
  /\ IF asked \in {"settings", "folder"}
     THEN \E s \in Share \cup {NoShare} : copy' = [copy EXCEPT !.inbox = s]
     ELSE copy' = copy
  /\ asked' = "none"
  /\ next' = Nothing
  /\ UNCHANGED <<lost, parted>>

\* The command returns an error and nothing has changed.
Fail ==
  /\ asked # "none"
  /\ asked' = "none"
  /\ next' = Nothing
  /\ UNCHANGED <<served, copy, lost, parted>>

\* A save empties the file; only that of a command fills it again.
Tear == lost' = TRUE /\ UNCHANGED <<served, copy, asked, next, parted>>
Write ==
  /\ asked # "none"
  /\ lost' = FALSE
  /\ UNCHANGED <<served, copy, asked, next, parted>>

Read ==
  /\ asked = "none"
  /\ copy' = Source
  /\ UNCHANGED <<served, asked, next, lost, parted>>

\* After a restart the effect of the command at work is there whole or not at
\* all, unless the file was lost.
Restart ==
  /\ served' \in IF lost \/ asked = "none" THEN {Source} ELSE {served, next}
  /\ copy' = served'
  /\ asked' = "none"
  /\ next' = Nothing
  /\ UNCHANGED <<lost, parted>>

\* A pairing stores its peer; from then on the file and the register differ.
Part == parted' /\ UNCHANGED <<served, copy, asked, next>>

Next ==
  \/ ~parted /\ \/ \E cmd \in {"add", "remove", "regenerate", "update", "unpair", "pin",
                              "other", "settings", "folder"} : Ask(cmd)
                \/ Done \/ Fail \/ Tear \/ Write \/ Read \/ Restart \/ Part
  \/ parted /\ parted'

Spec == Init /\ [][Next]_vars

=============================================================================
