--------------------------- MODULE MCConfigStore ---------------------------
(***************************************************************************)
(* One device, one share and at most one pairing, for TLC.                 *)
(***************************************************************************)
EXTENDS ConfigStore

\* Where a run looks for what goes wrong without any overlap of two writers:
\* no command is at work while a pairing stores its peer.
OneWriterAtATime ==
  main.pc # "idle" => \A p \in Peer : store[p].pc \notin {"loaded", "cut"}
=============================================================================
