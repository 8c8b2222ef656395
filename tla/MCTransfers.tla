---------------------------- MODULE MCTransfers ----------------------------
(***************************************************************************)
(* Three workers and one folder: two downloads of two files each; one      *)
(* download asked for twice beside an upload; an archive packed here and   *)
(* one packed there; uploads with and without upload_dedupe_names; a log   *)
(* of four entries; and the page's copy of a log of two.                   *)
(***************************************************************************)
EXTENDS Transfers, TLC

Three == {"w1", "w2", "w3"}

Does(kind, files, key) == [kind |-> kind, files |-> files, dedupe |-> TRUE, key |-> key]
Nothing == Does("send", 0, 0)
Exact == [Does("upload", 1, 0) EXCEPT !.dedupe = FALSE]
All(a, b, c, host, shown) ==
  [does |-> ("w1" :> a @@ "w2" :> b @@ "w3" :> c), host |-> host, tab |-> shown]

MCWorkload ==
  { All(Does("files", 2, 1), Does("files", 2, 2), Nothing, TRUE, FALSE),
    All(Does("files", 1, 1), Does("files", 1, 1), Does("upload", 1, 0), TRUE, FALSE),
    All(Does("zip", 1, 1), Does("archive", 1, 2), Nothing, FALSE, FALSE),
    All(Exact, Exact, Does("upload", 1, 0), FALSE, FALSE),
    All(Does("upload", 2, 0), Does("send", 1, 0), Does("event", 1, 0), FALSE, FALSE),
    All(Does("send", 1, 0), Does("event", 1, 0), Nothing, TRUE, TRUE) }
=============================================================================
