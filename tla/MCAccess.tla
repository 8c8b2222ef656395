------------------------------ MODULE MCAccess ------------------------------
(***************************************************************************)
(* One share and two requests at a time from one address, for TLC.         *)
(***************************************************************************)
EXTENDS Access, TLC

CONSTANTS addr, r1, r2, i1

SameAddress == [r \in Request |-> addr]

\* One visitor uses every route, and another at the same address types PINs.
Visitors == (r1 :> Kind) @@ (r2 :> {"pin"})

\* Everything on, and everything off: one command turns any switch either way.
OnAndOff ==
  {[settings |-> [pinOn |-> on, pin |-> 1, browse |-> on],
    registry |-> [token |-> [s \in Share |-> 1], enabled |-> IF on THEN Share ELSE {}],
    peer |-> IF on THEN "paired" ELSE "blocked"] : on \in BOOLEAN}

\* Two bounds on what goes on at once.  A PIN typed by the second visitor alone
\* stands for one typed by the first alone.  And no PIN is checked, or failure on
\* record, while a play link works: no code reads both.
OneThingAtATime ==
  /\ req[r1].kind = "pin" => req[r2].kind = "pin"
  /\ plays # <<>> => /\ \A r \in Request : req[r].kind # "pin"
                     /\ \A a \in Addr : attempts[a] = NoAttempts
=============================================================================
