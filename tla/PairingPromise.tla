--------------------------- MODULE PairingPromise ---------------------------
(***************************************************************************)
(* What pairing promises, one exchange at a time, with no network in it.   *)
(*                                                                         *)
(* An exchange is open until the person at the responding device accepts   *)
(* it (confirmed) and the initiating device is handed its token (granted). *)
(* Declining, expiry, a restart of the responder or a nonce that does not  *)
(* match its commitment closes it, and closed is final: a closed exchange  *)
(* can never be accepted and never yields a token.  Granted is final too.  *)
(***************************************************************************)
CONSTANT Exch             \* the pairing exchanges

VARIABLE phase            \* Exch -> where the exchange stands

Phases == {"open", "confirmed", "granted", "closed"}

Init == phase = [x \in Exch |-> "open"]

\* The person at the responder accepts.
Confirm(x) ==
  /\ phase[x] = "open"
  /\ phase' = [phase EXCEPT ![x] = "confirmed"]

\* The initiator is handed the token the acceptance minted.
Grant(x) ==
  /\ phase[x] = "confirmed"
  /\ phase' = [phase EXCEPT ![x] = "granted"]

\* Time or a restart ends any number of exchanges at once.
Close(S) ==
  /\ \A x \in S : phase[x] \in {"open", "confirmed"}
  /\ phase' = [x \in Exch |-> IF x \in S THEN "closed" ELSE phase[x]]

Next ==
  \/ \E x \in Exch : Confirm(x) \/ Grant(x)
  \/ \E S \in SUBSET Exch : Close(S)

Spec == Init /\ [][Next]_phase

=============================================================================
