---------------------------- MODULE OneTimeCodes ----------------------------
(***************************************************************************)
(* What a verifier of one-time codes promises: the codes an authenticator  *)
(* logs in with are ever newer, so that none of them works a second time.  *)
(***************************************************************************)
EXTENDS Integers, Sequences

CONSTANTS
  Authenticators,
  Timesteps

VARIABLE log        \* the logins, as <<authenticator, timestep of the code>>

Init == log = <<>>

Accept(a, timestep) ==
  /\ \A i \in DOMAIN log : log[i][1] = a => log[i][2] < timestep
  /\ log' = Append(log, <<a, timestep>>)

Next == \E a \in Authenticators, timestep \in Timesteps : Accept(a, timestep)

Spec == Init /\ [][Next]_log
=============================================================================
