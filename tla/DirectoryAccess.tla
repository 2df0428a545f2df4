-------------------------- MODULE DirectoryAccess --------------------------
(***************************************************************************)
(* What the LDAP directory promises of a connection, whatever happens      *)
(* behind it: it acts under an identity only once that identity has been   *)
(* proven on this very connection, and entries are given only to one on    *)
(* which the service account (LDAP_BIND_DN) has been.                      *)
(***************************************************************************)
CONSTANTS Conns, Identities, Service, Anonymous

VARIABLES
  holder,        \* the identity each connection acts under
  proven,        \* the identities proven on it
  disclosed      \* the connections that were given entries of the directory

vars == <<holder, proven, disclosed>>

Init ==
  /\ holder = [c \in Conns |-> Anonymous]
  /\ proven = [c \in Conns |-> {}]
  /\ disclosed = {}

(* A new connection takes the place of one that is gone.                   *)
Reopen(c) ==
  /\ holder' = [holder EXCEPT ![c] = Anonymous]
  /\ proven' = [proven EXCEPT ![c] = {}]
  /\ disclosed' = disclosed \ {c}

Prove(c, id) ==
  /\ holder' = [holder EXCEPT ![c] = id]
  /\ proven' = [proven EXCEPT ![c] = @ \cup {id}]
  /\ UNCHANGED disclosed

Renounce(c) ==
  /\ holder' = [holder EXCEPT ![c] = Anonymous]
  /\ UNCHANGED <<proven, disclosed>>

Disclose(c) ==
  /\ Service \in proven[c]
  /\ disclosed' = disclosed \cup {c}
  /\ UNCHANGED <<holder, proven>>

Next ==
  \E c \in Conns :
    \/ Reopen(c)
    \/ \E id \in Identities : Prove(c, id)
    \/ Renounce(c)
    \/ Disclose(c)

Spec == Init /\ [][Next]_vars
=============================================================================
