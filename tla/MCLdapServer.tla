--------------------------- MODULE MCLdapServer ---------------------------
(* Instances of LdapServer for TLC.                                        *)
EXTENDS LdapServer, LdapCodec

CONSTANTS c1, c2, w1, w2, alice, service, nobody, home, staff, auth_admins

MCAddressOf == [c \in Conns |-> home]
MCJobs == Conns \X Loops

row ==
  [approved |-> TRUE, expired |-> FALSE, hasEmail |-> TRUE, emailVerified |-> TRUE,
   mfaRequired |-> FALSE, hasPassword |-> TRUE, hasTotp |-> FALSE,
   pendingTotp |-> FALSE, hasPasskeys |-> FALSE, groups |-> {}]

(* Every kind of account, but for factors, of which a bind has one only.   *)
MCAccounts ==
  {[u \in Users |-> r] : r \in
     {[row EXCEPT !.approved = b[1], !.expired = b[2], !.emailVerified = b[3],
                  !.hasEmail = b[4], !.groups = b[5]] :
        b \in BOOLEAN \X BOOLEAN \X BOOLEAN \X BOOLEAN \X SUBSET Groups}}

bind(dn, pw) == [op |-> "bind", dn |-> dn, password |-> pw]
search(root) == [op |-> "search", root |-> root]
only(op) == [op |-> op]

(* What may arrive at once: what an application sends in turn, alone or    *)
(* without waiting for the answer.                                         *)
MCChunks ==
  {<<bind(service, "old")>>, <<bind(service, "wrong")>>, <<bind(service, "unequal")>>,
   <<bind(nobody, "")>>, <<bind(nobody, "wrong")>>,
   <<bind(alice, "old")>>, <<bind(alice, "wrong")>>, <<bind(alice, "old"), only("unbind")>>,
   <<bind(service, "old"), search(FALSE)>>, <<bind(alice, "old"), search(FALSE)>>,
   <<search(TRUE), only("partial")>>, <<only("compare")>>,
   <<only("unusable"), only("malformed")>>}

-----------------------------------------------------------------------------
(* Inputs of LdapCodec.                                                    *)

MCLengths == {0, 1, 2, 126, 127, 128, 129, 254, 255, 256, 257, 65279, 65280, 65530,
              65531, 65532, 65535, 65536}
MCIds == {0, 1, 127, 128, 129, 255, 256, 32767, 32768, 65535, 65536, 8388607, 8388608,
          16777215, 16777216, 2147483646, 2147483647}

upTo(n, chars) == UNION {[1..k -> chars] : k \in 0..n}

(* Names are trimmed where they are entered; those a synchronisation       *)
(* brings are not, and parseDN, which trims, finds none with a space at an *)
(* end: they are left out.                                                 *)
MCNames ==
  {s \in upTo(3, {"a", "A", ",", "+", "=", "\\", " "}) : s # <<>> /\ trim(s) = s}

MCTexts == upTo(4, {"a", "b"}) \cup {<<"A", "b">>, <<"a", "A", "b">>}
MCParts == upTo(2, {"a", "b"}) \cup {<<"A">>}

-----------------------------------------------------------------------------
(***************************************************************************)
(* The server runs with an ordinary account; an input of the codec, and an *)
(* account of another kind, is a behaviour without steps.                  *)
(***************************************************************************)
Still == [kind |-> "account"]

MCInit ==
  /\ Init
  /\ \/ input = NoInput /\ account = [u \in Users |-> row]
     \/ input = Still
     \/ input \in Inputs /\ account = [u \in Users |-> row]

MCNext == input = NoInput /\ Next /\ UNCHANGED input

MCSpec ==
  /\ MCInit /\ [][MCNext]_<<vars, input>>
  /\ \A c \in Conns, i \in Loops : WF_vars(input = NoInput /\ LoopStep(c, i) /\ UNCHANGED input)
=============================================================================
