----------------------------- MODULE KeyLifecycle -----------------------------
(***************************************************************************)
(* The keys VoidAuth signs tokens and cookies with (db/key.ts), the        *)
(* provider that is built from them and from the custom claims and swapped *)
(* while the server runs (oidc/provider.ts), the maintenance that renews   *)
(* keys and re-encrypts what is stored (cli/server.ts,                     *)
(* db/tableMaintenance.ts), and the clients whose secrets are encrypted as *)
(* well.  A handler and a maintenance run are transactions, atomic on      *)
(* SQLite; the provider is memory, which no rollback undoes.               *)
(***************************************************************************)
EXTENDS Naturals, FiniteSets

CONSTANTS
  KeyIds,
  KindOf,              \* [KeyIds -> {"jwk", "cookie"}]
  KEY_TTL, TOKEN_TTL,  \* in ticks
  Claims,              \* names of custom claims
  Clients,
  RotationBound,       \* how often STORAGE_KEY changes
  EditBound,           \* how often an administrator saves claims and clients
  StopBound,           \* how often the server stops
  FaultBound           \* how many transactions end in an error

ASSUME KeyAssumption ==
  /\ KEY_TTL \in Nat /\ TOKEN_TTL \in Nat /\ 2 * TOKEN_TTL < KEY_TTL
  /\ {RotationBound, EditBound, StopBound, FaultBound} \subseteq Nat

VARIABLES
  keys,       \* rows of table key: id, ticks until expiresAt (left; 0 is expired),
              \* and by which STORAGE_KEY, by its number, they are encrypted
  claims,     \* names in table custom_claim
  clients,    \* clients with a secret, and by which STORAGE_KEY it is encrypted
  server,     \* the process: STORAGE_KEY, and the keys and claims of its provider
  signed,     \* [KeyIds -> ticks until the last token signed with it expires]
  undone,     \* keys the provider was given by a transaction that ended in an error
  due,        \* no maintenance run has succeeded in this tick and process
  rotated,    \* STORAGE_KEY has changed, and no maintenance run was committed since
  touched,    \* an administrator has saved something, and neither was one since
  edits, faults

keyVars == <<keys, claims, clients, server, signed, undone, due, rotated, touched, edits, faults>>

Kinds == {KindOf[k] : k \in KeyIds}
StorageKeys == 0..RotationBound

KeysTypeOK ==
  /\ keys \subseteq [id : KeyIds, left : 0..KEY_TTL, by : StorageKeys]
  /\ \A a, b \in keys : a.id = b.id => a = b
  /\ claims \subseteq Claims
  /\ clients \subseteq [id : Clients, by : StorageKeys]
  /\ server \in [up : BOOLEAN, stops : 0..StopBound, storageKey : StorageKeys,
                 keys : SUBSET [id : KeyIds, left : 0..KEY_TTL], claims : SUBSET Claims]
  /\ signed \in [KeyIds -> 0..TOKEN_TTL] /\ undone \subseteq KeyIds
  /\ {due, rotated, touched} \subseteq BOOLEAN /\ edits \in 0..EditBound /\ faults \in 0..FaultBound

(* STORAGE_KEY_SECONDARY is the STORAGE_KEY before the present one.        *)
opens(s, by) == by \in {s, s - 1}

(* The tables, as one value: what a transaction reads and writes.          *)
Tables == [keys |-> keys, claims |-> claims, clients |-> clients]
ids(rows) == {r.id : r \in rows}

(* getJWKs, getCookieKeys: not expired, and decrypted.                     *)
usable(t, s) == {r \in t.keys : r.left > 0 /\ opens(s, r.by)}

(* Mistaken: as long as a key is valid at all.                             *)
needUpdateAtEnd(t, s, kind) ==
  ~\E r \in usable(t, s) : KindOf[r.id] = kind

(* cookieKeysNeedUpdate, jwksNeedUpdate: no key has half its life left.    *)
needUpdate(t, s, kind) ==
  ~\E r \in usable(t, s) : KindOf[r.id] = kind /\ 2 * r.left >= KEY_TTL

keysNeedUpdate(t, s) == \E kind \in Kinds : needUpdate(t, s, kind)

(* The ids of new keys are random, and nothing is left of those that were. *)
unusedKeys(kind) ==
  {k \in KeyIds \ ids(keys \cup server.keys) : KindOf[k] = kind /\ signed[k] = 0}

freshKey(kind) == CHOOSE k \in unusedKeys(kind) : TRUE

(* The bound on keys: KeyIds do not run out.                               *)
keyIdsSuffice(t, s) == \A kind \in Kinds : needUpdate(t, s, kind) => unusedKeys(kind) # {}

(* makeKeysValid: a new key of each kind that needs one.                   *)
makeKeysValid(t, s) ==
  [t EXCEPT !.keys = @ \cup {[id |-> freshKey(kind), left |-> KEY_TTL, by |-> s] :
                               kind \in {kind \in Kinds : needUpdate(t, s, kind)}}]

(* Mistaken: a claim that is gone does no harm.                            *)
desyncedIfMissing(t, p) == ~(t.claims \subseteq p.claims)

(* isProviderClaimsDesynced.                                               *)
desynced(t, p) == t.claims # p.claims

(* getNextConfig and createProvider, once keys are made valid: the         *)
(* provider takes over what the tables hold.                               *)
provided(p, t) ==
  [p EXCEPT !.keys = {[id |-> r.id, left |-> r.left] : r \in usable(t, p.storageKey)},
            !.claims = t.claims]

(* A transaction ends: its writes are kept, unless an error undoes them,   *)
(* which happens FaultBound times.  The provider it has built stays, with  *)
(* keys that then have no row.                                             *)
Ended(t, p) ==
  /\ server' = p
  /\ \/ /\ keys' = t.keys /\ claims' = t.claims /\ clients' = t.clients
        /\ undone' = undone \ ids(t.keys)
        /\ UNCHANGED faults
     \/ /\ faults < FaultBound /\ faults' = faults + 1
        /\ undone' = undone \cup (ids(t.keys) \ ids(keys))
        /\ UNCHANGED <<keys, claims, clients>>

(* A reset, if it is called for; without one the transaction is what it was. *)
EndedWithReset(t, needed) ==
  \/ /\ needed /\ keyIdsSuffice(t, server.storageKey)
     /\ \E valid \in {makeKeysValid(t, server.storageKey)} : Ended(valid, provided(server, valid))
  \/ ~needed /\ Ended(t, server)

-----------------------------------------------------------------------------
(* The provider signs with the first of its keys, the one that expires     *)
(* last (the order getJWKs gives them in).                                 *)
signingKeys(kind) ==
  {r \in server.keys : KindOf[r.id] = kind
                        /\ \A q \in server.keys : KindOf[q.id] = kind => q.left <= r.left}

Signed(kind) ==
  /\ server.up
  /\ \E r \in signingKeys(kind) : signed' = [signed EXCEPT ![r.id] = TOKEN_TTL]
  /\ UNCHANGED <<keys, claims, clients, server, undone, due, rotated, touched, edits, faults>>

less(n) == IF n = 0 THEN 0 ELSE n - 1
aged(rows) == {[r EXCEPT !.left = less(@)] : r \in rows}

(* Time passes.  A tick is far longer than the ten minutes between two     *)
(* maintenance runs: of those that fall into it, one succeeds.             *)
Tick ==
  /\ server.up => ~due
  /\ keys' = aged(keys)
  /\ server' = [server EXCEPT !.keys = aged(@)]
  /\ signed' = [k \in KeyIds |-> less(signed[k])]
  /\ due' = server.up
  /\ UNCHANGED <<claims, clients, undone, rotated, touched, edits, faults>>

(* clearAllExpiredEntries and updateEncryptedTables.                       *)
expiredCleared(t) == [t EXCEPT !.keys = {r \in @ : r.left > 0}]

recoded(rows, s) == {IF opens(s, r.by) THEN [r EXCEPT !.by = s] ELSE r : r \in rows}

(* Mistaken: clients are not re-encrypted.                                 *)
reEncryptedKeys(t, s) == [t EXCEPT !.keys = recoded(@, s)]

reEncrypted(t, s) == [t EXCEPT !.keys = recoded(@, s), !.clients = recoded(@, s)]

(* doMaintenance, from the timer or at the start of the server.            *)
Maintained ==
  LET s == server.storageKey
  IN /\ server.up /\ due
     /\ \E t \in {reEncrypted(expiredCleared(Tables), s)} :
          EndedWithReset(t, keysNeedUpdate(t, s) \/ desynced(t, server))
     /\ due' = (faults' # faults)
     /\ rotated' = (rotated /\ due') /\ touched' = (touched /\ due')
     /\ UNCHANGED <<signed, edits>>

(* The process ends, between two transactions: one under way is undone.    *)
Stopped ==
  /\ server.up /\ server.stops < StopBound
  /\ server' = [server EXCEPT !.up = FALSE, !.stops = @ + 1, !.keys = {}, !.claims = {}]
  /\ due' = FALSE
  /\ UNCHANGED <<keys, claims, clients, signed, undone, rotated, touched, edits, faults>>

(* It is started, with the same STORAGE_KEY or, if the last change of it   *)
(* has been worked off, with a new one.  The module oidc/provider builds   *)
(* the first provider outside any transaction; a maintenance run follows.  *)
Started(s) ==
  /\ ~server.up
  /\ s = server.storageKey \/ (s = server.storageKey + 1 /\ ~rotated)
  /\ keyIdsSuffice(Tables, s)
  /\ \E t \in {makeKeysValid(Tables, s)} :
       /\ server' = provided([server EXCEPT !.up = TRUE, !.storageKey = s], t)
       /\ keys' = t.keys
       /\ undone' = undone \ ids(t.keys)
  /\ due' = TRUE
  /\ rotated' = (rotated \/ s # server.storageKey)
  /\ UNCHANGED <<claims, clients, signed, touched, edits, faults>>

-----------------------------------------------------------------------------
(* What administrators save.                                               *)
Saves ==
  /\ server.up /\ edits < EditBound
  /\ edits' = edits + 1 /\ touched' = TRUE
  /\ UNCHANGED <<signed, due, rotated>>

(* POST /custom_claim, and the users, groups and invitations that bring a  *)
(* claim with them: the provider follows at once.                          *)
ClaimSaved(c) ==
  LET t == [Tables EXCEPT !.claims = @ \cup {c}]
  IN Saves /\ EndedWithReset(t, desynced(t, server))

(* DELETE /custom_claim/:id: it does not.                                  *)
ClaimDeleted(c) ==
  Saves /\ c \in claims /\ Ended([Tables EXCEPT !.claims = @ \ {c}], server)

(* POST and PATCH /client: the adapter encrypts the secret.                *)
others(c) == {r \in clients : r.id # c}

ClientSaved(c) ==
  /\ Saves
  /\ Ended([Tables EXCEPT !.clients = others(c) \cup {[id |-> c, by |-> server.storageKey]}], server)

(* DELETE /client/:client_id.                                              *)
ClientRemoved(c) ==
  Saves /\ c \in ids(clients) /\ Ended([Tables EXCEPT !.clients = others(c)], server)

KeysNext ==
  \/ \E kind \in Kinds : Signed(kind)
  \/ Tick \/ Maintained \/ Stopped
  \/ \E s \in StorageKeys : Started(s)
  \/ \E c \in Claims : ClaimSaved(c) \/ ClaimDeleted(c)
  \/ \E c \in Clients : ClientSaved(c) \/ ClientRemoved(c)

(* The server has not been started yet, or for a year.                     *)
KeysInit ==
  /\ keys = {} /\ claims \in SUBSET Claims /\ clients = [id : Clients, by : {0}]
  /\ server = [up |-> FALSE, stops |-> 0, storageKey |-> 0, keys |-> {}, claims |-> {}]
  /\ signed = [k \in KeyIds |-> 0] /\ undone = {}
  /\ due = FALSE /\ rotated = FALSE /\ touched = FALSE /\ edits = 0 /\ faults = 0

KeysSpec == KeysInit /\ [][KeysNext]_keyVars
-----------------------------------------------------------------------------
(***************************************************************************)
(* What has been signed with a key that was stored can be verified until   *)
(* it expires: the key keeps its row, can be decrypted, and is one of the  *)
(* provider's, through renewals, resets, restarts and changes of           *)
(* STORAGE_KEY, although the provider only learns of keys when it is reset *)
(* (makeKeysValid, getNextConfig, clearAllExpiredEntries).                 *)
(***************************************************************************)
TokensVerifiable ==
  \A k \in KeyIds \ undone : signed[k] > 0 =>
    /\ k \in ids(usable(Tables, server.storageKey))
    /\ server.up => k \in ids(server.keys)

(***************************************************************************)
(* STORAGE_KEY may be changed again and again, each time with the one      *)
(* before as STORAGE_KEY_SECONDARY, once a maintenance run has been        *)
(* committed: every key and every client secret can still be decrypted     *)
(* (updateEncryptedTables).                                                *)
(***************************************************************************)
RotationSafe == \A r \in keys \cup clients : opens(server.storageKey, r.by)

(***************************************************************************)
(* What the provider has in memory is what the tables hold once a          *)
(* maintenance run has been committed: it offers the claims there are, and *)
(* uses every key that is stored and none that is not, whatever            *)
(* administrators have saved and deleted and whichever transaction was     *)
(* undone after the provider had followed it (isProviderClaimsDesynced,    *)
(* keysNeedUpdate, doMaintenance).                                         *)
(***************************************************************************)
ProviderInStep ==
  server.up /\ ~due /\ ~touched =>
    /\ server.claims = claims
    /\ {r.id : r \in {q \in server.keys : q.left > 0}} = ids(usable(Tables, server.storageKey))
=============================================================================
