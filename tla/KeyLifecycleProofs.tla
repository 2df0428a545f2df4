-------------------------- MODULE KeyLifecycleProofs --------------------------
(* What is encrypted stays readable, what was signed stays verifiable, and *)
(* the provider follows the tables, for any number of keys, claims and     *)
(* clients, any lifetimes, and however often the server stops, STORAGE_KEY *)
(* changes and a transaction is undone.                                    *)
EXTENDS KeyLifecycle, TLAPS

KeyRow == [id : KeyIds, left : 0..KEY_TTL, by : StorageKeys]
ProviderKey == [id : KeyIds, left : 0..KEY_TTL]
ClientRow == [id : Clients, by : StorageKeys]
TableTypes == [keys : SUBSET KeyRow, claims : SUBSET Claims, clients : SUBSET ClientRow]

UniqueIds(rows) == \A a, b \in rows : a.id = b.id => a = b

HasRow(rows, k, n) == \E r \in rows : r.id = k /\ r.left = n

(* A key with half its life left, as keysNeedUpdate wants one.             *)
Healthy(rows, kind) == \E r \in rows : KindOf[r.id] = kind /\ 2 * r.left >= KEY_TTL

-----------------------------------------------------------------------------
(***************************************************************************)
(* The inductive invariant, of rows of the table and keys prov of the      *)
(* provider.  Until STORAGE_KEY changes again, nothing is encrypted by an  *)
(* earlier one.                                                            *)
(***************************************************************************)
AllOpen(rows, s, changed) == \A r \in rows : r.by = s \/ (changed /\ r.by = s - 1)

(* A token does not outlive the row of its key.                            *)
Held(rows, until, lost) ==
  \A k \in KeyIds \ lost : until[k] > 0 => \E r \in rows : r.id = k /\ until[k] <= r.left

(* The provider knows every key that is stored and not expired ...         *)
Known(rows, prov) == \A r \in rows : r.left > 0 => HasRow(prov, r.id, r.left)

(* ... and every other key it has comes from a transaction that was undone *)
Stored(rows, prov, except) ==
  \A q \in prov : q.left > 0 /\ q.id \notin except => HasRow(rows, q.id, q.left)

(* ... which only happened because a key was needed, and one still is.     *)
Straying(rows, prov, except) ==
  \A q \in prov : q.left > 0 /\ q.id \in except => \E kind \in Kinds : ~Healthy(rows, kind)

(* It can sign until the next maintenance run.                             *)
Lasting(prov, isDue) ==
  \A kind \in Kinds : \E q \in prov :
    KindOf[q.id] = kind /\ 2 * q.left >= KEY_TTL - (IF isDue THEN 2 ELSE 0)

ServerHolds ==
  /\ server.up => /\ Known(keys, server.keys)
                  /\ Stored(keys, server.keys, undone)
                  /\ Straying(keys, server.keys, undone)
                  /\ Lasting(server.keys, due)
  /\ ~server.up => server.keys = {} /\ ~due

InStep ==
  server.up /\ ~due /\ ~touched =>
    server.claims = claims /\ Stored(keys, server.keys, {})

IInv ==
  /\ KeysTypeOK
  /\ AllOpen(keys \cup clients, server.storageKey, rotated)
  /\ Held(keys, signed, undone)
  /\ ServerHolds
  /\ InStep
  /\ undone \cap ids(keys) = {}

-----------------------------------------------------------------------------
(* What a transaction has made of the tables, before it makes keys valid.  *)
Follows(t, s, changed) ==
  /\ t \in TableTypes
  /\ UniqueIds(t.keys)
  /\ AllOpen(t.keys \cup t.clients, s, changed)
  /\ \A r \in t.keys : HasRow(keys, r.id, r.left)
  /\ \A r \in keys : r.left > 0 => HasRow(t.keys, r.id, r.left)

LEMMA Lifetimes ==
  /\ KEY_TTL \in Nat /\ TOKEN_TTL \in Nat /\ 2 * TOKEN_TTL < KEY_TTL
  /\ RotationBound \in Nat /\ EditBound \in Nat /\ StopBound \in Nat /\ FaultBound \in Nat
BY KeyAssumption

LEMMA TypedState ==
  ASSUME IInv
  PROVE  /\ Tables \in TableTypes /\ UniqueIds(keys)
         /\ Tables.keys = keys /\ Tables.claims = claims /\ Tables.clients = clients
         /\ keys \in SUBSET KeyRow /\ server.keys \in SUBSET ProviderKey
         /\ server.storageKey \in StorageKeys
         /\ signed \in [KeyIds -> 0..TOKEN_TTL]
BY DEF IInv, KeysTypeOK, Tables, TableTypes, KeyRow, ClientRow, ProviderKey, UniqueIds

(* All that is there can be decrypted, so a key is needed exactly if none  *)
(* is healthy.                                                             *)
LEMMA OpenRows ==
  ASSUME NEW t \in TableTypes, NEW s \in StorageKeys, NEW changed, AllOpen(t.keys, s, changed)
  PROVE  /\ usable(t, s) = {r \in t.keys : r.left > 0}
         /\ \A kind : needUpdate(t, s, kind) <=> ~Healthy(t.keys, kind)
<1>1. \A r \in t.keys : opens(s, r.by)
  BY DEF AllOpen, opens
<1>2. usable(t, s) = {r \in t.keys : r.left > 0}
  BY <1>1 DEF usable
<1>3. \A r \in t.keys : r.left \in Nat
  BY DEF TableTypes, KeyRow
<1>4. \A r \in t.keys : 2 * r.left >= KEY_TTL => r.left > 0
  BY <1>3, Lifetimes
<1>5. QED BY <1>2, <1>4 DEF needUpdate, Healthy

LEMMA SameHealth ==
  ASSUME NEW t, NEW s, NEW changed, Follows(t, s, changed), IInv
  PROVE  \A kind : Healthy(t.keys, kind) <=> Healthy(keys, kind)
<1>1. \A r \in keys : r.left \in Nat /\ (2 * r.left >= KEY_TTL => r.left > 0)
  BY TypedState, Lifetimes DEF KeyRow
<1>2. QED BY <1>1 DEF Follows, Healthy, HasRow

-----------------------------------------------------------------------------
(* makeKeysValid and the provider built from what it leaves.               *)
LEMMA FreshKey ==
  ASSUME IInv, NEW t, NEW s, keyIdsSuffice(t, s), NEW kind \in Kinds, needUpdate(t, s, kind)
  PROVE  /\ freshKey(kind) \in KeyIds /\ KindOf[freshKey(kind)] = kind
         /\ signed[freshKey(kind)] = 0
         /\ freshKey(kind) \notin ids(keys)
<1>1. freshKey(kind) \in unusedKeys(kind)
  BY DEF keyIdsSuffice, freshKey
<1>2. QED BY <1>1 DEF unusedKeys, ids

LEMMA ValidKeys ==
  ASSUME IInv, NEW t, NEW s \in StorageKeys, NEW changed, Follows(t, s, changed),
         keyIdsSuffice(t, s),
         NEW v, v = makeKeysValid(t, s)
  PROVE  /\ v \in TableTypes /\ v.claims = t.claims /\ v.clients = t.clients
         /\ t.keys \subseteq v.keys
         /\ \A r \in v.keys \ t.keys :
              /\ r.id \in KeyIds \ ids(keys) /\ signed[r.id] = 0
              /\ r.by = s /\ KindOf[r.id] \in Kinds /\ ~Healthy(t.keys, KindOf[r.id])
         /\ \A kind \in Kinds : Healthy(v.keys, kind)
         /\ UniqueIds(v.keys)
         /\ AllOpen(v.keys \cup v.clients, s, changed)
<1> DEFINE need == {kind \in Kinds : needUpdate(t, s, kind)}
           row(kind) == [id |-> freshKey(kind), left |-> KEY_TTL, by |-> s]
           new == {row(kind) : kind \in need}
<1>1. t \in TableTypes /\ AllOpen(t.keys, s, changed)
  BY DEF Follows, AllOpen
<1>2. \A kind : needUpdate(t, s, kind) <=> ~Healthy(t.keys, kind)
  BY <1>1, OpenRows
<1>3. \A kind \in need :
        /\ row(kind) \in KeyRow /\ row(kind).id = freshKey(kind)
        /\ row(kind).left = KEY_TTL /\ row(kind).by = s
        /\ freshKey(kind) \in KeyIds \ ids(keys) /\ KindOf[freshKey(kind)] = kind
        /\ signed[freshKey(kind)] = 0 /\ ~Healthy(t.keys, kind)
  BY <1>2, FreshKey, Lifetimes DEF KeyRow
<1>4. /\ v.keys = t.keys \cup new /\ v.claims = t.claims /\ v.clients = t.clients
      /\ v = [keys |-> v.keys, claims |-> v.claims, clients |-> v.clients]
  BY <1>1 DEF makeKeysValid, TableTypes
<1>5. new \subseteq KeyRow
  BY <1>3
<1>6. \A r \in new : \E kind \in need : r = row(kind)
  OBVIOUS
<1>7. \A kind \in need : row(kind) \in new
  OBVIOUS
<1> HIDE DEF row, new
<1>8. v \in TableTypes
  BY <1>1, <1>4, <1>5 DEF TableTypes
<1>9. ASSUME NEW r \in v.keys \ t.keys
      PROVE  /\ r.id \in KeyIds \ ids(keys) /\ signed[r.id] = 0
             /\ r.by = s /\ KindOf[r.id] \in Kinds /\ ~Healthy(t.keys, KindOf[r.id])
  BY <1>3, <1>4, <1>6
<1>10. ASSUME NEW kind \in Kinds
       PROVE  Healthy(v.keys, kind)
  <2>1. CASE kind \in need
    <3>1. row(kind) \in v.keys /\ KindOf[row(kind).id] = kind /\ 2 * row(kind).left >= KEY_TTL
      BY <1>3, <1>4, <1>7, <2>1, Lifetimes
    <3>2. QED BY <3>1 DEF Healthy
  <2>2. CASE kind \notin need
    BY <1>2, <1>4, <2>2 DEF Healthy
  <2>3. QED BY <2>1, <2>2
<1>11. UniqueIds(v.keys)
  <2>1. \A a, b \in new : a.id = b.id => a = b
    BY <1>3, <1>6
  <2>2. \A a \in new, b \in t.keys : a.id # b.id
    BY <1>3, <1>6 DEF Follows, HasRow, ids
  <2>3. QED BY <1>4, <2>1, <2>2 DEF Follows, UniqueIds
<1>12. AllOpen(v.keys \cup v.clients, s, changed)
  BY <1>4, <1>9 DEF AllOpen, Follows
<1>13. QED BY <1>4, <1>8, <1>9, <1>10, <1>11, <1>12

(* The keys of a provider built from the tables t.                         *)
KeysOf(t, s) == {[id |-> r.id, left |-> r.left] : r \in usable(t, s)}

LEMMA ProviderKeys ==
  ASSUME NEW t \in TableTypes, NEW s \in StorageKeys, NEW changed, AllOpen(t.keys, s, changed)
  PROVE  /\ KeysOf(t, s) \in SUBSET ProviderKey
         /\ Known(t.keys, KeysOf(t, s))
         /\ \A q \in KeysOf(t, s) : q.left > 0 /\ \E r \in t.keys : r.id = q.id /\ r.left = q.left
<1>1. usable(t, s) = {r \in t.keys : r.left > 0}
  BY OpenRows
<1>2. \A r \in t.keys : r.id \in KeyIds /\ r.left \in 0..KEY_TTL
  BY DEF TableTypes, KeyRow
<1>3. KeysOf(t, s) \in SUBSET ProviderKey
  BY <1>1, <1>2 DEF KeysOf, ProviderKey
<1>4. Known(t.keys, KeysOf(t, s))
  <2>1. ASSUME NEW r \in t.keys, r.left > 0
        PROVE  HasRow(KeysOf(t, s), r.id, r.left)
    <3> DEFINE q == [id |-> r.id, left |-> r.left]
    <3>1. q \in KeysOf(t, s) /\ q.id = r.id /\ q.left = r.left
      BY <1>1, <2>1 DEF KeysOf
    <3> HIDE DEF q
    <3>2. QED BY <3>1 DEF HasRow
  <2>2. QED BY <2>1 DEF Known
<1>5. ASSUME NEW q \in KeysOf(t, s)
      PROVE  q.left > 0 /\ \E r \in t.keys : r.id = q.id /\ r.left = q.left
  <2>1. PICK r \in usable(t, s) : q = [id |-> r.id, left |-> r.left]
    BY DEF KeysOf
  <2>2. QED BY <1>1, <2>1
<1>6. QED BY <1>3, <1>4, <1>5

-----------------------------------------------------------------------------
(* A reset that is committed: tables and provider hold the same keys, of   *)
(* each kind a healthy one.                                                *)
LEMMA ResetCommitted ==
  ASSUME IInv, NEW t, NEW s \in StorageKeys, NEW changed, Follows(t, s, changed),
         keyIdsSuffice(t, s),
         NEW v, v = makeKeysValid(t, s)
  PROVE  /\ v \in TableTypes /\ UniqueIds(v.keys)
         /\ v.claims = t.claims /\ v.clients = t.clients
         /\ AllOpen(v.keys \cup v.clients, s, changed)
         /\ Held(v.keys, signed, undone \ ids(v.keys))
         /\ Known(v.keys, KeysOf(v, s))
         /\ \A except : Stored(v.keys, KeysOf(v, s), except)
         /\ Straying(v.keys, KeysOf(v, s), undone \ ids(v.keys))
         /\ \A isDue \in BOOLEAN : Lasting(KeysOf(v, s), isDue)
         /\ KeysOf(v, s) \in SUBSET ProviderKey
<1>1. /\ v \in TableTypes /\ UniqueIds(v.keys) /\ t.keys \subseteq v.keys
      /\ v.claims = t.claims /\ v.clients = t.clients
      /\ AllOpen(v.keys \cup v.clients, s, changed)
      /\ \A r \in v.keys \ t.keys : signed[r.id] = 0
      /\ \A kind \in Kinds : Healthy(v.keys, kind)
  BY ValidKeys
<1>2. /\ KeysOf(v, s) \in SUBSET ProviderKey
      /\ Known(v.keys, KeysOf(v, s))
      /\ \A q \in KeysOf(v, s) : q.left > 0 /\ \E r \in v.keys : r.id = q.id /\ r.left = q.left
  <2>1. AllOpen(v.keys, s, changed)
    BY <1>1 DEF AllOpen
  <2>2. QED BY <1>1, <2>1, ProviderKeys
<1>3. Held(v.keys, signed, undone \ ids(v.keys))
  <2>1. ASSUME NEW k \in KeyIds \ undone, signed[k] > 0
        PROVE  \E r \in v.keys : r.id = k /\ signed[k] <= r.left
    <3>1. PICK r \in keys : r.id = k /\ signed[k] <= r.left
      BY <2>1 DEF IInv, Held
    <3>2. r.left > 0
      BY <2>1, <3>1, TypedState, Lifetimes DEF KeyRow
    <3>3. PICK q \in t.keys : q.id = r.id /\ q.left = r.left
      BY <3>2 DEF Follows, HasRow
    <3>4. QED BY <1>1, <3>1, <3>3
  <2>2. ASSUME NEW k \in undone, k \in ids(v.keys)
        PROVE  signed[k] = 0
    <3>1. PICK r \in v.keys : r.id = k
      BY <2>2 DEF ids
    <3>2. r \notin t.keys
      <4>1. k \notin ids(keys)
        BY DEF IInv
      <4>2. QED BY <3>1, <4>1 DEF Follows, HasRow, ids
    <3>3. QED BY <1>1, <3>1, <3>2
  <2>3. QED BY <2>1, <2>2 DEF Held
<1>4. \A except : Stored(v.keys, KeysOf(v, s), except)
  BY <1>2 DEF Stored, HasRow
<1>5. Straying(v.keys, KeysOf(v, s), undone \ ids(v.keys))
  BY <1>2 DEF Straying, ids
<1>6. ASSUME NEW isDue \in BOOLEAN
      PROVE  Lasting(KeysOf(v, s), isDue)
  <2>1. ASSUME NEW kind \in Kinds
        PROVE  \E q \in KeysOf(v, s) : KindOf[q.id] = kind /\ 2 * q.left >= KEY_TTL - (IF isDue THEN 2 ELSE 0)
    <3>1. PICK r \in v.keys : KindOf[r.id] = kind /\ 2 * r.left >= KEY_TTL
      BY <1>1 DEF Healthy
    <3>2. r.left \in Nat
      BY <1>1 DEF TableTypes, KeyRow
    <3>3. PICK q \in KeysOf(v, s) : q.id = r.id /\ q.left = r.left
      BY <1>2, <3>1, <3>2, Lifetimes DEF Known, HasRow
    <3>4. 2 * q.left >= KEY_TTL - (IF isDue THEN 2 ELSE 0)
      BY <3>1, <3>2, <3>3, Lifetimes
    <3>5. QED BY <3>1, <3>3, <3>4
  <2>2. QED BY <2>1 DEF Lasting
<1>7. QED BY <1>1, <1>2, <1>3, <1>4, <1>5, <1>6

(* A reset whose transaction is undone: only the provider has the new keys *)
LEMMA ResetUndone ==
  ASSUME IInv, NEW t, NEW s \in StorageKeys, NEW changed, Follows(t, s, changed),
         keyIdsSuffice(t, s),
         NEW v, v = makeKeysValid(t, s),
         NEW lost, lost = undone \cup (ids(v.keys) \ ids(keys))
  PROVE  /\ lost \subseteq KeyIds /\ lost \cap ids(keys) = {}
         /\ Held(keys, signed, lost)
         /\ Known(keys, KeysOf(v, s))
         /\ Stored(keys, KeysOf(v, s), lost)
         /\ Straying(keys, KeysOf(v, s), lost)
<1>1. /\ v \in TableTypes /\ t.keys \subseteq v.keys
      /\ AllOpen(v.keys \cup v.clients, s, changed)
      /\ \A r \in v.keys \ t.keys :
           r.id \notin ids(keys) /\ KindOf[r.id] \in Kinds /\ ~Healthy(t.keys, KindOf[r.id])
  BY ValidKeys
<1>2. /\ Known(v.keys, KeysOf(v, s))
      /\ \A q \in KeysOf(v, s) : q.left > 0 /\ \E r \in v.keys : r.id = q.id /\ r.left = q.left
  <2>1. AllOpen(v.keys, s, changed)
    BY <1>1 DEF AllOpen
  <2>2. QED BY <1>1, <2>1, ProviderKeys
<1>3. lost \subseteq KeyIds /\ lost \cap ids(keys) = {}
  <2>1. undone \subseteq KeyIds /\ undone \cap ids(keys) = {}
    BY DEF IInv, KeysTypeOK
  <2>2. ids(v.keys) \subseteq KeyIds
    BY <1>1 DEF TableTypes, KeyRow, ids
  <2>3. QED BY <2>1, <2>2
<1>4. Held(keys, signed, lost)
  BY DEF IInv, Held
<1>5. Known(keys, KeysOf(v, s))
  <2>1. ASSUME NEW r \in keys, r.left > 0
        PROVE  HasRow(KeysOf(v, s), r.id, r.left)
    <3>1. PICK q \in t.keys : q.id = r.id /\ q.left = r.left
      BY <2>1 DEF Follows, HasRow
    <3>2. q \in v.keys /\ q.left > 0
      BY <1>1, <2>1, <3>1
    <3>3. HasRow(KeysOf(v, s), q.id, q.left)
      BY <1>2, <3>2 DEF Known
    <3>4. QED BY <3>1, <3>3
  <2>2. QED BY <2>1 DEF Known
<1>6. ASSUME NEW q \in KeysOf(v, s)
      PROVE  \/ HasRow(keys, q.id, q.left)
             \/ q.id \notin ids(keys) /\ q.id \in lost /\ \E kind \in Kinds : ~Healthy(keys, kind)
  <2>1. PICK r \in v.keys : r.id = q.id /\ r.left = q.left
    BY <1>2
  <2>2. CASE r \in t.keys
    BY <2>1, <2>2 DEF Follows
  <2>3. CASE r \notin t.keys
    <3>1. r.id \notin ids(keys) /\ \E kind \in Kinds : ~Healthy(t.keys, kind)
      BY <1>1, <2>3
    <3>2. r.id \in lost
      BY <3>1 DEF ids
    <3>3. QED BY <2>1, <3>1, <3>2, SameHealth
  <2>4. QED BY <2>2, <2>3
<1>7. Stored(keys, KeysOf(v, s), lost)
  BY <1>6 DEF Stored
<1>8. Straying(keys, KeysOf(v, s), lost)
  <2>1. \A q : HasRow(keys, q.id, q.left) => q.id \in ids(keys)
    BY DEF HasRow, ids
  <2>2. QED BY <1>3, <1>6, <2>1 DEF Straying
<1>9. QED BY <1>3, <1>4, <1>5, <1>7, <1>8

(* A transaction without a reset is committed.                             *)
LEMMA PlainCommitted ==
  ASSUME IInv, NEW t, NEW s \in StorageKeys, NEW changed, Follows(t, s, changed), server.up
  PROVE  /\ ids(t.keys) \subseteq ids(keys) /\ undone \ ids(t.keys) = undone
         /\ Held(t.keys, signed, undone)
         /\ Known(t.keys, server.keys)
         /\ Stored(t.keys, server.keys, undone)
         /\ Straying(t.keys, server.keys, undone)
<1>1. ids(t.keys) \subseteq ids(keys)
  BY DEF Follows, HasRow, ids
<1>2. undone \ ids(t.keys) = undone
  BY <1>1 DEF IInv
<1>3. Held(t.keys, signed, undone)
  <2>1. ASSUME NEW k \in KeyIds \ undone, signed[k] > 0
        PROVE  \E r \in t.keys : r.id = k /\ signed[k] <= r.left
    <3>1. PICK r \in keys : r.id = k /\ signed[k] <= r.left
      BY <2>1 DEF IInv, Held
    <3>2. r.left > 0
      BY <2>1, <3>1, TypedState, Lifetimes DEF KeyRow
    <3>3. PICK q \in t.keys : q.id = r.id /\ q.left = r.left
      BY <3>2 DEF Follows, HasRow
    <3>4. QED BY <3>1, <3>3
  <2>2. QED BY <2>1 DEF Held
<1>4. Known(t.keys, server.keys)
  <2>1. ASSUME NEW r \in t.keys, r.left > 0
        PROVE  HasRow(server.keys, r.id, r.left)
    <3>1. PICK q \in keys : q.id = r.id /\ q.left = r.left
      BY DEF Follows, HasRow
    <3>2. HasRow(server.keys, q.id, q.left)
      BY <2>1, <3>1 DEF IInv, ServerHolds, Known
    <3>3. QED BY <3>1, <3>2
  <2>2. QED BY <2>1 DEF Known
<1>5. Stored(t.keys, server.keys, undone)
  <2>1. ASSUME NEW q \in server.keys, q.left > 0, q.id \notin undone
        PROVE  HasRow(t.keys, q.id, q.left)
    <3>1. PICK r \in keys : r.id = q.id /\ r.left = q.left
      BY <2>1 DEF IInv, ServerHolds, Stored, HasRow
    <3>2. HasRow(t.keys, r.id, r.left)
      BY <2>1, <3>1 DEF Follows
    <3>3. QED BY <3>1, <3>2
  <2>2. QED BY <2>1 DEF Stored
<1>6. Straying(t.keys, server.keys, undone)
  BY SameHealth DEF IInv, ServerHolds, Straying
<1>7. QED BY <1>1, <1>2, <1>3, <1>4, <1>5, <1>6

-----------------------------------------------------------------------------
(***************************************************************************)
(* A transaction of a running server ends: what holds of the tables, the   *)
(* provider and the lost keys then, whether or not it is undone, ...       *)
(***************************************************************************)
Outcome(changed) ==
  /\ server' \in [up : {TRUE}, stops : {server.stops}, storageKey : {server.storageKey},
                  keys : SUBSET ProviderKey, claims : SUBSET Claims]
  /\ keys' \in SUBSET KeyRow /\ UniqueIds(keys')
  /\ claims' \in SUBSET Claims /\ clients' \in SUBSET ClientRow
  /\ undone' \in SUBSET KeyIds /\ undone' \cap ids(keys') = {}
  /\ Held(keys', signed, undone')
  /\ Known(keys', server'.keys)
  /\ Stored(keys', server'.keys, undone')
  /\ Straying(keys', server'.keys, undone')
  /\ \/ faults' = faults /\ AllOpen(keys' \cup clients', server.storageKey, changed)
     \/ /\ faults < FaultBound /\ faults' = faults + 1
        /\ UNCHANGED <<keys, claims, clients>>

(* ... and what holds besides after a reset, and without one.              *)
ResetOutcome ==
  /\ \A isDue \in BOOLEAN : Lasting(server'.keys, isDue)
  /\ faults' = faults => server'.claims = claims' /\ Stored(keys', server'.keys, {})

PlainOutcome(t) ==
  /\ server' = server
  /\ faults' = faults => keys' = t.keys /\ claims' = t.claims

LEMMA ServerType ==
  ASSUME IInv
  PROVE  /\ server \in [up : BOOLEAN, stops : 0..StopBound, storageKey : StorageKeys,
                        keys : SUBSET ProviderKey, claims : SUBSET Claims]
         /\ faults \in 0..FaultBound /\ FaultBound \in Nat
BY Lifetimes DEF IInv, KeysTypeOK, ProviderKey

LEMMA ResetEnds ==
  ASSUME IInv, server.up, NEW t, NEW changed, Follows(t, server.storageKey, changed),
         keyIdsSuffice(t, server.storageKey),
         NEW v, v = makeKeysValid(t, server.storageKey), Ended(v, provided(server, v))
  PROVE  Outcome(changed) /\ ResetOutcome
<1> DEFINE s == server.storageKey
           prov == KeysOf(v, s)
<1>1. s \in StorageKeys
  BY TypedState
<1>2. /\ v \in TableTypes /\ UniqueIds(v.keys)
      /\ AllOpen(v.keys \cup v.clients, s, changed)
      /\ Held(v.keys, signed, undone \ ids(v.keys))
      /\ Known(v.keys, prov)
      /\ \A except : Stored(v.keys, prov, except)
      /\ Straying(v.keys, prov, undone \ ids(v.keys))
      /\ \A isDue \in BOOLEAN : Lasting(prov, isDue)
      /\ prov \in SUBSET ProviderKey
  BY <1>1, ResetCommitted
<1>3. /\ v.keys \in SUBSET KeyRow /\ v.claims \in SUBSET Claims /\ v.clients \in SUBSET ClientRow
  BY <1>2 DEF TableTypes
<1>4. /\ server' \in [up : {TRUE}, stops : {server.stops}, storageKey : {s},
                      keys : SUBSET ProviderKey, claims : SUBSET Claims]
      /\ server'.keys = prov /\ server'.claims = v.claims
  <2>1. server' = [server EXCEPT !.keys = prov, !.claims = v.claims]
    BY DEF Ended, provided, KeysOf
  <2> HIDE DEF prov
  <2>2. QED BY <1>2, <1>3, <2>1, ServerType
<1> HIDE DEF prov
<1>5. CASE /\ keys' = v.keys /\ claims' = v.claims /\ clients' = v.clients
           /\ undone' = undone \ ids(v.keys) /\ UNCHANGED faults
  <2>1. undone' \in SUBSET KeyIds /\ undone' \cap ids(keys') = {}
    BY <1>5 DEF IInv, KeysTypeOK
  <2>2. Outcome(changed)
    BY <1>2, <1>3, <1>4, <1>5, <2>1 DEF Outcome
  <2>3. QED BY <1>2, <1>4, <1>5, <2>2 DEF ResetOutcome
<1>6. CASE /\ faults < FaultBound /\ faults' = faults + 1
           /\ undone' = undone \cup (ids(v.keys) \ ids(keys))
           /\ UNCHANGED <<keys, claims, clients>>
  <2>1. /\ undone' \in SUBSET KeyIds /\ undone' \cap ids(keys) = {}
        /\ Held(keys, signed, undone')
        /\ Known(keys, prov)
        /\ Stored(keys, prov, undone')
        /\ Straying(keys, prov, undone')
    BY <1>1, <1>6, ResetUndone DEF prov
  <2>2. /\ keys \in SUBSET KeyRow /\ UniqueIds(keys)
        /\ claims \in SUBSET Claims /\ clients \in SUBSET ClientRow
    BY TypedState DEF IInv, KeysTypeOK, ClientRow
  <2>3. Outcome(changed)
    BY <1>4, <1>6, <2>1, <2>2 DEF Outcome
  <2>4. faults' # faults
    BY <1>6, ServerType
  <2>5. QED BY <1>2, <1>4, <2>3, <2>4 DEF ResetOutcome
<1>7. QED BY <1>5, <1>6 DEF Ended

LEMMA PlainEnds ==
  ASSUME IInv, server.up, NEW t, NEW changed, Follows(t, server.storageKey, changed),
         Ended(t, server)
  PROVE  Outcome(changed) /\ PlainOutcome(t)
<1> DEFINE s == server.storageKey
<1>1. s \in StorageKeys
  BY TypedState
<1>2. /\ ids(t.keys) \subseteq ids(keys) /\ undone \ ids(t.keys) = undone
      /\ Held(t.keys, signed, undone)
      /\ Known(t.keys, server.keys)
      /\ Stored(t.keys, server.keys, undone)
      /\ Straying(t.keys, server.keys, undone)
  BY <1>1, PlainCommitted
<1>3. /\ t.keys \in SUBSET KeyRow /\ t.claims \in SUBSET Claims /\ t.clients \in SUBSET ClientRow
      /\ UniqueIds(t.keys) /\ AllOpen(t.keys \cup t.clients, s, changed)
  BY DEF Follows, TableTypes
<1>4. /\ server' = server
      /\ server' \in [up : {TRUE}, stops : {server.stops}, storageKey : {s},
                      keys : SUBSET ProviderKey, claims : SUBSET Claims]
  BY ServerType DEF Ended
<1>5. undone \in SUBSET KeyIds /\ undone \cap ids(keys) = {}
  BY DEF IInv, KeysTypeOK
<1>6. CASE /\ keys' = t.keys /\ claims' = t.claims /\ clients' = t.clients
           /\ undone' = undone \ ids(t.keys) /\ UNCHANGED faults
  <2>1. undone' = undone /\ undone' \cap ids(keys') = {}
    BY <1>2, <1>5, <1>6
  <2>2. Outcome(changed)
    BY <1>2, <1>3, <1>4, <1>5, <1>6, <2>1 DEF Outcome
  <2>3. QED BY <1>4, <1>6, <2>2 DEF PlainOutcome
<1>7. CASE /\ faults < FaultBound /\ faults' = faults + 1
           /\ undone' = undone \cup (ids(t.keys) \ ids(keys))
           /\ UNCHANGED <<keys, claims, clients>>
  <2>1. undone' = undone
    BY <1>2, <1>7
  <2>2. /\ keys \in SUBSET KeyRow /\ UniqueIds(keys)
        /\ claims \in SUBSET Claims /\ clients \in SUBSET ClientRow
    BY TypedState DEF IInv, KeysTypeOK, ClientRow
  <2>3. Outcome(changed)
    BY <1>4, <1>5, <1>7, <2>1, <2>2 DEF Outcome, IInv, ServerHolds
  <2>4. faults' # faults
    BY <1>7, ServerType
  <2>5. QED BY <1>4, <2>3, <2>4 DEF PlainOutcome
<1>8. QED BY <1>6, <1>7 DEF Ended

LEMMA WithResetEnds ==
  ASSUME IInv, server.up, NEW t, NEW changed, Follows(t, server.storageKey, changed),
         NEW needed, EndedWithReset(t, needed)
  PROVE  Outcome(changed) /\ (ResetOutcome \/ (~needed /\ PlainOutcome(t)))
BY ResetEnds, PlainEnds DEF EndedWithReset

(* The invariant, put together again.                                      *)
LEMMA OutcomeHolds ==
  ASSUME IInv, NEW changed, Outcome(changed), UNCHANGED signed,
         due' \in BOOLEAN, rotated' \in BOOLEAN, touched' \in BOOLEAN, edits' \in 0..EditBound,
         Lasting(server'.keys, due'),
         AllOpen(keys' \cup clients', server.storageKey, rotated'),
         ~due' /\ ~touched' => server'.claims = claims' /\ Stored(keys', server'.keys, {})
  PROVE  IInv'
<1>1. /\ server'.up = TRUE /\ server'.storageKey = server.storageKey
      /\ server' \in [up : BOOLEAN, stops : 0..StopBound, storageKey : StorageKeys,
                      keys : SUBSET ProviderKey, claims : SUBSET Claims]
  BY ServerType DEF Outcome
<1>2. faults' \in 0..FaultBound
  BY ServerType DEF Outcome
<1>3. KeysTypeOK'
  BY <1>1, <1>2 DEF Outcome, KeysTypeOK, IInv, UniqueIds, KeyRow, ClientRow, ProviderKey
<1>4. ServerHolds'
  BY <1>1 DEF Outcome, ServerHolds
<1>5. InStep'
  BY <1>1 DEF InStep
<1>6. AllOpen(keys \cup clients, server.storageKey, rotated)'
  BY <1>1
<1>7. (undone \cap ids(keys) = {})' /\ Held(keys, signed, undone)'
  BY DEF Outcome, ids
<1>8. QED BY <1>3, <1>4, <1>5, <1>6, <1>7 DEF IInv

-----------------------------------------------------------------------------
(* What administrators save.                                               *)
LEMMA SavesHold ==
  ASSUME IInv, Saves, NEW t, Follows(t, server.storageKey, rotated),
         NEW needed, EndedWithReset(t, needed) \/ Ended(t, server)
  PROVE  IInv'
<1>1. /\ server.up /\ touched' = TRUE /\ UNCHANGED <<signed, due, rotated>>
      /\ edits < EditBound /\ edits' = edits + 1
  BY DEF Saves
<1>2. Outcome(rotated) /\ (ResetOutcome \/ PlainOutcome(t))
  BY <1>1, WithResetEnds, PlainEnds
<1>3. /\ due \in BOOLEAN /\ rotated \in BOOLEAN /\ edits \in 0..EditBound
      /\ AllOpen(keys \cup clients, server.storageKey, rotated)
      /\ Lasting(server.keys, due)
  BY <1>1 DEF IInv, KeysTypeOK, ServerHolds
<1>4. edits' \in 0..EditBound
  BY <1>1, <1>3, Lifetimes
<1>5. Lasting(server'.keys, due)
  BY <1>2, <1>3 DEF ResetOutcome, PlainOutcome
<1>6. AllOpen(keys' \cup clients', server.storageKey, rotated)
  BY <1>2, <1>3 DEF Outcome
<1>7. QED BY <1>1, <1>2, <1>3, <1>4, <1>5, <1>6, OutcomeHolds

(* Rows of keys that stay as they are follow.                              *)
LEMMA SameKeysFollow ==
  ASSUME IInv, NEW t \in TableTypes, t.keys = keys,
         \A r \in t.clients : r \in clients \/ r.by = server.storageKey
  PROVE  Follows(t, server.storageKey, rotated)
<1>1. UniqueIds(t.keys) /\ \A r \in keys : HasRow(keys, r.id, r.left)
  BY TypedState DEF HasRow
<1>2. AllOpen(t.keys \cup t.clients, server.storageKey, rotated)
  BY DEF IInv, AllOpen
<1>3. QED BY <1>1, <1>2 DEF Follows

LEMMA ClaimSavedHolds ==
  ASSUME IInv, NEW c \in Claims, ClaimSaved(c)
  PROVE  IInv'
<1> DEFINE t == [Tables EXCEPT !.claims = @ \cup {c}]
<1>1. Saves /\ EndedWithReset(t, desynced(t, server))
  BY DEF ClaimSaved
<1>2. t \in TableTypes /\ t.keys = keys /\ t.clients = clients
  BY TypedState DEF TableTypes
<1> HIDE DEF t
<1>3. Follows(t, server.storageKey, rotated)
  BY <1>2, SameKeysFollow
<1>4. QED BY <1>1, <1>3, SavesHold

LEMMA ClaimDeletedHolds ==
  ASSUME IInv, NEW c \in Claims, ClaimDeleted(c)
  PROVE  IInv'
<1> DEFINE t == [Tables EXCEPT !.claims = @ \ {c}]
<1>1. Saves /\ Ended(t, server)
  BY DEF ClaimDeleted
<1>2. t \in TableTypes /\ t.keys = keys /\ t.clients = clients
  BY TypedState DEF TableTypes
<1> HIDE DEF t
<1>3. Follows(t, server.storageKey, rotated)
  BY <1>2, SameKeysFollow
<1>4. QED BY <1>1, <1>3, SavesHold

LEMMA ClientSavedHolds ==
  ASSUME IInv, NEW c \in Clients, ClientSaved(c)
  PROVE  IInv'
<1> DEFINE row == [id |-> c, by |-> server.storageKey]
           t == [Tables EXCEPT !.clients = others(c) \cup {row}]
<1>1. Saves /\ Ended(t, server)
  BY DEF ClientSaved
<1>2. row \in ClientRow /\ row.by = server.storageKey /\ others(c) \subseteq clients
  BY TypedState DEF ClientRow, others
<1> HIDE DEF row
<1>3. /\ t \in TableTypes /\ t.keys = keys /\ t.clients = others(c) \cup {row}
      /\ clients \in SUBSET ClientRow
  BY <1>2, TypedState DEF TableTypes
<1> HIDE DEF t
<1>4. Follows(t, server.storageKey, rotated)
  BY <1>2, <1>3, SameKeysFollow
<1>5. QED BY <1>1, <1>4, SavesHold

LEMMA ClientRemovedHolds ==
  ASSUME IInv, NEW c \in Clients, ClientRemoved(c)
  PROVE  IInv'
<1> DEFINE t == [Tables EXCEPT !.clients = others(c)]
<1>1. Saves /\ Ended(t, server)
  BY DEF ClientRemoved
<1>2. others(c) \subseteq clients
  BY DEF others
<1>3. t \in TableTypes /\ t.keys = keys /\ t.clients = others(c)
  BY <1>2, TypedState DEF TableTypes
<1> HIDE DEF t
<1>4. Follows(t, server.storageKey, rotated)
  BY <1>2, <1>3, SameKeysFollow
<1>5. QED BY <1>1, <1>4, SavesHold

-----------------------------------------------------------------------------
(* The maintenance: every row is encrypted by the present STORAGE_KEY, and *)
(* the keys that are not expired stay.                                     *)
LEMMA RecodedRows ==
  ASSUME NEW s \in StorageKeys, NEW changed, NEW rows, AllOpen(rows, s, changed)
  PROVE  /\ rows \in SUBSET KeyRow =>
              /\ recoded(rows, s) \in SUBSET KeyRow
              /\ \A q \in recoded(rows, s) : \E r \in rows : q.id = r.id /\ q.left = r.left
              /\ \A r \in rows : \E q \in recoded(rows, s) : q.id = r.id /\ q.left = r.left
              /\ UniqueIds(rows) => UniqueIds(recoded(rows, s))
         /\ rows \in SUBSET ClientRow => recoded(rows, s) \in SUBSET ClientRow
         /\ rows \in SUBSET KeyRow \/ rows \in SUBSET ClientRow =>
              AllOpen(recoded(rows, s), s, FALSE)
<1> DEFINE new(r) == [r EXCEPT !.by = s]
<1>1. \A r \in rows : opens(s, r.by)
  BY DEF AllOpen, opens
<1>2. recoded(rows, s) = {new(r) : r \in rows}
  BY <1>1 DEF recoded
<1>3. \A r \in KeyRow : new(r) \in KeyRow /\ new(r).id = r.id /\ new(r).left = r.left /\ new(r).by = s
  BY DEF KeyRow
<1>4. \A r \in ClientRow : new(r) \in ClientRow /\ new(r).by = s
  BY DEF ClientRow
<1>5. \A q \in recoded(rows, s) : \E r \in rows : q = new(r)
  BY <1>2
<1>6. \A r \in rows : new(r) \in recoded(rows, s)
  BY <1>2
<1>7. ASSUME NEW a \in KeyRow, NEW b \in KeyRow, new(a).id = new(b).id, a.id = b.id => a = b
      PROVE  new(a) = new(b)
  BY <1>3, <1>7
<1> HIDE DEF new
<1>8. CASE rows \in SUBSET KeyRow
  <2>1. /\ recoded(rows, s) \in SUBSET KeyRow
        /\ \A q \in recoded(rows, s) : \E r \in rows : q.id = r.id /\ q.left = r.left
        /\ \A r \in rows : \E q \in recoded(rows, s) : q.id = r.id /\ q.left = r.left
        /\ AllOpen(recoded(rows, s), s, FALSE)
    BY <1>3, <1>5, <1>6, <1>8 DEF AllOpen
  <2>2. UniqueIds(rows) => UniqueIds(recoded(rows, s))
    BY <1>5, <1>7, <1>8, <1>3 DEF UniqueIds
  <2>3. ASSUME rows \in SUBSET ClientRow
        PROVE  recoded(rows, s) \in SUBSET ClientRow
    BY <1>4, <1>5, <2>3
  <2>4. QED BY <2>1, <2>2, <2>3
<1>9. CASE rows \notin SUBSET KeyRow
  <2>1. ASSUME rows \in SUBSET ClientRow
        PROVE  recoded(rows, s) \in SUBSET ClientRow /\ AllOpen(recoded(rows, s), s, FALSE)
    BY <1>4, <1>5, <2>1 DEF AllOpen
  <2>2. QED BY <1>9, <2>1
<1>10. QED BY <1>8, <1>9

LEMMA MaintenanceFollows ==
  ASSUME IInv, NEW t, t = reEncrypted(expiredCleared(Tables), server.storageKey)
  PROVE  Follows(t, server.storageKey, FALSE) /\ t.claims = claims
<1> DEFINE s == server.storageKey
           live == {r \in keys : r.left > 0}
<1>1. /\ s \in StorageKeys /\ keys \in SUBSET KeyRow /\ clients \in SUBSET ClientRow
      /\ claims \in SUBSET Claims /\ UniqueIds(keys)
      /\ AllOpen(live, s, rotated) /\ AllOpen(clients, s, rotated)
  BY TypedState DEF IInv, KeysTypeOK, ClientRow, AllOpen
<1>2. t = [keys |-> recoded(live, s), claims |-> claims, clients |-> recoded(clients, s)]
  BY DEF reEncrypted, expiredCleared, Tables
<1>3. live \in SUBSET KeyRow /\ UniqueIds(live)
  BY <1>1 DEF UniqueIds
<1> HIDE DEF s
<1>4. /\ recoded(live, s) \in SUBSET KeyRow /\ UniqueIds(recoded(live, s))
      /\ AllOpen(recoded(live, s), s, FALSE)
      /\ \A q \in recoded(live, s) : \E r \in live : q.id = r.id /\ q.left = r.left
      /\ \A r \in live : \E q \in recoded(live, s) : q.id = r.id /\ q.left = r.left
  BY <1>1, <1>3, RecodedRows
<1>5. recoded(clients, s) \in SUBSET ClientRow /\ AllOpen(recoded(clients, s), s, FALSE)
  BY <1>1, RecodedRows
<1>6. t \in TableTypes /\ t.keys = recoded(live, s) /\ t.clients = recoded(clients, s) /\ t.claims = claims
  BY <1>1, <1>2, <1>4, <1>5 DEF TableTypes
<1>7. AllOpen(t.keys \cup t.clients, s, FALSE)
  BY <1>4, <1>5, <1>6 DEF AllOpen
<1>8. /\ \A r \in t.keys : HasRow(keys, r.id, r.left)
      /\ \A r \in keys : r.left > 0 => HasRow(t.keys, r.id, r.left)
  BY <1>4, <1>6 DEF HasRow
<1>9. QED BY <1>4, <1>6, <1>7, <1>8 DEF Follows, s

LEMMA MaintainedHolds ==
  ASSUME IInv, Maintained
  PROVE  IInv'
<1> DEFINE s == server.storageKey
           t == reEncrypted(expiredCleared(Tables), s)
           needed == keysNeedUpdate(t, s) \/ desynced(t, server)
<1>1. /\ server.up /\ due /\ UNCHANGED <<signed, edits>>
      /\ due' = (faults' # faults) /\ rotated' = (rotated /\ due') /\ touched' = (touched /\ due')
      /\ EndedWithReset(t, needed)
  BY DEF Maintained
<1>2. Follows(t, s, FALSE) /\ t.claims = claims
  BY MaintenanceFollows
<1>3. Outcome(FALSE) /\ (ResetOutcome \/ (~needed /\ PlainOutcome(t)))
  BY <1>1, <1>2, WithResetEnds
<1>4. /\ due' \in BOOLEAN /\ rotated' \in BOOLEAN /\ touched' \in BOOLEAN
  BY <1>1
<1>5. edits' \in 0..EditBound
  BY <1>1 DEF IInv, KeysTypeOK
<1>6. ~needed => /\ \A kind \in Kinds : Healthy(t.keys, kind)
                 /\ claims = server.claims
  <2>1. t \in TableTypes /\ AllOpen(t.keys, s, FALSE) /\ s \in StorageKeys
    BY <1>2, TypedState DEF Follows, AllOpen
  <2> HIDE DEF t, s
  <2>2. \A kind : needUpdate(t, s, kind) <=> ~Healthy(t.keys, kind)
    BY <2>1, OpenRows
  <2>3. QED BY <1>2, <2>2 DEF keysNeedUpdate, desynced
<1> HIDE DEF needed, t
<1>7. Lasting(server'.keys, due')
  <2>1. CASE ResetOutcome
    BY <1>4, <2>1 DEF ResetOutcome
  <2>2. CASE ~needed /\ PlainOutcome(t)
    <3>1. CASE due'
      BY <1>1, <2>2, <3>1 DEF PlainOutcome, IInv, ServerHolds, Lasting
    <3>2. CASE ~due'
      <4>1. \A kind \in Kinds : Healthy(keys', kind)
        BY <1>1, <1>6, <2>2, <3>2 DEF PlainOutcome
      <4>2. Known(keys', server'.keys) /\ keys' \in SUBSET KeyRow
        BY <1>3 DEF Outcome
      <4>3. ASSUME NEW kind \in Kinds
            PROVE  \E q \in server'.keys : KindOf[q.id] = kind /\ 2 * q.left >= KEY_TTL
        <5>1. PICK r \in keys' : KindOf[r.id] = kind /\ 2 * r.left >= KEY_TTL
          BY <4>1 DEF Healthy
        <5>2. r.left > 0
          BY <4>2, <5>1, Lifetimes DEF KeyRow
        <5>3. QED BY <4>2, <5>1, <5>2 DEF Known, HasRow
      <4>4. KEY_TTL - 0 = KEY_TTL
        BY Lifetimes
      <4>5. QED BY <3>2, <4>3, <4>4 DEF Lasting
    <3>3. QED BY <3>1, <3>2
  <2>3. QED BY <1>3, <2>1, <2>2
<1>8. AllOpen(keys' \cup clients', s, rotated')
  <2>1. CASE faults' = faults
    BY <1>1, <1>3, <2>1, ServerType DEF Outcome, AllOpen
  <2>2. CASE faults' # faults
    BY <1>1, <1>3, <2>2 DEF Outcome, IInv, AllOpen
  <2>3. QED BY <2>1, <2>2
<1>9. ~due' => server'.claims = claims' /\ Stored(keys', server'.keys, {})
  <2> SUFFICES ASSUME ~due'
               PROVE  server'.claims = claims' /\ Stored(keys', server'.keys, {})
    OBVIOUS
  <2>1. faults' = faults
    BY <1>1
  <2>2. CASE ResetOutcome
    BY <2>1, <2>2 DEF ResetOutcome
  <2>3. CASE ~needed /\ PlainOutcome(t)
    <3>1. /\ server' = server /\ keys' = t.keys /\ claims' = claims /\ claims = server.claims
          /\ \A kind \in Kinds : Healthy(keys', kind)
      BY <1>2, <1>6, <2>1, <2>3 DEF PlainOutcome
    <3>2. Stored(keys', server'.keys, undone') /\ Straying(keys', server'.keys, undone')
      BY <1>3 DEF Outcome
    <3>3. Stored(keys', server'.keys, {})
      BY <3>1, <3>2 DEF Stored, Straying
    <3>4. QED BY <3>1, <3>3
  <2>4. QED BY <1>3, <2>2, <2>3
<1>10. QED BY <1>1, <1>3, <1>4, <1>5, <1>7, <1>8, <1>9, OutcomeHolds

-----------------------------------------------------------------------------
(* Signing: the key the provider signs with outlives the token.            *)
LEMMA SignedHolds ==
  ASSUME IInv, NEW kind \in Kinds, Signed(kind)
  PROVE  IInv'
<1>1. PICK r \in signingKeys(kind) : signed' = [signed EXCEPT ![r.id] = TOKEN_TTL]
  BY DEF Signed
<1>2. /\ server.up
      /\ UNCHANGED <<keys, claims, clients, server, undone, due, rotated, touched, edits, faults>>
  BY DEF Signed
<1>3. /\ r \in server.keys /\ KindOf[r.id] = kind
      /\ \A q \in server.keys : KindOf[q.id] = kind => q.left <= r.left
  BY <1>1 DEF signingKeys
<1>4. /\ server.keys \in SUBSET ProviderKey /\ keys \in SUBSET KeyRow
      /\ signed \in [KeyIds -> 0..TOKEN_TTL]
  BY TypedState
<1>5. r.id \in KeyIds /\ r.left \in Nat
  BY <1>3, <1>4 DEF ProviderKey
<1>6. TOKEN_TTL <= r.left
  <2>1. PICK q \in server.keys : KindOf[q.id] = kind /\ 2 * q.left >= KEY_TTL - (IF due THEN 2 ELSE 0)
    BY <1>2 DEF IInv, ServerHolds, Lasting
  <2>2. q.left \in Nat /\ q.left <= r.left
    BY <1>3, <1>4, <2>1 DEF ProviderKey
  <2>3. 2 * q.left >= KEY_TTL - 2
    BY <2>1, <2>2, Lifetimes
  <2>4. QED BY <1>5, <2>2, <2>3, Lifetimes
<1>7. ASSUME NEW k \in KeyIds \ undone, signed'[k] > 0
      PROVE  \E q \in keys : q.id = k /\ signed'[k] <= q.left
  <2>1. CASE k = r.id
    <3>1. signed'[k] = TOKEN_TTL /\ r.left > 0
      BY <1>1, <1>4, <1>5, <1>6, <1>7, <2>1, Lifetimes
    <3>2. PICK q \in keys : q.id = r.id /\ q.left = r.left
      BY <1>2, <1>3, <2>1, <3>1 DEF IInv, ServerHolds, Stored, HasRow
    <3>3. QED BY <1>6, <2>1, <3>1, <3>2
  <2>2. CASE k # r.id
    BY <1>1, <1>4, <1>7, <2>2 DEF IInv, Held
  <2>3. QED BY <2>1, <2>2
<1>8. Held(keys, signed, undone)'
  BY <1>2, <1>7 DEF Held
<1>9. signed' \in [KeyIds -> 0..TOKEN_TTL]
  <2>1. TOKEN_TTL \in 0..TOKEN_TTL
    BY Lifetimes
  <2>2. QED BY <1>1, <1>4, <2>1
<1>10. KeysTypeOK'
  BY <1>2, <1>9 DEF IInv, KeysTypeOK
<1>11. ServerHolds' /\ InStep' /\ (undone \cap ids(keys) = {})'
       /\ AllOpen(keys \cup clients, server.storageKey, rotated)'
  BY <1>2 DEF IInv, ServerHolds, InStep, ids
<1>12. QED BY <1>8, <1>10, <1>11 DEF IInv

-----------------------------------------------------------------------------
(* Time: rows, keys of the provider and tokens grow old together.          *)
LEMMA AgedRows ==
  ASSUME NEW rows, rows \in SUBSET KeyRow \/ rows \in SUBSET ProviderKey
  PROVE  /\ rows \in SUBSET KeyRow =>
              /\ aged(rows) \in SUBSET KeyRow
              /\ \A q \in aged(rows) : \E r \in rows :
                   q.id = r.id /\ q.left = less(r.left) /\ q.by = r.by /\ q = [r EXCEPT !.left = less(@)]
         /\ rows \in SUBSET ProviderKey => aged(rows) \in SUBSET ProviderKey
         /\ \A q \in aged(rows) : \E r \in rows : q.id = r.id /\ q.left = less(r.left)
         /\ \A r \in rows : \E q \in aged(rows) : q.id = r.id /\ q.left = less(r.left)
<1> DEFINE old(r) == [r EXCEPT !.left = less(@)]
<1>1. aged(rows) = {old(r) : r \in rows}
  BY DEF aged
<1>2. \A n \in 0..KEY_TTL : less(n) \in 0..KEY_TTL
  BY Lifetimes DEF less
<1>3. \A r \in KeyRow :
        /\ old(r) \in KeyRow /\ old(r).id = r.id /\ old(r).left = less(r.left) /\ old(r).by = r.by
  BY <1>2 DEF KeyRow
<1>4. \A r \in ProviderKey :
        old(r) \in ProviderKey /\ old(r).id = r.id /\ old(r).left = less(r.left)
  BY <1>2 DEF ProviderKey
<1>5. \A q \in aged(rows) : \E r \in rows : q = old(r)
  BY <1>1
<1>6. \A r \in rows : old(r) \in aged(rows)
  BY <1>1
<1>7. \A r : old(r) = [r EXCEPT !.left = less(@)]
  OBVIOUS
<1> HIDE DEF old
<1>8. CASE rows \in SUBSET KeyRow
  <2>1. /\ aged(rows) \in SUBSET KeyRow
        /\ \A q \in aged(rows) : \E r \in rows :
             q.id = r.id /\ q.left = less(r.left) /\ q.by = r.by /\ q = [r EXCEPT !.left = less(@)]
    BY <1>3, <1>5, <1>7, <1>8
  <2>2. /\ \A q \in aged(rows) : \E r \in rows : q.id = r.id /\ q.left = less(r.left)
        /\ \A r \in rows : \E q \in aged(rows) : q.id = r.id /\ q.left = less(r.left)
    BY <1>3, <1>5, <1>6, <1>8
  <2>3. rows \in SUBSET ProviderKey => aged(rows) \in SUBSET ProviderKey
    BY <1>4, <1>5
  <2>4. QED BY <2>1, <2>2, <2>3
<1>9. CASE rows \in SUBSET ProviderKey /\ rows \notin SUBSET KeyRow
  BY <1>4, <1>5, <1>6, <1>9
<1>10. QED BY <1>8, <1>9

LEMMA Less ==
  ASSUME NEW n \in Nat, NEW k \in Nat
  PROVE  /\ less(n) \in Nat /\ less(n) <= n /\ n <= less(n) + 1
         /\ n <= k => less(n) <= less(k)
         /\ less(n) > 0 => n > 0
BY DEF less

LEMMA TickHolds ==
  ASSUME IInv, Tick
  PROVE  IInv'
<1>1. /\ (server.up => ~due)
      /\ keys' = aged(keys)
      /\ server' = [server EXCEPT !.keys = aged(@)]
      /\ signed' = [k \in KeyIds |-> less(signed[k])]
      /\ due' = server.up
      /\ UNCHANGED <<claims, clients, undone, rotated, touched, edits, faults>>
  BY DEF Tick
<1>2. /\ keys \in SUBSET KeyRow /\ server.keys \in SUBSET ProviderKey /\ UniqueIds(keys)
      /\ signed \in [KeyIds -> 0..TOKEN_TTL] /\ server.up \in BOOLEAN
  BY TypedState, ServerType
<1>3. /\ aged(keys) \in SUBSET KeyRow
      /\ \A q \in aged(keys) : \E r \in keys :
           q.id = r.id /\ q.left = less(r.left) /\ q.by = r.by /\ q = [r EXCEPT !.left = less(@)]
      /\ \A r \in keys : \E q \in aged(keys) : q.id = r.id /\ q.left = less(r.left)
  BY <1>2, AgedRows
<1>4. /\ aged(server.keys) \in SUBSET ProviderKey
      /\ \A q \in aged(server.keys) : \E r \in server.keys : q.id = r.id /\ q.left = less(r.left)
      /\ \A r \in server.keys : \E q \in aged(server.keys) : q.id = r.id /\ q.left = less(r.left)
  BY <1>2, AgedRows
<1>5. /\ server'.keys = aged(server.keys) /\ server'.up = server.up
      /\ server'.claims = server.claims /\ server'.storageKey = server.storageKey
      /\ server' \in [up : BOOLEAN, stops : 0..StopBound, storageKey : StorageKeys,
                      keys : SUBSET ProviderKey, claims : SUBSET Claims]
  BY <1>1, <1>4, ServerType
<1>6. /\ \A r \in keys : r.left \in Nat
      /\ \A q \in server.keys : q.left \in Nat
      /\ \A k \in KeyIds : signed[k] \in Nat
  BY <1>2 DEF KeyRow, ProviderKey
<1>7. signed' \in [KeyIds -> 0..TOKEN_TTL]
  <2>1. \A n \in 0..TOKEN_TTL : less(n) \in 0..TOKEN_TTL
    BY Lifetimes DEF less
  <2>2. QED BY <1>1, <1>2, <2>1
<1>8. KeysTypeOK'
  <2>1. UniqueIds(aged(keys))
    BY <1>2, <1>3 DEF UniqueIds
  <2>2. QED BY <1>1, <1>2, <1>3, <1>5, <1>7, <2>1 DEF IInv, KeysTypeOK, UniqueIds, KeyRow, ProviderKey
<1>9. AllOpen(keys \cup clients, server.storageKey, rotated)'
  BY <1>1, <1>3, <1>5 DEF IInv, AllOpen
<1>10. Held(keys, signed, undone)'
  <2>1. ASSUME NEW k \in KeyIds \ undone, signed'[k] > 0
        PROVE  \E q \in aged(keys) : q.id = k /\ signed'[k] <= q.left
    <3>1. signed'[k] = less(signed[k]) /\ signed[k] > 0
      BY <1>1, <1>6, <2>1, Less
    <3>2. PICK r \in keys : r.id = k /\ signed[k] <= r.left
      BY <3>1 DEF IInv, Held
    <3>3. PICK q \in aged(keys) : q.id = r.id /\ q.left = less(r.left)
      BY <1>3
    <3>4. less(signed[k]) <= less(r.left)
      BY <1>6, <3>2, Less
    <3>5. QED BY <3>1, <3>2, <3>3, <3>4
  <2>2. QED BY <1>1, <2>1 DEF Held
<1>11. (undone \cap ids(keys) = {})'
  BY <1>1, <1>3 DEF IInv, ids
<1>12. ServerHolds'
  <2>1. CASE server.up
    <3>1. Known(aged(keys), aged(server.keys))
      <4>1. ASSUME NEW q \in aged(keys), q.left > 0
            PROVE  HasRow(aged(server.keys), q.id, q.left)
        <5>1. PICK r \in keys : q.id = r.id /\ q.left = less(r.left)
          BY <1>3
        <5>2. r.left > 0
          BY <1>6, <4>1, <5>1, Less
        <5>3. PICK p \in server.keys : p.id = r.id /\ p.left = r.left
          BY <2>1, <5>2 DEF IInv, ServerHolds, Known, HasRow
        <5>4. QED BY <1>4, <5>1, <5>3 DEF HasRow
      <4>2. QED BY <4>1 DEF Known
    <3>2. Stored(aged(keys), aged(server.keys), undone)
      <4>1. ASSUME NEW q \in aged(server.keys), q.left > 0, q.id \notin undone
            PROVE  HasRow(aged(keys), q.id, q.left)
        <5>1. PICK p \in server.keys : q.id = p.id /\ q.left = less(p.left)
          BY <1>4
        <5>2. p.left > 0
          BY <1>6, <4>1, <5>1, Less
        <5>3. PICK r \in keys : r.id = p.id /\ r.left = p.left
          BY <2>1, <4>1, <5>1, <5>2 DEF IInv, ServerHolds, Stored, HasRow
        <5>4. QED BY <1>3, <5>1, <5>3 DEF HasRow
      <4>2. QED BY <4>1 DEF Stored
    <3>3. \A kind : Healthy(aged(keys), kind) => Healthy(keys, kind)
      <4>1. ASSUME NEW kind, NEW q \in aged(keys), KindOf[q.id] = kind, 2 * q.left >= KEY_TTL
            PROVE  Healthy(keys, kind)
        <5>1. PICK r \in keys : q.id = r.id /\ q.left = less(r.left)
          BY <1>3
        <5>2. 2 * r.left >= KEY_TTL
          BY <1>6, <4>1, <5>1, Less, Lifetimes
        <5>3. QED BY <4>1, <5>1, <5>2 DEF Healthy
      <4>2. QED BY <4>1 DEF Healthy
    <3>4. Straying(aged(keys), aged(server.keys), undone)
      <4>1. ASSUME NEW q \in aged(server.keys), q.left > 0, q.id \in undone
            PROVE  \E kind \in Kinds : ~Healthy(aged(keys), kind)
        <5>1. PICK p \in server.keys : q.id = p.id /\ q.left = less(p.left)
          BY <1>4
        <5>2. p.left > 0
          BY <1>6, <4>1, <5>1, Less
        <5>3. \E kind \in Kinds : ~Healthy(keys, kind)
          BY <2>1, <4>1, <5>1, <5>2 DEF IInv, ServerHolds, Straying
        <5>4. QED BY <3>3, <5>3
      <4>2. QED BY <4>1 DEF Straying
    <3>5. Lasting(aged(server.keys), TRUE)
      <4>1. ASSUME NEW kind \in Kinds
            PROVE  \E q \in aged(server.keys) : KindOf[q.id] = kind /\ 2 * q.left >= KEY_TTL - 2
        <5>1. PICK p \in server.keys : KindOf[p.id] = kind /\ 2 * p.left >= KEY_TTL - (IF due THEN 2 ELSE 0)
          BY <2>1 DEF IInv, ServerHolds, Lasting
        <5>2. PICK q \in aged(server.keys) : q.id = p.id /\ q.left = less(p.left)
          BY <1>4
        <5>3. ~due /\ p.left \in Nat
          BY <1>1, <1>6, <2>1
        <5>4. 2 * p.left >= KEY_TTL
          BY <5>1, <5>3, Lifetimes
        <5>5. 2 * q.left >= KEY_TTL - 2
          BY <5>2, <5>3, <5>4, Less, Lifetimes
        <5>6. QED BY <5>1, <5>2, <5>5
      <4>2. QED BY <4>1 DEF Lasting
    <3>6. QED BY <1>1, <1>5, <2>1, <3>1, <3>2, <3>4, <3>5 DEF ServerHolds
  <2>2. CASE ~server.up
    <3>1. aged(server.keys) = {}
      BY <1>4, <2>2 DEF IInv, ServerHolds
    <3>2. QED BY <1>1, <1>5, <2>2, <3>1 DEF ServerHolds
  <2>3. QED BY <2>1, <2>2
<1>13. InStep'
  BY <1>1, <1>5 DEF InStep
<1>14. QED BY <1>8, <1>9, <1>10, <1>11, <1>12, <1>13 DEF IInv

-----------------------------------------------------------------------------
(* The process ends and is started.                                        *)
LEMMA StoppedHolds ==
  ASSUME IInv, Stopped
  PROVE  IInv'
<1>1. /\ server.stops < StopBound
      /\ server' = [server EXCEPT !.up = FALSE, !.stops = @ + 1, !.keys = {}, !.claims = {}]
      /\ due' = FALSE
      /\ UNCHANGED <<keys, claims, clients, signed, undone, rotated, touched, edits, faults>>
  BY DEF Stopped
<1>2. server.stops \in 0..StopBound /\ server.stops + 1 \in 0..StopBound
  BY <1>1, ServerType, Lifetimes
<1>3. /\ server'.up = FALSE /\ server'.keys = {} /\ server'.storageKey = server.storageKey
      /\ server' \in [up : BOOLEAN, stops : 0..StopBound, storageKey : StorageKeys,
                      keys : SUBSET ProviderKey, claims : SUBSET Claims]
  BY <1>1, <1>2, ServerType
<1>4. KeysTypeOK'
  BY <1>1, <1>3 DEF IInv, KeysTypeOK, ProviderKey
<1>5. ServerHolds' /\ InStep'
  BY <1>1, <1>3 DEF ServerHolds, InStep
<1>6. /\ Held(keys, signed, undone)' /\ (undone \cap ids(keys) = {})'
      /\ AllOpen(keys \cup clients, server.storageKey, rotated)'
  BY <1>1, <1>3 DEF IInv, ids
<1>7. QED BY <1>4, <1>5, <1>6 DEF IInv

LEMMA StartedHolds ==
  ASSUME IInv, NEW s \in StorageKeys, Started(s)
  PROVE  IInv'
<1> DEFINE t == makeKeysValid(Tables, s)
           changed == rotated \/ s # server.storageKey
<1>1. /\ ~server.up /\ keyIdsSuffice(Tables, s)
      /\ s = server.storageKey \/ (s = server.storageKey + 1 /\ ~rotated)
      /\ server' = provided([server EXCEPT !.up = TRUE, !.storageKey = s], t)
      /\ keys' = t.keys /\ undone' = undone \ ids(t.keys)
      /\ due' = TRUE /\ rotated' = changed
      /\ UNCHANGED <<claims, clients, signed, touched, edits, faults>>
  BY DEF Started
<1>2. Follows(Tables, s, changed)
  <2>1. AllOpen(keys \cup clients, s, changed)
    <3>1. server.storageKey \in Nat
      BY TypedState, Lifetimes DEF StorageKeys
    <3>2. CASE s = server.storageKey
      BY <3>2 DEF IInv, AllOpen
    <3>3. CASE s = server.storageKey + 1 /\ ~rotated
      BY <3>1, <3>3 DEF IInv, AllOpen
    <3>4. QED BY <1>1, <3>2, <3>3
  <2>2. \A r \in keys : HasRow(keys, r.id, r.left)
    BY DEF HasRow
  <2>3. QED BY <2>1, <2>2, TypedState DEF Follows
<1> DEFINE prov == KeysOf(t, s)
<1>3. /\ t \in TableTypes /\ UniqueIds(t.keys)
      /\ t.claims = Tables.claims /\ t.clients = Tables.clients
      /\ AllOpen(t.keys \cup t.clients, s, changed)
      /\ Held(t.keys, signed, undone \ ids(t.keys))
      /\ Known(t.keys, prov)
      /\ Stored(t.keys, prov, undone \ ids(t.keys))
      /\ Straying(t.keys, prov, undone \ ids(t.keys))
      /\ Lasting(prov, TRUE)
      /\ prov \in SUBSET ProviderKey
  BY <1>1, <1>2, ResetCommitted
<1>4. t.claims = claims /\ t.clients = clients
  BY <1>3, TypedState
<1>5. /\ server'.up = TRUE /\ server'.storageKey = s /\ server'.keys = prov
      /\ server' \in [up : BOOLEAN, stops : 0..StopBound, storageKey : StorageKeys,
                      keys : SUBSET ProviderKey, claims : SUBSET Claims]
  <2>1. server' = [[server EXCEPT !.up = TRUE, !.storageKey = s] EXCEPT !.keys = prov, !.claims = t.claims]
    <3>1. [server EXCEPT !.up = TRUE, !.storageKey = s].storageKey = s
      BY ServerType
    <3>2. QED BY <1>1, <3>1 DEF provided, KeysOf
  <2>2. claims \in SUBSET Claims
    BY DEF IInv, KeysTypeOK
  <2> HIDE DEF prov, t
  <2>3. QED BY <1>3, <1>4, <2>1, <2>2, ServerType
<1> HIDE DEF prov, t
<1>6. KeysTypeOK'
  <2>1. keys' \in SUBSET KeyRow /\ UniqueIds(keys')
    BY <1>1, <1>3 DEF TableTypes
  <2>2. rotated' \in BOOLEAN /\ due' \in BOOLEAN
    BY <1>1
  <2>3. undone' \subseteq KeyIds
    BY <1>1 DEF IInv, KeysTypeOK
  <2> HIDE DEF changed
  <2>4. QED BY <1>1, <1>5, <2>1, <2>2, <2>3 DEF IInv, KeysTypeOK, UniqueIds, KeyRow, ProviderKey
<1>7. ServerHolds'
  BY <1>1, <1>3, <1>5 DEF ServerHolds
<1>8. InStep' /\ (undone \cap ids(keys) = {})' /\ Held(keys, signed, undone)'
  BY <1>1, <1>3 DEF InStep, ids
<1>9. AllOpen(keys \cup clients, server.storageKey, rotated)'
  BY <1>1, <1>3, <1>4, <1>5
<1>10. QED BY <1>6, <1>7, <1>8, <1>9 DEF IInv

-----------------------------------------------------------------------------
LEMMA KeysInitHolds ==
  KeysInit => IInv
<1> SUFFICES ASSUME KeysInit PROVE IInv
  OBVIOUS
<1>1. /\ keys = {} /\ undone = {} /\ due = FALSE /\ rotated = FALSE
      /\ server = [up |-> FALSE, stops |-> 0, storageKey |-> 0, keys |-> {}, claims |-> {}]
      /\ signed = [k \in KeyIds |-> 0] /\ clients = [id : Clients, by : {0}]
  BY DEF KeysInit
<1>2. 0 \in StorageKeys
  BY Lifetimes DEF StorageKeys
<1>3. KeysTypeOK
  <2>1. server \in [up : BOOLEAN, stops : 0..StopBound, storageKey : StorageKeys,
                    keys : SUBSET [id : KeyIds, left : 0..KEY_TTL], claims : SUBSET Claims]
    BY <1>1, <1>2, Lifetimes
  <2>2. /\ 0 \in 0..TOKEN_TTL /\ 0 \in 0..EditBound /\ 0 \in 0..FaultBound
    BY Lifetimes
  <2>3. clients \subseteq [id : Clients, by : StorageKeys]
    BY <1>1, <1>2
  <2>4. signed \in [KeyIds -> 0..TOKEN_TTL]
    BY <1>1, <2>2
  <2>5. QED BY <1>1, <2>1, <2>2, <2>3, <2>4 DEF KeysInit, KeysTypeOK
<1>4. AllOpen(keys \cup clients, server.storageKey, rotated)
  BY <1>1 DEF AllOpen
<1>5. Held(keys, signed, undone)
  BY <1>1 DEF Held
<1>6. ServerHolds /\ InStep
  BY <1>1 DEF ServerHolds, InStep
<1>7. QED BY <1>1, <1>3, <1>4, <1>5, <1>6 DEF IInv

LEMMA KeysNextHolds ==
  ASSUME IInv, [KeysNext]_keyVars
  PROVE  IInv'
<1>1. CASE UNCHANGED keyVars
  BY <1>1 DEF keyVars, IInv, KeysTypeOK, ServerHolds, InStep, ids
<1>2. QED
  BY <1>1, SignedHolds, TickHolds, MaintainedHolds, StoppedHolds, StartedHolds, ClaimSavedHolds,
     ClaimDeletedHolds, ClientSavedHolds, ClientRemovedHolds DEF KeysNext

THEOREM KeyLifecycleInvariant == KeysSpec => []IInv
BY KeysInitHolds, KeysNextHolds, PTL DEF KeysSpec

(* The tables, the provider and the counters keep their types; in          *)
(* particular no two rows have the same key id.                            *)
THEOREM KeysTyped == KeysSpec => []KeysTypeOK
<1>1. IInv => KeysTypeOK
  BY DEF IInv
<1>2. QED BY <1>1, KeyLifecycleInvariant, PTL

(* Whatever is stored can be decrypted, however often STORAGE_KEY changes: *)
(* a new one waits for a committed maintenance run, after which nothing is *)
(* left of the one before (updateEncryptedTables).                         *)
THEOREM RotationSafeHolds == KeysSpec => []RotationSafe
<1>1. IInv => RotationSafe
  BY DEF IInv, AllOpen, RotationSafe, opens
<1>2. QED BY <1>1, KeyLifecycleInvariant, PTL

(* A token that has not expired can be verified: its key has a row that    *)
(* outlives it, and the provider has the key, unless the transaction that  *)
(* made it was undone (jwksNeedUpdate, getNextConfig).                     *)
THEOREM TokensVerifiableHolds == KeysSpec => []TokensVerifiable
<1>1. IInv => TokensVerifiable
  <2> SUFFICES ASSUME IInv, NEW k \in KeyIds \ undone, signed[k] > 0
               PROVE  /\ k \in ids(usable(Tables, server.storageKey))
                      /\ server.up => k \in ids(server.keys)
    BY DEF TokensVerifiable
  <2>1. PICK r \in keys : r.id = k /\ signed[k] <= r.left
    BY DEF IInv, Held
  <2>2. r.left > 0
    BY <2>1, TypedState, Lifetimes DEF KeyRow
  <2>3. k \in ids(usable(Tables, server.storageKey))
    <3>1. opens(server.storageKey, r.by)
      BY DEF IInv, AllOpen, opens
    <3>2. r \in usable(Tables, server.storageKey)
      BY <2>2, <3>1, TypedState DEF usable
    <3>3. QED BY <2>1, <3>2 DEF ids
  <2>4. server.up => k \in ids(server.keys)
    BY <2>1, <2>2 DEF IInv, ServerHolds, Known, HasRow, ids
  <2>5. QED BY <2>3, <2>4
<1>2. QED BY <1>1, KeyLifecycleInvariant, PTL

(* After a committed maintenance run the provider offers the claims that   *)
(* are stored, and has exactly the keys that are (doMaintenance).          *)
THEOREM ProviderInStepHolds == KeysSpec => []ProviderInStep
<1>1. IInv => ProviderInStep
  <2> SUFFICES ASSUME IInv, server.up, ~due, ~touched
               PROVE  /\ server.claims = claims
                      /\ {r.id : r \in {q \in server.keys : q.left > 0}}
                           = ids(usable(Tables, server.storageKey))
    BY DEF ProviderInStep
  <2>1. usable(Tables, server.storageKey) = {r \in keys : r.left > 0}
    <3>1. AllOpen(keys, server.storageKey, rotated)
      BY DEF IInv, AllOpen
    <3>2. QED BY <3>1, TypedState, OpenRows
  <2>2. server.claims = claims /\ Stored(keys, server.keys, {})
    BY DEF IInv, InStep
  <2>3. Known(keys, server.keys)
    BY DEF IInv, ServerHolds
  <2>4. \A q \in server.keys : q.left > 0 => \E r \in keys : r.left > 0 /\ r.id = q.id
    BY <2>2 DEF Stored, HasRow
  <2>5. \A r \in keys : r.left > 0 => \E q \in server.keys : q.left > 0 /\ q.id = r.id
    BY <2>3 DEF Known, HasRow
  <2>6. {r.id : r \in {q \in server.keys : q.left > 0}} = {r.id : r \in {q \in keys : q.left > 0}}
    BY <2>4, <2>5
  <2>7. QED BY <2>1, <2>2, <2>6 DEF ids
<1>2. QED BY <1>1, KeyLifecycleInvariant, PTL
=============================================================================
