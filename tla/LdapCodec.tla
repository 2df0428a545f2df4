----------------------------- MODULE LdapCodec -----------------------------
(***************************************************************************)
(* What the LDAP server does with bytes and names (ldap/server.ts,         *)
(* ldap/directory.ts, ldap/util.ts): the frames and integers of BER, the   *)
(* names of entries, and the matching of substrings.  Each is checked      *)
(* against what it is meant to compute, on one input per behaviour.        *)
(***************************************************************************)
EXTENDS Integers, SequencesExt

CONSTANTS
  MAX_FRAME_SIZE,
  Lengths,            \* lengths of a message, around every boundary
  Ids,                \* message ids, likewise
  Names,              \* user and group names: sequences of characters
  Texts,              \* values of an attribute
  Parts               \* what a substring filter asks for

ASSUME CodecAssumption ==
  /\ MAX_FRAME_SIZE \in Nat /\ Lengths \subseteq Nat /\ Ids \subseteq Nat
  /\ \A s \in Names \cup Texts \cup Parts : s \in Seq(STRING)

VARIABLE input        \* what is encoded or decoded, or NoInput

NoInput == [kind |-> "none"]

Inputs ==
  [kind : {"length"}, length : Lengths] \cup [kind : {"id"}, id : Ids]
    \cup [kind : {"name"}, name : Names]
    \cup [kind : {"text"}, text : Texts, initial : Parts, final : Parts]

(* FoldLeft of SequencesExt, in a form TLC evaluates in one pass.          *)
fold(op(_, _), base, s) ==
  LET f[k \in 0..Len(s)] == IF k = 0 THEN base ELSE op(f[k - 1], s[k])
  IN f[Len(s)]

-----------------------------------------------------------------------------
(* Lengths and integers.  JavaScript's << is exact here: no input reaches  *)
(* 2^31.                                                                   *)

(* The digits of n in base 256, the highest first; none for 0.             *)
bytesOf(n) ==
  LET B[k \in 0..3] ==
        IF k = 0 THEN IF n >= 16777216 THEN <<n \div 16777216>> ELSE <<>>
        ELSE IF n >= 256 ^ (3 - k) THEN Append(B[k - 1], (n \div 256 ^ (3 - k)) % 256)
        ELSE <<>>
  IN B[3]

valueOf(bytes) == fold(LAMBDA v, b : 256 * v + b, 0, bytes)

(* Mistaken by one at the end of the short form.                           *)
berLengthShort(length) ==
  IF length <= 128 THEN <<length>> ELSE <<128 + Len(bytesOf(length))>> \o bytesOf(length)

berLength(length) ==
  IF length < 128 THEN <<length>> ELSE <<128 + Len(bytesOf(length))>> \o bytesOf(length)

Incomplete == [bytes |-> 0, value |-> 0]

(* The length at the head of a buffer of which these are the first bytes   *)
(* after the tag.                                                          *)
readLength(bytes) ==
  IF bytes = <<>> THEN Incomplete
  ELSE IF bytes[1] < 128 THEN [bytes |-> 1, value |-> bytes[1]]
  ELSE LET count == bytes[1] - 128
       IN IF count = 0 \/ count > 4 \/ count >= Len(bytes) THEN Incomplete
          ELSE LET value == valueOf(SubSeq(bytes, 2, count + 1))
               IN IF value > MAX_FRAME_SIZE THEN Incomplete
                  ELSE [bytes |-> 1 + count, value |-> value]

(* How much of a buffer is its first frame; 0 when it is not all there.    *)
(* bytes are the first bytes after the tag, size is that of the buffer.    *)
readLDAPFrame(bytes, size) ==
  LET length == readLength(bytes)
      whole == 1 + length.bytes + length.value
  IN IF length = Incomplete \/ size < whole THEN 0 ELSE whole

(* processBuffer refuses a frame larger than MAX_FRAME_SIZE in all.        *)
frameRefused(whole) == whole > MAX_FRAME_SIZE

(* The bytes of a non-negative integer.                                    *)
berInteger(n) ==
  LET bytes == IF n = 0 THEN <<0>> ELSE bytesOf(n)
  IN IF bytes[1] >= 128 THEN <<0>> \o bytes ELSE bytes

(* Two's complement, of which readInteger takes four bytes at most.        *)
signed(bytes) ==
  IF bytes[1] < 128 THEN valueOf(bytes) ELSE valueOf(bytes) - 256 ^ Len(bytes)

framesSurvive(n) ==
  LET head == berLength(n)
      whole == 1 + Len(head) + n
      \* the first bytes after the tag, of a buffer of this size
      first(size) == [k \in 1..(IF size > 8 THEN 8 ELSE size) - 1 |->
                        IF k <= Len(head) THEN head[k] ELSE 0]
  IN ~frameRefused(whole) =>
       \A size \in (1..10) \cup {whole - 1, whole, whole + 1, whole + 5} :
         readLDAPFrame(first(size), size) = IF size < whole THEN 0 ELSE whole

(***************************************************************************)
(* A message is taken off the buffer once all of its bytes are there, and  *)
(* not before, however the network cuts it up, and none up to the limit is *)
(* refused or waited for in vain: readLDAPFrame agrees with berTLV about   *)
(* where it ends.  And its answer bears its id: what berInteger writes is  *)
(* the two's complement a client reads, and fits what readInteger takes,   *)
(* for every id up to 2^31 - 1.                                            *)
(***************************************************************************)
MessagesSurvive ==
  /\ input.kind = "length" => framesSurvive(input.length)
  /\ input.kind = "id" =>
       Len(berInteger(input.id)) <= 4 /\ signed(berInteger(input.id)) = input.id

-----------------------------------------------------------------------------
(* Distinguished names.                                                    *)

lower(s) == [k \in DOMAIN s |-> IF s[k] = "A" THEN "a" ELSE s[k]]

SpecialChars == {"\\", ",", "+", "<", ";", "=", "#"}

(* Mistaken: the character that escapes is not escaped itself.             *)
escapeDNValueBare(s) ==
  fold(LAMBDA out, ch : IF ch \in SpecialChars \ {"\\"} THEN out \o <<"\\", ch>>
                                                           ELSE Append(out, ch), <<>>, s)

escapeDNValue(s) ==
  LET marked == fold(LAMBDA out, ch : IF ch \in SpecialChars THEN out \o <<"\\", ch>>
                                          ELSE Append(out, ch), <<>>, s)
      led == IF marked # <<>> /\ marked[1] = " " THEN <<"\\">> \o marked ELSE marked
  IN IF led # <<>> /\ led[Len(led)] = " " THEN Front(led) \o <<"\\", " ">> ELSE led

trim(s) ==
  LET ink == {k \in DOMAIN s : s[k] # " "}
  IN IF ink = {} THEN <<>>
     ELSE SubSeq(s, CHOOSE k \in ink : \A j \in ink : k <= j,
                    CHOOSE k \in ink : \A j \in ink : k >= j)

(* The characters of s, each with whether a backslash before makes it      *)
(* literal.                                                                *)
bare(s) ==
  fold(LAMBDA a, ch : [escaped |-> ~a.escaped /\ ch = "\\",
                       chars |-> Append(a.chars, [ch |-> ch, bare |-> ~a.escaped])],
       [escaped |-> FALSE, chars |-> <<>>], s).chars

splitUnescaped(s, separator) ==
  fold(LAMBDA parts, c :
         IF c.bare /\ c.ch = separator THEN Append(parts, <<>>)
         ELSE [parts EXCEPT ![Len(parts)] = Append(@, c.ch)],
       <<<<>>>>, bare(s))

(* The first place of target in what bare has read; 0 if there is none.    *)
firstBare(chars, target) ==
  fold(LAMBDA found, k : IF found = 0 /\ chars[k].bare /\ chars[k].ch = target THEN k ELSE found,
       0, [k \in DOMAIN chars |-> k])

findUnescaped(s, target) == firstBare(bare(s), target)

(* A backslash is dropped and what follows it is kept (two hexadecimal     *)
(* digits, which escapeDNValue never writes, are left out).                *)
unescapeDNValue(s) ==
  LET end(a) == IF a.escaped THEN Append(a.out, "\\") ELSE a.out
  IN end(fold(LAMBDA a, ch : IF ~a.escaped /\ ch = "\\" THEN [a EXCEPT !.escaped = TRUE]
                             ELSE [escaped |-> FALSE, out |-> Append(a.out, ch)],
              [escaped |-> FALSE, out |-> <<>>], s))

NoAttribute == <<"unreadable">>
NoDN == <<NoAttribute>>

attributeAt(s, eq) ==
  IF eq < 2 THEN NoAttribute
  ELSE <<lower(trim(SubSeq(s, 1, eq - 1))),
         lower(unescapeDNValue(trim(SubSeq(s, eq + 1, Len(s)))))>>

(* The attribute and the value of one part of a relative name.             *)
attributeValue(s) == attributeAt(s, findUnescaped(s, "="))

forEach(s, op(_)) == [k \in DOMAIN s |-> op(s[k])]

(* Whether every part of every relative name could be read.                *)
readable(rdns) ==
  IF \E k \in DOMAIN rdns : NoAttribute \in ToSet(rdns[k]) THEN NoDN ELSE rdns

parseDN(dn) ==
  IF trim(dn) = <<>> THEN <<>>
  ELSE readable(forEach(splitUnescaped(trim(dn), ","),
                        LAMBDA r : forEach(splitUnescaped(r, "+"), attributeValue)))

rdnEqual(a, b) == Len(a) = Len(b) /\ \A k \in DOMAIN a : a[k] \in ToSet(b)

dnEndsWith(dn, suffix) ==
  /\ Len(suffix) <= Len(dn)
  /\ \A k \in DOMAIN suffix : rdnEqual(dn[Len(dn) - Len(suffix) + k], suffix[k])

(* scope says how far below the base the entry may lie: a base search is   *)
(* for the entry itself, a search of one level for what is right below.    *)
inScope(base, entry, scope) ==
  /\ base # NoDN /\ entry # NoDN /\ dnEndsWith(entry, base)
  /\ scope = "base" => Len(entry) = Len(base)
  /\ scope = "one" => Len(entry) = Len(base) + 1

entryInScope(baseDN, entryDN, scope) == inScope(parseDN(baseDN), parseDN(entryDN), scope)

rdn(attribute, value) == attribute \o <<"=">> \o escapeDNValue(value)

LDAP_BASE_DN == <<"d", "c", "=", "x">>
usersBaseDN == <<"o", "u", "=", "p", ",">> \o LDAP_BASE_DN
groupsBaseDN == <<"o", "u", "=", "g", ",">> \o LDAP_BASE_DN
ldapUserDN(name) == rdn(<<"u", "i", "d">>, name) \o <<",">> \o usersBaseDN
ldapGroupDN(name) == rdn(<<"c", "n">>, name) \o <<",">> \o groupsBaseDN

Nobody == <<"nobody">>

(* The name that the relative names before the branch of the users give.   *)
uidOf(rdns) ==
  IF rdns # NoDN /\ Len(rdns) = 1 /\ Len(rdns[1]) = 1 /\ rdns[1][1][1] = <<"u", "i", "d">>
  THEN rdns[1][1][2] ELSE Nobody

(* The name a bind DN stands for.                                          *)
getLDAPUserIdByDN(dn) ==
  IF ~IsSuffix(lower(usersBaseDN), lower(dn)) THEN Nobody
  ELSE uidOf(parseDN(SubSeq(dn, 1, Len(dn) - Len(usersBaseDN) - 1)))

(* The searches a listing is made of, and whether each is to find the user *)
(* (user), and the group (group), of the name.                             *)
Searches ==
  {[base |-> usersBaseDN, scope |-> "one", user |-> TRUE, group |-> FALSE],
   [base |-> groupsBaseDN, scope |-> "one", user |-> FALSE, group |-> TRUE],
   [base |-> groupsBaseDN, scope |-> "sub", user |-> FALSE, group |-> TRUE],
   [base |-> LDAP_BASE_DN, scope |-> "sub", user |-> TRUE, group |-> TRUE],
   [base |-> LDAP_BASE_DN, scope |-> "one", user |-> FALSE, group |-> FALSE],
   [base |-> <<>>, scope |-> "base", user |-> FALSE, group |-> FALSE]}

namesSurvive(name, user, group) ==
  /\ getLDAPUserIdByDN(user) = lower(name)
  /\ getLDAPUserIdByDN(group) = Nobody
  /\ \A s \in Searches :
       /\ entryInScope(s.base, user, s.scope) = s.user
       /\ entryInScope(s.base, group, s.scope) = s.group

-----------------------------------------------------------------------------
(* Substring filters: initial*any*...*any*final.                           *)

(* Where part first occurs in s from position k on; 0 if it does not.      *)
indexOf(s, part, k) ==
  LET found == {j \in k..(Len(s) - Len(part) + 1) : SubSeq(s, j, j + Len(part) - 1) = part}
  IN IF found = {} THEN 0 ELSE CHOOSE j \in found : \A i \in found : j <= i

(* left is where the remaining text begins, 0 once the match has failed.   *)
substringMatches(text, initial, any, final) ==
  LET s == lower(text)
      step(k, part) ==
        IF k = 0 \/ indexOf(s, lower(part), k) = 0 THEN 0
        ELSE indexOf(s, lower(part), k) + Len(part)
      left == fold(step, IF IsPrefix(lower(initial), s) THEN Len(initial) + 1 ELSE 0, any)
  IN left # 0 /\ IsSuffix(lower(final), SubSeq(s, left, Len(s)))

(* The text is initial, then the parts in order with anything between      *)
(* them, then final, nothing counted twice.                                *)
composed(text, initial, p, q, final) ==
  LET t == lower(text)
      at(part, k) == k + Len(part) - 1 <= Len(t)
                       /\ SubSeq(t, k, k + Len(part) - 1) = lower(part)
  IN \E i, j \in 1..(Len(text) + 1) :
       /\ at(initial, 1) /\ at(p, i) /\ at(q, j)
       /\ Len(initial) < i /\ i + Len(p) <= j
       /\ j + Len(q) <= Len(t) - Len(final) + 1
       /\ at(final, Len(t) - Len(final) + 1)

(***************************************************************************)
(* Whatever characters a name has, the DN made of it is read back as the   *)
(* same name (but for case, which the user table ignores), so that every   *)
(* listed user can bind under the DN listed, and the entry lies where a    *)
(* search looks for it: right below its own branch, in no other, and not   *)
(* at the root, which anyone may read (ldapUserDN, getLDAPUserIdByDN,      *)
(* entryInScope).  And a substring filter finds it whenever it should:     *)
(* taking each part where it first occurs finds a match if there is one    *)
(* (substringMatches).                                                     *)
(***************************************************************************)
SearchesFindNames ==
  /\ input.kind = "name" =>
       namesSurvive(input.name, ldapUserDN(input.name), ldapGroupDN(input.name))
  /\ input.kind = "text" =>
       \A p, q \in Parts :
         substringMatches(input.text, input.initial, <<p, q>>, input.final)
           <=> composed(input.text, input.initial, p, q, input.final)
=============================================================================
