--------------------------- MODULE RedisKeyProofs ---------------------------
(* Distinct keys have distinct names in Redis, for all strings. *)
EXTENDS RedisKey, SequenceTheorems, TLAPS

\* Where the elements of a concatenation are.
LEMMA ConcatAt ==
    ASSUME NEW S, NEW s \in Seq(S), NEW u \in Seq(S)
    PROVE  /\ s \o u \in Seq(S)
           /\ Len(s \o u) = Len(s) + Len(u)
           /\ \A i \in 1 .. Len(s) : (s \o u)[i] = s[i]
           /\ \A i \in 1 .. Len(u) : (s \o u)[Len(s) + i] = u[i]
<1>1. Len(s) \in Nat /\ Len(u) \in Nat
    OBVIOUS
<1>2. \A i \in 1 .. Len(s) + Len(u) :
          (s \o u)[i] = IF i <= Len(s) THEN s[i] ELSE u[i - Len(s)]
    BY ConcatProperties
<1>3. ASSUME NEW i \in 1 .. Len(u) PROVE (s \o u)[Len(s) + i] = u[i]
  <2>1. /\ Len(s) + i \in 1 .. Len(s) + Len(u)
        /\ ~(Len(s) + i <= Len(s))
        /\ Len(s) + i - Len(s) = i
      BY <1>1
  <2> QED BY <1>2, <2>1
<1>4. ASSUME NEW i \in 1 .. Len(s) PROVE (s \o u)[i] = s[i]
  <2>1. i \in 1 .. Len(s) + Len(u) /\ i <= Len(s)
      BY <1>1
  <2> QED BY <1>2, <2>1
<1> QED BY <1>3, <1>4, ConcatProperties

\* A sequence of one element.
LEMMA Singleton ==
    ASSUME NEW S, NEW e \in S, NEW q, q = <<e>>
    PROVE  q \in Seq(S) /\ Len(q) = 1
OBVIOUS

\* Concatenations whose left parts are of the same length are equal part by part.
LEMMA Cancel ==
    ASSUME NEW S, NEW s \in Seq(S), NEW t \in Seq(S), NEW u \in Seq(S), NEW v \in Seq(S)
    PROVE  s \o u = t \o v /\ Len(s) = Len(t) => s = t /\ u = v
<1>1. /\ Len(s \o u) = Len(s) + Len(u)
      /\ \A i \in 1 .. Len(s) : (s \o u)[i] = s[i]
      /\ \A i \in 1 .. Len(u) : (s \o u)[Len(s) + i] = u[i]
    BY ConcatAt
<1>2. /\ Len(t \o v) = Len(t) + Len(v)
      /\ \A i \in 1 .. Len(t) : (t \o v)[i] = t[i]
      /\ \A i \in 1 .. Len(v) : (t \o v)[Len(t) + i] = v[i]
    BY ConcatAt
<1>3. HAVE s \o u = t \o v /\ Len(s) = Len(t)
<1>4. Len(u) = Len(v)
    BY <1>1, <1>2, <1>3
<1>5. \A i \in 1 .. Len(s) : s[i] = t[i]
    BY <1>1, <1>2, <1>3
<1>6. ASSUME NEW i \in 1 .. Len(u) PROVE u[i] = v[i]
  <2>1. (s \o u)[Len(s) + i] = u[i]
      BY <1>1, Zenon
  <2>2. (t \o v)[Len(t) + i] = v[i]
    <3>1. i \in 1 .. Len(v)
        BY <1>4, Zenon
    <3> QED BY <1>2, <3>1, Zenon
  <2> QED BY <1>3, <2>1, <2>2, Zenon
<1>7. s = t
    BY <1>3, <1>5, SeqEqual
<1>8. u = v
    BY <1>4, <1>6, SeqEqual
<1> QED BY <1>7, <1>8

\* The same of fields with their separators.
LEMMA FieldCancel ==
    ASSUME NEW S, Colon \in S,
           NEW a \in Seq(S), NEW b \in Seq(S), NEW x \in Seq(S), NEW y \in Seq(S),
           Field(a, x) = Field(b, y), Len(a) = Len(b)
    PROVE  a = b /\ x = y
<1> DEFINE c == <<Colon>>
<1>1. c \in Seq(S) /\ Len(c) = 1
    OBVIOUS
<1>2. c \o x \in Seq(S) /\ c \o y \in Seq(S)
    BY <1>1, ConcatProperties
<1>3. a \o (c \o x) = b \o (c \o y)
    BY DEF Field
<1> HIDE DEF c
<1>4. a = b /\ c \o x = c \o y
    BY <1>2, <1>3, Cancel
<1> QED BY <1>1, <1>4, Cancel

\* A first field without separators ends where the first separator is.
LEMMA FirstField ==
    ASSUME NEW a \in Seq(Char \ {Colon}), NEW b \in Seq(Char \ {Colon}),
           NEW x \in String, NEW y \in String,
           Field(a, x) = Field(b, y)
    PROVE  ~(Len(a) < Len(b))
<1> SUFFICES ASSUME Len(a) < Len(b) PROVE FALSE
    OBVIOUS
<1> DEFINE c == <<Colon>>
<1>1. c \in Seq(Char) /\ Len(c) = 1 /\ c[1] = Colon
    BY ColonAssumption
<1>2. a \in Seq(Char) /\ b \in Seq(Char) /\ x \in Seq(Char) /\ y \in Seq(Char)
    BY DEF String
<1>3. a \o (c \o x) = b \o (c \o y)
    BY DEF Field
<1> HIDE DEF c
<1>4. /\ c \o x \in Seq(Char) /\ Len(c \o x) = 1 + Len(x) /\ (c \o x)[1] = Colon
      /\ c \o y \in Seq(Char)
  <2>1. 1 \in 1 .. Len(c)
      BY <1>1
  <2>2. (c \o x)[1] = c[1]
      BY <1>1, <1>2, <2>1, ConcatAt
  <2>3. Len(c \o x) = Len(c) + Len(x) /\ c \o x \in Seq(Char) /\ c \o y \in Seq(Char)
      BY <1>1, <1>2, ConcatAt
  <2> QED BY <1>1, <2>2, <2>3
<1>5. (a \o (c \o x))[Len(a) + 1] = Colon
  <2>1. 1 \in 1 .. Len(c \o x)
      BY <1>2, <1>4
  <2> QED BY <1>2, <1>4, <2>1, ConcatAt
<1>6. (b \o (c \o y))[Len(a) + 1] = b[Len(a) + 1]
  <2>1. Len(a) + 1 \in 1 .. Len(b)
      BY <1>2
  <2> QED BY <1>2, <1>4, <2>1, ConcatAt
<1>7. b[Len(a) + 1] # Colon
    OBVIOUS
<1> QED BY <1>3, <1>5, <1>6, <1>7

\* A digest tells the user id, with or without a secret.
LEMMA DigestInjective ==
    ASSUME NEW storage, NEW u \in String, NEW v \in String,
           Digest(storage, u) = Digest(storage, v)
    PROVE  u = v
<1>1. \A p, q : Sha1(p) = Sha1(q) => p = q
    BY DEF Sha1
<1>2. CASE storage.key_secret = NoSecret
    BY <1>1, <1>2 DEF Digest
<1>3. CASE storage.key_secret # NoSecret
  <2> DEFINE key == IF Len(storage.key_secret) > Block
                    THEN Sha1(storage.key_secret) ELSE storage.key_secret
             inner == <<[key |-> key, pad |-> Ipad]>>
             outer == <<[key |-> key, pad |-> Opad]>>
             S == Char \cup {inner[1], outer[1], Sha1(inner \o u)[1], Sha1(inner \o v)[1]}
  <2>1. Sha1(outer \o Sha1(inner \o u)) = Sha1(outer \o Sha1(inner \o v))
      BY <1>3 DEF Digest, HmacSha1
  <2>2. /\ inner \in Seq(S) /\ outer \in Seq(S) /\ u \in Seq(S) /\ v \in Seq(S)
        /\ Sha1(inner \o u) \in Seq(S) /\ Sha1(inner \o v) \in Seq(S)
      BY DEF String, Sha1
  <2> HIDE DEF inner, outer, S
  <2>3. outer \o Sha1(inner \o u) = outer \o Sha1(inner \o v)
      BY <1>1, <2>1
  <2>4. Sha1(inner \o u) = Sha1(inner \o v)
      BY <2>2, <2>3, Cancel
  <2>5. inner \o u = inner \o v
      BY <1>1, <2>4
  <2> QED BY <2>2, <2>5, Cancel
<1> QED BY <1>2, <1>3

\* A digest has one length, and is no part of a string.
LEMMA DigestLength ==
    ASSUME NEW storage, NEW u
    PROVE  Digest(storage, u) = <<Digest(storage, u)[1]>>
<1>1. \A m : Sha1(m) = <<Sha1(m)[1]>>
    BY DEF Sha1
<1>2. CASE storage.key_secret = NoSecret
    BY <1>1, <1>2 DEF Digest
<1>3. CASE storage.key_secret # NoSecret
    BY <1>1, <1>3 DEF Digest, HmacSha1
<1> QED BY <1>2, <1>3

\* The names of the plain form differ.
LEMMA PlainDistinct ==
    ASSUME DecimalOK(Nat),
           NEW key \in [tier : String, user_id : String],
           NEW other \in [tier : String, user_id : String],
           PlainKey(key) = PlainKey(other)
    PROVE  key = other
<1> DEFINE a == Decimal(Len(key.tier))
           b == Decimal(Len(other.tier))
           x == Field(key.tier, key.user_id)
           y == Field(other.tier, other.user_id)
<1>1. /\ key.tier \in Seq(Char) /\ other.tier \in Seq(Char)
      /\ key.user_id \in Seq(Char) /\ other.user_id \in Seq(Char)
      /\ Len(key.tier) \in Nat /\ Len(other.tier) \in Nat
    BY DEF String
<1>2. a \in Seq(Char \ {Colon}) /\ b \in Seq(Char \ {Colon})
    BY <1>1 DEF DecimalOK
<1>3. x \in String /\ y \in String
  <2>1. <<Colon>> \in Seq(Char)
      BY ColonAssumption
  <2> QED BY <1>1, <2>1, ConcatProperties DEF Field, String
<1>4. Field(a, x) = Field(b, y)
    BY DEF PlainKey
<1>5. a \in Seq(Char) /\ b \in Seq(Char) /\ x \in Seq(Char) /\ y \in Seq(Char)
    BY <1>2, <1>3 DEF String
<1> HIDE DEF a, b, x, y
<1>6. Len(a) = Len(b)
  <2>1. ~(Len(a) < Len(b))
      BY <1>2, <1>3, <1>4, FirstField
  <2>2. ~(Len(b) < Len(a))
      BY <1>2, <1>3, <1>4, FirstField
  <2> QED BY <1>5, <2>1, <2>2
<1>7. a = b /\ x = y
    BY <1>4, <1>5, <1>6, ColonAssumption, FieldCancel
<1>8. Len(key.tier) = Len(other.tier)
    BY <1>1, <1>7 DEF a, b, DecimalOK
<1>9. key.tier = other.tier /\ key.user_id = other.user_id
    BY <1>1, <1>7, <1>8, ColonAssumption, FieldCancel DEF x, y
<1> QED BY <1>9

\* The names of the hashed form differ.
LEMMA HashedDistinct ==
    ASSUME NEW storage,
           NEW key \in [tier : String, user_id : String],
           NEW other \in [tier : String, user_id : String],
           Field(key.tier, Digest(storage, key.user_id)) =
               Field(other.tier, Digest(storage, other.user_id))
    PROVE  key = other
<1> DEFINE d == Digest(storage, key.user_id)
           e == Digest(storage, other.user_id)
           S == Char \cup {d[1], e[1]}
<1>1. /\ d \in Seq(S) /\ Len(d) = 1
      /\ e \in Seq(S) /\ Len(e) = 1
  <2>1. d = <<d[1]>> /\ e = <<e[1]>>
      BY DigestLength
  <2>2. d[1] \in S /\ e[1] \in S
      OBVIOUS
  <2> HIDE DEF d, e, S
  <2> QED BY <2>1, <2>2, Singleton
<1>2. /\ key.tier \in Seq(S) /\ other.tier \in Seq(S)
      /\ key.user_id \in String /\ other.user_id \in String
      /\ Colon \in S
    BY ColonAssumption DEF String
<1>3. Field(key.tier, d) = Field(other.tier, e)
    OBVIOUS
<1> HIDE DEF d, e, S
<1>4. \A t \in Seq(S), r \in Seq(S) : Len(r) = 1 => Len(Field(t, r)) = Len(t) + 2
  <2>1. <<Colon>> \in Seq(S) /\ Len(<<Colon>>) = 1
      BY <1>2
  <2>2. TAKE t \in Seq(S), r \in Seq(S)
  <2>3. <<Colon>> \o r \in Seq(S) /\ Len(<<Colon>> \o r) = 1 + Len(r)
      BY <2>1, ConcatAt
  <2>4. Len(t \o (<<Colon>> \o r)) = Len(t) + (1 + Len(r))
      BY <2>3, ConcatAt
  <2> QED BY <2>4 DEF Field
<1>5. Len(key.tier) = Len(other.tier)
    BY <1>1, <1>2, <1>3, <1>4
<1>6. key.tier = other.tier /\ d = e
    BY <1>1, <1>2, <1>3, <1>5, FieldCancel
<1>7. key.user_id = other.user_id
    BY <1>2, <1>6, DigestInjective DEF d, e
<1> QED BY <1>6, <1>7

\* redis.rs, redis_key: "Distinct keys always map to distinct Redis keys".  For
\* every prefix, secret and form, and for all tiers and user ids, two keys with
\* the same name in Redis are the same key, if SHA-1 has no collisions and a
\* number is written in digits that tell it.
THEOREM RedisKeysDistinct ==
    ASSUME DecimalOK(Nat), NEW storage \in StorageConfig
    PROVE  KeysDistinct(storage, String)
<1> SUFFICES ASSUME NEW key \in [tier : String, user_id : String],
                    NEW other \in [tier : String, user_id : String],
                    RedisKeyOf(storage, key) = RedisKeyOf(storage, other)
             PROVE  key = other
    BY DEF KeysDistinct
<1> DEFINE name(k) == IF storage.hash_user_ids
                     THEN Field(k.tier, Digest(storage, k.user_id))
                     ELSE PlainKey(k)
           S == Char \cup {Digest(storage, key.user_id)[1], Digest(storage, other.user_id)[1]}
<1>1. storage.key_prefix \in Seq(S)
    BY DEF StorageConfig, String
<1>2. name(key) \in Seq(S) /\ name(other) \in Seq(S)
  <2>1. ASSUME NEW k \in {key, other} PROVE name(k) \in Seq(S)
    <3>1. /\ k.tier \in Seq(S) /\ k.user_id \in Seq(S)
          /\ k.tier \in String
          /\ <<Colon>> \in Seq(S)
        BY ColonAssumption DEF String
    <3>2. Digest(storage, k.user_id) \in Seq(S)
      <4>1. Digest(storage, k.user_id) = <<Digest(storage, k.user_id)[1]>>
          BY DigestLength
      <4>2. Digest(storage, k.user_id)[1] \in S
          OBVIOUS
      <4> HIDE DEF S
      <4> QED BY <4>1, <4>2, Singleton
    <3>3. Decimal(Len(k.tier)) \in Seq(S)
      <4>1. Decimal(Len(k.tier)) \in Seq(Char \ {Colon})
        <5>1. Len(k.tier) \in Nat
            BY <3>1 DEF String
        <5> QED BY <5>1 DEF DecimalOK
      <4> QED BY <4>1
    <3>4. \A f, r \in Seq(S) : Field(f, r) \in Seq(S)
        BY <3>1, ConcatProperties DEF Field
    <3> QED BY <3>1, <3>2, <3>3, <3>4 DEF PlainKey
  <2> QED BY <2>1
<1>3. storage.key_prefix \o name(key) = storage.key_prefix \o name(other)
    BY DEF RedisKeyOf
<1>4. name(key) = name(other)
  <2> HIDE DEF name, S
  <2> QED BY <1>1, <1>2, <1>3, Cancel
<1>5. CASE storage.hash_user_ids
    BY <1>4, <1>5, HashedDistinct
<1>6. CASE ~storage.hash_user_ids
    BY <1>4, <1>6, PlainDistinct
<1> QED BY <1>5, <1>6

=============================================================================
