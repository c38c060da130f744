------------------------------ MODULE RedisKey ------------------------------
(***************************************************************************)
(* The names of RedisStorage's keys (redis.rs).  Strings are sequences of  *)
(* characters: an application chooses tiers and user ids freely, so they   *)
(* may hold the separator and digits.  SHA-1 is taken to be free of        *)
(* collisions; a digest is one character that no string contains.          *)
(***************************************************************************)
EXTENDS Naturals, Sequences

CONSTANTS
    Char,           \* the characters of strings
    Colon,          \* ":"
    Decimal(_),     \* a number in decimal digits
    DefaultPrefix,  \* "trt:"
    NoSecret,       \* Option::None
    Ipad, Opad,     \* the bytes 0x36 and 0x5c
    Block           \* BLOCK, the size of a SHA-1 block

String == Seq(Char)

ASSUME ColonAssumption == Colon \in Char
ASSUME PrefixAssumption == DefaultPrefix \in String
ASSUME SecretAssumption == NoSecret \notin String

\* Digits are no separators, and a number is what its digits say.  The bound is
\* for evaluation; RedisKeyProofs takes it for every length.
DecimalOK(numbers) ==
    /\ \A n \in numbers : Decimal(n) \in Seq(Char \ {Colon})
    /\ \A m, n \in numbers : Decimal(m) = Decimal(n) => m = n

NewStorage == [key_prefix |-> DefaultPrefix, hash_user_ids |-> TRUE, key_secret |-> NoSecret]

KeyPrefix(storage, prefix) == [storage EXCEPT !.key_prefix = prefix]
PlainUserIds(storage) == [storage EXCEPT !.hash_user_ids = FALSE]
KeySecret(storage, secret) == [storage EXCEPT !.key_secret = secret]

Sha1(message) == <<[sha1 |-> message]>>

\* The key is a block padded with zeros, so a function of the secret or its
\* digest; one character stands for the block after the exclusive or.
HmacSha1(secret, message) ==
    LET key == IF Len(secret) > Block THEN Sha1(secret) ELSE secret
        block(pad) == <<[key |-> key, pad |-> pad]>>
    IN  Sha1(block(Opad) \o Sha1(block(Ipad) \o message))

\* A field, a separator and the rest.
Field(field, rest) == field \o (<<Colon>> \o rest)

PlainKey(key) == Field(Decimal(Len(key.tier)), Field(key.tier, key.user_id))

Digest(storage, user_id) ==
    IF storage.key_secret = NoSecret
    THEN Sha1(user_id)
    ELSE HmacSha1(storage.key_secret, user_id)

RedisKeyOf(storage, key) ==
    storage.key_prefix \o
        IF storage.hash_user_ids
        THEN Field(key.tier, Digest(storage, key.user_id))
        ELSE PlainKey(key)

-----------------------------------------------------------------------------

StorageConfig ==
    [key_prefix : String, hash_user_ids : BOOLEAN, key_secret : String \cup {NoSecret}]

\* redis.rs, redis_key: "Distinct keys always map to distinct Redis keys".  Two
\* users never share a bucket, even if tiers and user ids hold separators and
\* digits of their own.
KeysDistinct(storage, strings) ==
    \A key, other \in [tier : strings, user_id : strings] :
        RedisKeyOf(storage, key) = RedisKeyOf(storage, other) => key = other

=============================================================================
