---------------------------- MODULE MCRedisQuota ----------------------------
(* A small instance of RedisQuota, and so of RedisStorage. *)
EXTENDS RedisQuota, RedisKey, SequencesExt, TLC

CONSTANTS t1, k1, d0, d1, d2, x

\* A burst of 2 and an interval of 3 nanoseconds, which is 1.5 microseconds.
MCOneTier == k1 :> [max_burst |-> 2, window |-> 7]

\* The digits of the lengths that occur below.
MCDecimal(n) == <<<<d0, d1, d2>>[n + 1]>>

MCPrefix == <<x, Colon>>

\* Every string of up to two characters out of a separator, a digit and a letter.
MCStrings == BoundedSeq({Colon, d1, x}, 2)

\* Both forms, with and without a prefix, with secrets within and past a block.
MCStorages ==
    {NewStorage, PlainUserIds(NewStorage), PlainUserIds(KeyPrefix(NewStorage, <<d1, Colon>>)),
     KeySecret(NewStorage, <<x>>), KeySecret(KeyPrefix(NewStorage, <<>>), <<x, x>>)}

ASSUME StoragesChecked == MCStorages \subseteq StorageConfig
ASSUME DecimalChecked == DecimalOK(0 .. 2)
ASSUME KeysChecked == \A storage \in MCStorages : KeysDistinct(storage, MCStrings)
=============================================================================
