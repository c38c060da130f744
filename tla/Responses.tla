----------------------------- MODULE Responses ------------------------------
(***************************************************************************)
(* The rate limit headers of response.rs.  Wall-clock times are            *)
(* nanoseconds since the Unix epoch, negative before it.  Bodies, and the  *)
(* escaping of the tier's name in them, are left out.                      *)
(***************************************************************************)
EXTENDS Gcra

CONSTANT MaxWall        \* the end of SystemTime

\* Fault: rounded down to whole seconds.
ResetHeaderValueFloor(reset_after, now) ==
    CASE now + reset_after > MaxWall -> U64Max
      [] now + reset_after < 0 -> 0
      [] OTHER -> (now + reset_after) \div NanosPerSec

\* Unix seconds, rounded up; saturates past the end of SystemTime and before the
\* epoch.
ResetHeaderValue(reset_after, now) ==
    CASE now + reset_after > MaxWall -> U64Max
      [] now + reset_after < 0 -> 0
      [] OTHER -> CeilSecs(now + reset_after)

\* inject_headers
InfoHeaders(info, now) ==
    [limit       |-> info.limit,
     remaining   |-> info.remaining,
     reset       |-> ResetHeaderValue(info.reset_after, now),
     retry_after |-> None]

\* rate_limited_response
LimitedHeaders(limited, now) ==
    [limit       |-> limited.limit,
     remaining   |-> 0,
     reset       |-> ResetHeaderValue(limited.reset_after, now),
     retry_after |-> CeilSecs(limited.retry_after)]

=============================================================================
