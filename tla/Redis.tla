---------------------------------- MODULE Redis ----------------------------------
(***************************************************************************)
(* The structures of caching/redis_data_structures.py, one key of each:     *)
(* the string with SET, NX, EX, INCR and lazy expiry; the list with pushes  *)
(* and counted pops at both ends; the hash, the set and the sorted set,     *)
(* whose commands report how many members they added or removed.            *)
(***************************************************************************)
EXTENDS Integers, SequencesExt, FiniteSetsExt

CONSTANTS
  RedisMembers,    \* fields, members and list elements
  Scores,
  MaxRedisOps, MaxRedisTime   \* bounds

ASSUME RedisAssumption == IsFiniteSet(RedisMembers) /\ Scores \subseteq Nat /\ MaxRedisOps \in Nat

VARIABLES
  redis,       \* which structure: "string", "list", "hash", "set", "zset"
  str,         \* RedisString: the value of the key; -1 when there is none
  str_expires, \* its expiry; -1 when there is none
  expected, deadline,   \* history: the value and the expiry in Redis itself
  stale_incr,  \* history: an INCR went on from an expired value, and neither a
               \* plain SET nor a DEL came since
  list,        \* RedisList
  pushed,      \* history: the elements in the order of the list's life, left to right
  popped_left, popped_right,
  scores,      \* RedisHash, RedisSet, RedisZSet: the members, with a value
  reported,    \* what the commands reported: members added minus removed
  redis_ops, redis_time

redisVars == <<redis, str, str_expires, expected, deadline, stale_incr, list, pushed, popped_left,
               popped_right, scores, reported, redis_ops, redis_time>>

stringVars == <<str, str_expires, expected, deadline, stale_incr, redis_time>>
listVars   == <<list, pushed, popped_left, popped_right>>
memberVars == <<scores, reported>>

RedisInit ==
  /\ redis \in {"string", "list", "hash", "set", "zset"}
  /\ str = -1 /\ str_expires = -1 /\ expected = -1 /\ deadline = -1
  /\ stale_incr = FALSE
  /\ list = <<>> /\ pushed = <<>> /\ popped_left = 0 /\ popped_right = 0
  /\ scores = <<>> /\ reported = 0
  /\ redis_ops = 0 /\ redis_time = 0

Command == redis_ops < MaxRedisOps /\ redis_ops' = redis_ops + 1 /\ UNCHANGED redis

-----------------------------------------------------------------------------
(* STRING; its values are numbers, expiry is noticed when the key is touched *)

StrExpired == str_expires # -1 /\ redis_time > str_expires
StrCheck   == str # -1 /\ ~StrExpired

\* SET with NX or without, with EX or without.
SetString(nx, ex) ==
  LET until == IF ex = 0 THEN -1 ELSE redis_time + ex IN
  /\ redis = "string" /\ Command
  /\ IF nx /\ StrCheck
     THEN UNCHANGED <<str, str_expires>>
     ELSE str' = 1 /\ str_expires' = until
  /\ IF nx /\ expected # -1
     THEN UNCHANGED <<expected, deadline>>
     ELSE expected' = 1 /\ deadline' = until
  /\ stale_incr' = (stale_incr /\ nx)
  /\ UNCHANGED <<listVars, memberVars, redis_time>>

\* GET, EXISTS and TTL: _check drops an expired entry.
GetString ==
  /\ redis = "string" /\ Command
  /\ IF StrExpired
     THEN str' = -1 /\ str_expires' = -1
     ELSE UNCHANGED <<str, str_expires>>
  /\ UNCHANGED <<expected, deadline, stale_incr, listVars, memberVars, redis_time>>

\* Mutant: the value that INCR stores has no expiry, as after SET.
IncrForGood ==
  /\ redis = "string" /\ Command
  /\ str' = (IF str = -1 THEN 1 ELSE str + 1) /\ str_expires' = -1
  /\ expected' = IF expected = -1 THEN 1 ELSE expected + 1
  /\ stale_incr' = (stale_incr \/ StrExpired)
  /\ UNCHANGED <<deadline, listVars, memberVars, redis_time>>

\* INCR does not look at the expiry: it goes on from an expired value.
Incr ==
  /\ redis = "string" /\ Command
  /\ str' = IF str = -1 THEN 1 ELSE str + 1
  /\ expected' = IF expected = -1 THEN 1 ELSE expected + 1
  /\ stale_incr' = (stale_incr \/ StrExpired)
  /\ UNCHANGED <<str_expires, deadline, listVars, memberVars, redis_time>>

\* Mutant: DEL leaves the deadline behind for the next key of that name.
DeleteKeepingTtl ==
  /\ redis = "string" /\ Command
  /\ str' = -1
  /\ expected' = -1 /\ deadline' = -1
  /\ stale_incr' = FALSE
  /\ UNCHANGED <<str_expires, listVars, memberVars, redis_time>>

DeleteString ==
  /\ redis = "string" /\ Command
  /\ str' = -1 /\ str_expires' = -1
  /\ expected' = -1 /\ deadline' = -1
  /\ stale_incr' = FALSE
  /\ UNCHANGED <<listVars, memberVars, redis_time>>

\* The clock; in Redis a key is gone at its deadline.
RedisTime ==
  LET gone == deadline # -1 /\ redis_time' > deadline IN
  /\ redis = "string" /\ redis_time < MaxRedisTime
  /\ redis_time' = redis_time + 1
  /\ expected' = IF gone THEN -1 ELSE expected
  /\ deadline' = IF gone THEN -1 ELSE deadline
  /\ UNCHANGED <<redis, str, str_expires, stale_incr, listVars, memberVars, redis_ops>>

-----------------------------------------------------------------------------
(* LIST *)

LPush(v) ==
  /\ redis = "list" /\ Command
  /\ list' = <<v>> \o list
  /\ pushed' = SubSeq(pushed, 1, popped_left) \o <<v>> \o SubSeq(pushed, popped_left + 1, Len(pushed))
  /\ UNCHANGED <<popped_left, popped_right, stringVars, memberVars>>

RPush(v) ==
  /\ redis = "list" /\ Command
  /\ list' = Append(list, v)
  /\ pushed' = LET n == Len(pushed) - popped_right
               IN SubSeq(pushed, 1, n) \o <<v>> \o SubSeq(pushed, n + 1, Len(pushed))
  /\ UNCHANGED <<popped_left, popped_right, stringVars, memberVars>>

\* Python's lst[i:j] for i, j \in 0..: cut at the end of the list.
PySlice(s, i, j) == SubSeq(s, i + 1, Min({j, Len(s)}))

LPop(count) ==
  /\ redis = "list" /\ list # <<>> /\ Command
  /\ list' = PySlice(list, count, Len(list))
  /\ popped_left' = popped_left + Len(PySlice(list, 0, count))
  /\ UNCHANGED <<pushed, popped_right, stringVars, memberVars>>

\* The index that -count stands for: counted from the end, but 0 is the beginning.
FromEnd(count) == IF count = 0 THEN 0 ELSE Max({Len(list) - count, 0})

\* lst[-count:] and lst[:-count]; for a count of 0 both begin, or end, at 0, so that it
\* returns the whole list.
RPop(count) ==
  LET kept == FromEnd(count) IN
  /\ redis = "list" /\ list # <<>> /\ Command
  /\ list' = PySlice(list, 0, kept)
  /\ popped_right' = popped_right + Len(PySlice(list, kept, Len(list)))
  /\ UNCHANGED <<pushed, popped_left, stringVars, memberVars>>

LTrim(start, stop) ==
  LET kept == PySlice(list, start, IF stop = -1 THEN Len(list) ELSE stop + 1)
      left == Min({start, Len(list)})
  IN /\ redis = "list" /\ Command
     /\ list' = kept
     /\ popped_left' = popped_left + left
     /\ popped_right' = popped_right + Len(list) - left - Len(kept)
     /\ UNCHANGED <<pushed, stringVars, memberVars>>

-----------------------------------------------------------------------------
(* HASH, SET and ZSET *)

NewMembers(ms) == Cardinality(ms \ DOMAIN scores)

Scored(ms, s) == scores' = [n \in DOMAIN scores \cup ms |-> IF n \in ms THEN s ELSE scores[n]]

AddMembers(ms, s) ==   \* HSET, HMSET, SADD of several members, ZADD
  /\ redis \in {"hash", "set", "zset"} /\ Command
  /\ Scored(ms, s)
  /\ reported' = reported + NewMembers(ms)
  /\ UNCHANGED <<stringVars, listVars>>

\* HINCRBY and ZINCRBY start a missing member at 0.
IncrBy(m) ==
  /\ redis \in {"hash", "zset"} /\ Command
  /\ Scored({m}, IF m \in DOMAIN scores THEN scores[m] + 1 ELSE 1)
  /\ reported' = reported + NewMembers({m})
  /\ UNCHANGED <<stringVars, listVars>>

RemoveMembers(ms) ==   \* HDEL, SREM and ZREM of several members
  /\ redis \in {"hash", "set", "zset"} /\ Command
  /\ scores' = [n \in DOMAIN scores \ ms |-> scores[n]]
  /\ reported' = reported - Cardinality(ms \cap DOMAIN scores)
  /\ UNCHANGED <<stringVars, listVars>>

InRange(lo, hi) == {m \in DOMAIN scores : lo <= scores[m] /\ scores[m] <= hi}

RemoveRangeByScore(lo, hi) ==
  /\ redis = "zset" /\ Command
  /\ scores' = [n \in DOMAIN scores \ InRange(lo, hi) |-> scores[n]]
  /\ reported' = reported - Cardinality(InRange(lo, hi))
  /\ UNCHANGED <<stringVars, listVars>>

RedisString == \/ \E nx \in BOOLEAN, ex \in 0..1 : SetString(nx, ex)
               \/ GetString \/ Incr \/ DeleteString
RedisList   == \/ \E v \in RedisMembers : LPush(v) \/ RPush(v)
               \/ \E count \in 0..2 : LPop(count) \/ RPop(count)
               \/ \E start \in 0..1, stop \in -1..1 : LTrim(start, stop)
RedisHash   == /\ redis = "hash"
               /\ \/ \E ms \in SUBSET RedisMembers :
                       RemoveMembers(ms) \/ \E s \in Scores : AddMembers(ms, s)
                  \/ \E m \in RedisMembers : IncrBy(m)
RedisSet    == /\ redis = "set"
               /\ \E ms \in SUBSET RedisMembers : AddMembers(ms, 0) \/ RemoveMembers(ms)
RedisZSet   == /\ redis = "zset"
               /\ \/ \E m \in RedisMembers : IncrBy(m) \/ \E s \in Scores : AddMembers({m}, s)
                  \/ \E ms \in SUBSET RedisMembers : RemoveMembers(ms)
                  \/ \E lo, hi \in Scores : RemoveRangeByScore(lo, hi)

RedisNext == RedisString \/ RedisTime \/ RedisList \/ RedisHash \/ RedisSet \/ RedisZSet

RedisSpec == RedisInit /\ [][RedisNext]_redisVars
-----------------------------------------------------------------------------
\* The simulation shows what Redis would: a string is there for a reader until
\* its last deadline and no longer, whatever SET, NX, INCR and DEL went before; once
\* an INCR met an expired value, and until a plain SET or a DEL, it may be missing or
\* count less, but never more; a list, with what the pops returned on each side and
\* what was trimmed, is everything pushed in its place; and the members of a hash, set
\* or sorted set are as many as its commands reported.
AnswersAsRedis ==
  /\ redis = "string" =>
       IF stale_incr THEN StrCheck => str <= expected
       ELSE expected = IF StrCheck THEN str ELSE -1
  /\ redis = "list" =>
       list = SubSeq(pushed, popped_left + 1, Len(pushed) - popped_right)
  /\ Cardinality(DOMAIN scores) = reported

\* incr: "Creates key with value 0 then increments if key doesn't exist". A key
\* whose time is over does not exist, for GET as for INCR.
IncrStartsAtZero == ~stale_incr

\* rpop: "RPOP key [count]", where a count of 0 asks for nothing.
RPopReturnsCount ==
  [][\A count \in 0..2 : RPop(count) => Len(list) - Len(list') <= count]_redisVars
=============================================================================
