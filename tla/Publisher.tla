----------------------------- MODULE Publisher -----------------------------
(***************************************************************************)
(* The publisher (src/src/publisher/redis.rs) and the redis server it      *)
(* writes to.  The server is external: keys with a time to live expire,    *)
(* and the server can be unreachable.                                      *)
(***************************************************************************)
EXTENDS Common

VARIABLES
    redis,      \* the value under every key the companion may write
    redisUp     \* whether calls to redis succeed

redisVars == <<redis, redisUp>>

(* Mutant: one key for all. *)
service_key_shared(host) == <<KeyPrefix>>

service_key(host) == <<KeyPrefix, host>>

Keys == {service_key(h) : h \in Hosts}

(* An entry is a JSON document about one host, with or without a time to   *)
(* live; shape tells a JSON array from a bare JSON object.                 *)
Entry ==
    [shape : {"none", "array", "object"}, host : Hosts, specs : SpecLists,
     ttl : BOOLEAN]

NoEntry == [shape |-> "none", host |-> NoAddress, specs |-> <<>>, ttl |-> FALSE]

PublisherTypeOK ==
    /\ redis \in [Keys -> Entry]
    /\ redisUp \in BOOLEAN

PublisherInit ==
    /\ redis = [k \in Keys |-> NoEntry]
    /\ redisUp = TRUE

-----------------------------------------------------------------------------
(* RedisPublisher *)

(* With an expiration the value is one string, the encoded JSON array.     *)
(* Without one, SET gets the unencoded list, and redis-rs passes every     *)
(* element of a list as an argument of its own: one element is stored as a *)
(* bare object, and with any other number redis refuses the command.       *)
accepts(specs, expire) == expire \/ Len(specs) = 1

(* Mutant: SET where SETEX is meant. *)
EntryFor_without_ttl(host, specs, expire) ==
    [shape |-> IF expire THEN "array" ELSE "object",
     host |-> host, specs |-> specs, ttl |-> FALSE]

EntryFor(host, specs, expire) ==
    [shape |-> IF expire THEN "array" ELSE "object",
     host |-> host, specs |-> specs, ttl |-> expire]

(* Mutant: SETNX where SETEX is meant. *)
Write_if_absent(host, specs, expire) ==
    redis' = [redis EXCEPT ![service_key(host)] =
                 IF @ = NoEntry THEN EntryFor(host, specs, expire) ELSE @]

Write(host, specs, expire) ==
    redis' = [redis EXCEPT ![service_key(host)] = EntryFor(host, specs, expire)]

(* publish returns Ok. *)
PublishOk(host, specs, expire) ==
    /\ redisUp
    /\ accepts(specs, expire)
    /\ Write(host, specs, expire)
    /\ UNCHANGED redisUp

(* publish returns Err: redis refused the command, or the connection broke *)
(* before or after the command took effect.                                *)
PublishErr(host, specs, expire) ==
    /\ \/ ~accepts(specs, expire) /\ UNCHANGED redis
       \/ ~redisUp /\ UNCHANGED redis
       \/ ~redisUp /\ accepts(specs, expire) /\ Write(host, specs, expire)
    /\ UNCHANGED redisUp

-----------------------------------------------------------------------------
(* The redis server (external) *)

EntryExpires(k) ==
    /\ redis[k].ttl
    /\ redis' = [redis EXCEPT ![k] = NoEntry]
    /\ UNCHANGED redisUp

RedisOutage == redisUp /\ redisUp' = FALSE /\ UNCHANGED redis
RedisRecovers == ~redisUp /\ redisUp' = TRUE /\ UNCHANGED redis
=============================================================================
