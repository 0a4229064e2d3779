---------------------------- MODULE MCRedisGate ----------------------------
(* Small instances of the Redis connection and its requests.               *)
EXTENDS RedisGate, TLC
=============================================================================
