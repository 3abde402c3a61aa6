------------------------------ MODULE MCRedisRoutes ------------------------------
(***************************************************************************)
(* A worker that comes back once, after its route lost the space in its    *)
(* name, a hub that restarts once, and two events at most waiting for a    *)
(* handler.                                                                *)
(***************************************************************************)
EXTENDS RedisRoutes

MCIdOf == [k \in Lives |-> k]

================================================================================
