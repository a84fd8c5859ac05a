---------------------------- MODULE MCResolution ----------------------------
(***************************************************************************)
(* Instances for TLC of what the end of a position rests on: the pool with *)
(* somebody who keeps cranking (this module's own specification), and the  *)
(* RPC connection a crank is sent and confirmed through, which must not    *)
(* hang.  Each is a behaviour of its own: "part" says which one runs, and  *)
(* the state of the other stays at one beginning.                          *)
(***************************************************************************)
EXTENDS MCLiquidityPool, RpcFailover

CONSTANTS e1, e2

VARIABLE part

TwoEndpoints == <<e1, e2>>

resolutionVars == <<vars, rpcVars, part>>

MCInit ==
  /\ part \in {"pool", "connection"}
  /\ Init
  /\ RpcInit
  /\ part # "pool" => config.feeBps = 0
  /\ part # "connection" => confirmation.strategy = "timeout"

MCNext ==
  \/ part = "pool" /\ Next /\ UNCHANGED <<rpcVars, part>>
  \/ part = "connection" /\ RpcNext /\ UNCHANGED <<vars, part>>

(* The fairness of the pool and of the connection, each for its own        *)
(* behaviours: their steps leave "part" alone.                             *)
MCSpec ==
  /\ MCInit /\ [][MCNext]_resolutionVars
  /\ WF_vars(part = "pool" /\ Tick)
  /\ \A k \in Keys : /\ WF_vars(part = "pool" /\ SettlePoolPosition(k))
                     /\ WF_vars(part = "pool" /\ RefundPoolPosition(k))
  /\ WF_rpcVars(part = "connection" /\ Request)
  /\ WF_rpcVars(part = "connection" /\ Timed)
  /\ WF_rpcVars(part = "connection" /\ Elapse)
=============================================================================
