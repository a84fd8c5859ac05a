-------------------------------- MODULE MCWeb -------------------------------
(***************************************************************************)
(* Instances for TLC of what the web application is made of: signing in,   *)
(* the cached reads, issuing a quote, recording its fill, the prepared     *)
(* actions, the trade ticket, the series of the grid, and the heartbeat by *)
(* which quotes know that the runner is alive.  Each is a behaviour of its *)
(* own: "part" says which one runs, and the state of the others stays at   *)
(* one beginning.                                                          *)
(***************************************************************************)
EXTENDS
  SignIn, CachedReads, QuoteIssue, FillRecords, PreparedActions, TradeTicket, SeriesSlots,
  ExecutionReadiness

CONSTANTS w1, w2, qa

VARIABLE part

MCBuyerOf == [q \in {qa} |-> w1]

MCLeads == {1, 2}

webVars ==
  <<signInVars, cacheVars, quoteVars, fillVars, actionVars, ticketVars, slotVars, readinessVars, part>>

MCInit ==
  /\ part \in {"sign-in", "cache", "quote", "fill", "action", "ticket", "series", "heartbeat"}
  /\ SignInInit
  /\ CacheInit
  /\ QuoteInit
  /\ FillInit
  /\ ActionInit
  /\ TicketInit
  /\ SlotsInit
  /\ ReadinessInit
  /\ part # "cache" => cache = statusCache
  /\ part # "quote" => quotedSeries.locked = 0
  /\ part # "action" => asked = LaunchKinds
  /\ part # "ticket" => signedIn /\ issue
  /\ part # "series" => spot = 0 /\ symbol = CHOOSE s \in Underlyings : TRUE

MCNext ==
  \/ /\ part = "sign-in"
     /\ SignInNext
     /\ UNCHANGED <<cacheVars, quoteVars, fillVars, actionVars, ticketVars,
                    slotVars, readinessVars, part>>
  \/ /\ part = "cache"
     /\ CacheNext
     /\ UNCHANGED <<signInVars, quoteVars, fillVars, actionVars, ticketVars,
                    slotVars, readinessVars, part>>
  \/ /\ part = "quote"
     /\ QuoteNext
     /\ UNCHANGED <<signInVars, cacheVars, fillVars, actionVars, ticketVars,
                    slotVars, readinessVars, part>>
  \/ /\ part = "fill"
     /\ FillNext
     /\ UNCHANGED <<signInVars, cacheVars, quoteVars, actionVars, ticketVars,
                    slotVars, readinessVars, part>>
  \/ /\ part = "action"
     /\ ActionNext
     /\ UNCHANGED <<signInVars, cacheVars, quoteVars, fillVars, ticketVars,
                    slotVars, readinessVars, part>>
  \/ /\ part = "ticket"
     /\ TicketNext
     /\ UNCHANGED <<signInVars, cacheVars, quoteVars, fillVars, actionVars,
                    slotVars, readinessVars, part>>
  \/ /\ part = "series"
     /\ SlotsNext
     /\ UNCHANGED <<signInVars, cacheVars, quoteVars, fillVars, actionVars,
                    ticketVars, readinessVars, part>>
  \/ /\ part = "heartbeat"
     /\ ReadinessNext
     /\ UNCHANGED <<signInVars, cacheVars, quoteVars, fillVars, actionVars,
                    ticketVars, slotVars, part>>

MCSpec == MCInit /\ [][MCNext]_webVars
=============================================================================
