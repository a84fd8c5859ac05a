----------------------------- MODULE TradeTicket ----------------------------
(***************************************************************************)
(* The trade ticket of the browser (TendTerminal.tsx, TradeView): it       *)
(* quotes by itself when it is idle and complete, refreshes a quote that   *)
(* expired a few times, asks for an executable quote when the user reviews *)
(* it, and has the wallet sign that.                                       *)
(*                                                                         *)
(* Requests are numbered (requestSeqRef) and overlap; a response is        *)
(* dropped when its number is not the last.  React renders the change of   *)
(* wallet or category first and runs the effect that renumbers afterwards  *)
(* ("behind"): timers and the user wait for it, a response need not.       *)
(* Everything that decides what is requested is in "ticket": what the user *)
(* entered, the wallet, and the tier, which the clock can change.          *)
(***************************************************************************)
EXTENDS Naturals, FiniteSets

CONSTANTS
  MAX_AUTO_REFRESHES,
  MaxEdits, MaxSwitches, MaxClamps,   \* bounds on what changes the ticket
  MaxSeq                              \* bound on the requests

VARIABLES
  ticket,            \* what would be requested now
  refs,              \* requestSeqRef and autoRefreshCountRef
  behind,            \* the effect after a wallet or category change is due
  signedIn, issue,   \* readiness, and an input issue of the catalog's making
  quoteState, reviewState, executionState,
  quotes,            \* the quote shown
  vsolQuote,         \* the transaction to sign
  complete,          \* the review is open
  requests           \* the requests under way

ticketVars == <<ticket, refs, behind, signedIn, issue, quoteState, reviewState, executionState,
                quotes, vsolQuote, complete, requests>>

NoQuote == [seq |-> 0]

TicketInit ==
  /\ ticket = [edits |-> 0, switches |-> 0, clamps |-> 0]
  /\ refs = [seq |-> 0, auto |-> 0]
  /\ behind = TRUE
  /\ signedIn \in BOOLEAN /\ issue \in BOOLEAN
  /\ quoteState = "idle" /\ reviewState = "idle" /\ executionState = "idle"
  /\ quotes = NoQuote /\ vsolQuote = NoQuote
  /\ complete = FALSE
  /\ requests = {}

isReady == signedIn /\ ~issue

----------------------------------------------------------------------------
(* The resets.                                                             *)

clearQuote == quoteState' = "idle" /\ quotes' = NoQuote /\ vsolQuote' = NoQuote

\* What every input change does; it leaves the review as it is.
invalidateQuote ==
  /\ refs' = [seq |-> refs.seq + 1, auto |-> 0]
  /\ clearQuote
  /\ reviewState' = "idle"

\* The user changes an input (selectPayoff is one).
Edit ==
  /\ ~behind /\ ticket.edits < MaxEdits
  /\ ticket' = [ticket EXCEPT !.edits = @ + 1]
  /\ invalidateQuote
  /\ UNCHANGED <<behind, signedIn, issue, executionState, complete, requests>>

\* Another wallet or category: the state is reset while rendering ...
Switch ==
  /\ ~behind /\ ticket.switches < MaxSwitches
  /\ ticket' = [ticket EXCEPT !.switches = @ + 1]
  /\ clearQuote
  /\ reviewState' = "idle" /\ executionState' = "idle" /\ complete' = FALSE
  /\ behind' = TRUE
  /\ signedIn' \in BOOLEAN
  /\ UNCHANGED <<refs, issue, requests>>

\* ... and the references in an effect.
Renumber ==
  /\ behind
  /\ refs' = [seq |-> refs.seq + 1, auto |-> 0]
  /\ behind' = FALSE
  /\ UNCHANGED <<ticket, signedIn, issue, quoteState, reviewState, executionState, quotes,
                 vsolQuote, complete, requests>>

\* The clock moves the expiry into another ladder of tiers: the tier is
\* re-clamped while rendering, and no reference changes.
ClampTier ==
  /\ ticket.clamps < MaxClamps
  /\ ticket' = [ticket EXCEPT !.clamps = @ + 1]
  /\ clearQuote
  /\ UNCHANGED <<refs, behind, signedIn, issue, reviewState, executionState, complete, requests>>

\* The catalog is polled: the series or its pool comes and goes.
PollCatalog ==
  /\ issue' = ~issue
  /\ UNCHANGED <<ticket, refs, behind, signedIn, quoteState, reviewState, executionState, quotes,
                 vsolQuote, complete, requests>>

SignIn ==
  /\ ~signedIn /\ signedIn' = TRUE
  /\ UNCHANGED <<ticket, refs, behind, issue, quoteState, reviewState, executionState, quotes,
                 vsolQuote, complete, requests>>

----------------------------------------------------------------------------
(* Requests.                                                               *)

Ask(intent) ==
  requests' = requests \union {[seq |-> refs.seq + 1, intent |-> intent, ticket |-> ticket]}

\* Only a manual request refills the budget of automatic refreshes.
runQuote(manual) ==
  /\ isReady /\ quoteState # "loading"
  /\ refs.seq < MaxSeq
  /\ refs' = [seq |-> refs.seq + 1, auto |-> IF manual THEN 0 ELSE refs.auto]
  /\ quoteState' = "loading"
  /\ quotes' = NoQuote
  /\ Ask("indicative")
  /\ UNCHANGED <<ticket, behind, signedIn, issue, reviewState, executionState, vsolQuote, complete>>

\* Enter, Retry, Refresh.
requestQuote ==
  /\ ~behind
  /\ runQuote(TRUE)

\* The debounce of the auto-quote effect ends.
AutoQuote ==
  /\ ~behind /\ quoteState = "idle" /\ ~complete
  /\ runQuote(FALSE)

requestExecutableQuote ==
  /\ ~behind /\ isReady /\ reviewState # "loading"
  /\ refs.seq < MaxSeq
  /\ refs' = [refs EXCEPT !.seq = @ + 1]
  /\ reviewState' = "loading"
  /\ Ask("execute")
  /\ UNCHANGED <<ticket, behind, signedIn, issue, quoteState, executionState, quotes, vsolQuote,
                 complete>>

Answer(request) == request \in requests /\ requests' = requests \ {request}

isQuote(request) == request.intent # "sign"
isCurrent_Whenever(request) == isQuote(request) \* mutant: a late response is applied

isCurrent(request) == isQuote(request) /\ request.seq = refs.seq

\* A response to a request that is not the last one.
Drop(request) ==
  /\ isQuote(request) /\ ~isCurrent(request)
  /\ Answer(request)
  /\ UNCHANGED <<ticket, refs, behind, signedIn, issue, quoteState, reviewState, executionState,
                 quotes, vsolQuote, complete>>

\* A quote arrives: only an executable one comes with a transaction.
Apply(request) ==
  LET quote == [seq |-> request.seq, executable |-> request.intent = "execute", ticket |-> request.ticket]
  IN /\ Answer(request)
     /\ isCurrent(request)
     /\ quotes' = quote
     /\ quoteState' = "success"
     /\ IF request.intent = "execute"
        THEN vsolQuote' = quote /\ reviewState' = "idle" /\ complete' = TRUE
        ELSE vsolQuote' = NoQuote /\ UNCHANGED <<reviewState, complete>>
     /\ UNCHANGED <<ticket, refs, behind, signedIn, issue, executionState>>

\* The session has expired (401): back to signing in.
Expel(request) ==
  /\ Answer(request)
  /\ isCurrent(request)
  /\ signedIn' = FALSE
  /\ IF request.intent = "execute"
     THEN reviewState' = "idle" /\ UNCHANGED quoteState
     ELSE quoteState' = "idle" /\ UNCHANGED reviewState
  /\ UNCHANGED <<ticket, refs, behind, issue, executionState, quotes, vsolQuote, complete>>

Refuse(request) ==
  /\ Answer(request)
  /\ isCurrent(request)
  /\ IF request.intent = "execute"
     THEN reviewState' = "error" /\ UNCHANGED quoteState
     ELSE quoteState' = "error" /\ UNCHANGED reviewState
  /\ UNCHANGED <<ticket, refs, behind, signedIn, issue, executionState, quotes, vsolQuote, complete>>

----------------------------------------------------------------------------
(* The quote expires, or is executed.                                      *)

\* The countdown reaches zero while nothing depends on the quote: the review
\* closes, and the ticket quotes again or says that the quote has expired.
ExpireQuote ==
  /\ ~behind /\ quoteState = "success" /\ quotes # NoQuote
  /\ executionState # "loading" /\ reviewState # "loading"
  /\ complete' = FALSE
  /\ executionState' = "idle"
  /\ quotes' = NoQuote /\ vsolQuote' = NoQuote
  /\ \E visible \in BOOLEAN :
       IF ~complete /\ visible /\ refs.auto < MAX_AUTO_REFRESHES
       THEN refs' = [refs EXCEPT !.auto = @ + 1] /\ quoteState' = "idle"
       ELSE quoteState' = "expired" /\ UNCHANGED refs
  /\ UNCHANGED <<ticket, behind, signedIn, issue, reviewState, requests>>

isSignable == quotes # NoQuote /\ vsolQuote # NoQuote /\ quotes.executable

\* Execute in the review: the wallet is handed the transaction.
confirmPreviewPosition ==
  /\ complete /\ executionState # "loading"
  /\ isSignable
  /\ executionState' = "loading"
  /\ requests' = requests \union {[seq |-> vsolQuote.seq, intent |-> "sign", ticket |-> ticket]}
  /\ UNCHANGED <<ticket, refs, behind, signedIn, issue, quoteState, reviewState, quotes, vsolQuote,
                 complete>>

\* The position is saved, or the wallet or a route refused, whatever the
\* ticket is by then.
ExecutionEnds(request) ==
  /\ request.intent = "sign"
  /\ Answer(request)
  /\ \/ complete' = FALSE /\ executionState' = "idle" /\ invalidateQuote
     \/ executionState' = "error"
        /\ UNCHANGED <<refs, quoteState, quotes, vsolQuote, reviewState, complete>>
  /\ UNCHANGED <<ticket, behind, signedIn, issue>>

CloseReview ==
  /\ complete /\ complete' = FALSE
  /\ UNCHANGED <<ticket, refs, behind, signedIn, issue, quoteState, reviewState, executionState,
                 quotes, vsolQuote, requests>>

TicketNext ==
  \/ Edit \/ Switch \/ Renumber \/ ClampTier \/ PollCatalog \/ SignIn
  \/ requestQuote \/ AutoQuote \/ requestExecutableQuote
  \/ \E request \in requests :
       Drop(request) \/ Apply(request) \/ Expel(request) \/ Refuse(request) \/ ExecutionEnds(request)
  \/ ExpireQuote \/ confirmPreviewPosition \/ CloseReview

TicketSpec == TicketInit /\ [][TicketNext]_ticketVars

----------------------------------------------------------------------------
(* What the wallet would be handed is the very quote on the screen, and it *)
(* was requested for what the user has entered since (TendTerminal.tsx     *)
(* 679-681, 938-985), however responses overtake each other.  The ticket's *)
(* wallet and tier may have moved on: those changes renumber late, or not. *)
SignedQuoteIsTheOneShown ==
  isSignable => /\ quotes = vsolQuote
                /\ vsolQuote.ticket.edits = ticket.edits
=============================================================================
