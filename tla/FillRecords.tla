----------------------------- MODULE FillRecords ----------------------------
(***************************************************************************)
(* From a returned quote to a recorded position: POST /api/vsol/send       *)
(* relays the buyer's signed fill, POST /api/positions records it, GET     *)
(* lists what was recorded (app/api/vsol/send, app/api/positions).         *)
(*                                                                         *)
(* A quote is its position's address; its buyer may sign two transactions  *)
(* that fill it.  Whoever is signed in may send either.  A handler of      *)
(* either route may stop between any two of its steps.  The chain is       *)
(* external: it fills a position once, and a filled one is later closed.   *)
(***************************************************************************)
EXTENDS Naturals, FiniteSets

CONSTANTS
  Quotes, Owners, Copies,
  BuyerOf,           \* the wallet each quote was signed for
  Senders, Recorders

VARIABLES
  consumed,          \* rfq_quotes: the rows there are, and whether used
  tx,                \* what the chain knows of each transaction
  open,              \* the positions that are open on chain
  simulations,       \* transaction_simulations, by transaction hash
  sender, recorder,  \* the handlers of the two routes
  positions          \* the table

fillVars == <<consumed, tx, open, simulations, sender, recorder, positions>>

Transactions == Quotes \X Copies
QuoteOf(t) == t[1]
Vacant == [at |-> "free"]

FillInit ==
  /\ consumed = [q \in Quotes |-> FALSE]
  /\ tx = [t \in Transactions |-> "unsent"]
  /\ open = {}
  /\ simulations = [t \in {} |-> Vacant]
  /\ sender = [s \in Senders |-> Vacant]
  /\ recorder = [r \in Recorders |-> Vacant]
  /\ positions = {}

----------------------------------------------------------------------------
(* The chain.                                                              *)

isFilled(q) == \E c \in Copies : tx[<<q, c>>] = "ok"

\* A delivered transaction fills its position, or fails; it may also be lost.
Execute(t) ==
  /\ tx[t] = "delivered"
  /\ \/ /\ ~isFilled(QuoteOf(t))
        /\ tx' = [tx EXCEPT ![t] = "ok"]
        /\ open' = open \union {QuoteOf(t)}
     \/ /\ tx' = [tx EXCEPT ![t] = "err"]
        /\ UNCHANGED open
  /\ UNCHANGED <<consumed, simulations, sender, recorder, positions>>

\* Settled, refunded or closed early: the account is gone.
ClosePosition(q) ==
  /\ q \in open
  /\ open' = open \ {q}
  /\ UNCHANGED <<consumed, tx, simulations, sender, recorder, positions>>

\* The quote route deletes rows long expired.
DeleteOldQuote(q) ==
  /\ q \in DOMAIN consumed
  /\ consumed' = [r \in DOMAIN consumed \ {q} |-> consumed[r]]
  /\ UNCHANGED <<tx, open, simulations, sender, recorder, positions>>

----------------------------------------------------------------------------
(* POST /api/vsol/send.                                                    *)

isFresh(q) == q \in DOMAIN consumed /\ ~consumed[q]

\* The transaction is inspected, and its quote's row found unused.
Receive(s, t, owner) ==
  /\ sender[s] = Vacant
  /\ isFresh(QuoteOf(t))
  /\ sender' = [sender EXCEPT ![s] = [at |-> "simulate", tx |-> t, owner |-> owner]]
  /\ UNCHANGED <<consumed, tx, open, simulations, recorder, positions>>

SetSender(s, step) == sender' = [sender EXCEPT ![s].at = step]
FreeSender(s) == sender' = [sender EXCEPT ![s] = Vacant]

Simulate_Replacing(s) ==
  LET t == sender[s].tx
      passed == ~isFilled(QuoteOf(t))
  IN /\ sender[s].at = "simulate"
     /\ simulations' = [u \in DOMAIN simulations \union {t} |->
          IF u = t
          THEN [owner |-> sender[s].owner, quote |-> QuoteOf(t), wallet |-> BuyerOf[QuoteOf(t)],
                status |-> IF passed THEN "passed" ELSE "failed",
                submission |-> "not_sent", signed |-> FALSE]
          ELSE simulations[u]]
     /\ IF passed THEN SetSender(s, "send") ELSE FreeSender(s)
     /\ UNCHANGED <<consumed, tx, open, recorder, positions>> \* mutant: replaces the row there is

\* The simulation's row is inserted, unless this very transaction has one.
Simulate(s) ==
  LET t == sender[s].tx
      passed == ~isFilled(QuoteOf(t))
  IN /\ sender[s].at = "simulate"
     /\ IF t \in DOMAIN simulations
        THEN FreeSender(s) /\ UNCHANGED simulations
        ELSE /\ simulations' = [u \in DOMAIN simulations \union {t} |->
                  IF u = t
                  THEN [owner |-> sender[s].owner, quote |-> QuoteOf(t), wallet |-> BuyerOf[QuoteOf(t)],
                        status |-> IF passed THEN "passed" ELSE "failed",
                        submission |-> "not_sent", signed |-> FALSE]
                  ELSE simulations[u]]
             /\ IF passed THEN SetSender(s, "send") ELSE FreeSender(s)
     /\ UNCHANGED <<consumed, tx, open, recorder, positions>>

Send(s) ==
  /\ sender[s].at = "send"
  /\ tx' = [tx EXCEPT ![sender[s].tx] = IF @ = "unsent" THEN "delivered" ELSE @]
  /\ SetSender(s, "confirm")
  /\ UNCHANGED <<consumed, open, simulations, recorder, positions>>

\* confirmTransaction answers: the row says confirmed, with the signature.
Confirm(s) ==
  /\ sender[s].at = "confirm" /\ tx[sender[s].tx] = "ok"
  /\ simulations' = [simulations EXCEPT ![sender[s].tx].submission = "confirmed",
                                        ![sender[s].tx].signed = TRUE]
  /\ FreeSender(s)
  /\ UNCHANGED <<consumed, tx, open, recorder, positions>>

\* The send, the wait for confirmation, or the transaction fails: so says the
\* row, also when a transaction sent may still land.
SendFails(s) ==
  /\ sender[s].at \in {"send", "confirm"}
  /\ simulations' = [simulations EXCEPT ![sender[s].tx].submission = "failed"]
  /\ FreeSender(s)
  /\ UNCHANGED <<consumed, tx, open, recorder, positions>>

----------------------------------------------------------------------------
(* POST /api/positions.                                                    *)

\* The caller's own simulation of this quote for this wallet, passed, sent and
\* confirmed under the signature the caller names.
isConfirmed(t, owner, wallet) ==
  /\ t \in DOMAIN simulations
  /\ simulations[t].owner = owner /\ simulations[t].wallet = wallet
  /\ simulations[t].status = "passed"
  /\ simulations[t].submission = "confirmed" /\ simulations[t].signed

\* The signature is a fill by this wallet, and the position is there.
verifyVsolFill(t, wallet) ==
  tx[t] = "ok" /\ BuyerOf[QuoteOf(t)] = wallet /\ QuoteOf(t) \in open

Check(r, t, owner, wallet) ==
  /\ recorder[r] = Vacant
  /\ isFresh(QuoteOf(t))
  /\ isConfirmed(t, owner, wallet)
  /\ verifyVsolFill(t, wallet)
  /\ recorder' = [recorder EXCEPT ![r] = [at |-> "record", tx |-> t, owner |-> owner, wallet |-> wallet]]
  /\ UNCHANGED <<consumed, tx, open, simulations, sender, positions>>

\* The position is inserted and the quote marked used, together; a position
\* already recorded for the quote (a unique index) refuses both.
isRecorded(q) == \E p \in positions : p.quote = q

Record(r) ==
  LET q == QuoteOf(recorder[r].tx)
  IN /\ recorder[r].at = "record"
     /\ IF isRecorded(q)
        THEN UNCHANGED <<positions, consumed>>
        ELSE /\ positions' = positions \union
                  {[quote |-> q, tx |-> recorder[r].tx, owner |-> recorder[r].owner,
                    wallet |-> recorder[r].wallet]}
             /\ consumed' = [p \in DOMAIN consumed |-> consumed[p] \/ p = q]
     /\ recorder' = [recorder EXCEPT ![r] = Vacant]
     /\ UNCHANGED <<tx, open, simulations, sender>>

\* A handler stops between two steps.
Crash ==
  /\ \/ \E s \in Senders : sender[s] # Vacant /\ FreeSender(s) /\ UNCHANGED recorder
     \/ \E r \in Recorders :
          recorder[r] # Vacant /\ recorder' = [recorder EXCEPT ![r] = Vacant] /\ UNCHANGED sender
  /\ UNCHANGED <<consumed, tx, open, simulations, positions>>

FillNext ==
  \/ Crash
  \/ \E t \in Transactions : Execute(t)
  \/ \E q \in Quotes : ClosePosition(q) \/ DeleteOldQuote(q)
  \/ \E s \in Senders :
       \/ Simulate(s) \/ Send(s) \/ Confirm(s) \/ SendFails(s)
       \/ \E t \in Transactions, owner \in Owners : Receive(s, t, owner)
  \/ \E r \in Recorders :
       \/ Record(r)
       \/ \E t \in Transactions, owner, wallet \in Owners : Check(r, t, owner, wallet)

FillSpec == FillInit /\ [][FillNext]_fillVars

----------------------------------------------------------------------------
\* GET /api/positions: the caller's rows whose simulation bears them out.
ListedPositions(owner) ==
  {p \in positions : /\ p.owner = owner
                     /\ p.tx \in DOMAIN simulations
                     /\ simulations[p.tx].quote = p.quote
                     /\ isConfirmed(p.tx, owner, p.wallet)}

(* A recorded position is a fill that landed, of the wallet it names       *)
(* (positions/route.ts:81-98); a quote is recorded once however many       *)
(* transactions or requests carry it, is marked used while its row exists, *)
(* and its owner's list never loses it again.                              *)
RecordedPositionsAreFills ==
  /\ \A p \in positions :
       /\ tx[p.tx] = "ok" /\ p.wallet = BuyerOf[p.quote]
       /\ p.quote \in DOMAIN consumed => consumed[p.quote]
       /\ p \in ListedPositions(p.owner)
  /\ \A p, q \in positions : p.quote = q.quote => p = q
  /\ \A q \in DOMAIN consumed : consumed[q] => isRecorded(q)
=============================================================================
