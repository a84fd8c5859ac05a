--------------------------- MODULE PreparedActions --------------------------
(***************************************************************************)
(* The actions a wallet signs after the server prepared them: closing a    *)
(* position early, launching a market, a pool or an authorization, and     *)
(* depositing or withdrawing liquidity.  Each has a prepare route, which   *)
(* builds the transaction and stores a row, and a send route, which checks *)
(* the signed bytes against the row, simulates, relays, confirms, and      *)
(* compares the state it finds with the one the row recorded.              *)
(*                                                                         *)
(* One wallet, one pool it manages, one position, one series to launch.  A *)
(* send handler reads its row once and writes it without looking again;    *)
(* two may run for one row.  A signed transaction is the prepared one, the *)
(* same instruction in another message ("reissued"), or another            *)
(* instruction ("substituted").                                            *)
(***************************************************************************)
EXTENDS Integers, Bags

CONSTANTS
  Actions,           \* the rows, numbered in the order they are prepared
  MaxSenders,        \* bound on the send handlers under way
  QUOTE_LIFE,        \* life of a prepared close or liquidity change
  MARKET_EXPIRY,     \* expiry of the position's market and of the launched series
  LAUNCH_TRADE_LOCK,        \* from a series' last trade to its expiry
  LAUNCH_MIN_LEAD,          \* least lead of an expiry or a cutoff
  Moments            \* the times of the cluster's clock, 0 the first

VARIABLES
  clusterTime,
  asked,             \* the kinds of action the wallet asks for
  rows,              \* close_actions, launch_actions, liquidity_actions
  landed,            \* what the chain knows of each transaction
  world,             \* the accounts the actions change; "others" bounds what others do
  senders            \* the send handlers under way, a bag

actionVars == <<clusterTime, asked, rows, landed, world, senders>>

LaunchKinds == {"create_market", "create_pool", "authorize_market"}
LiquidityKinds == {"deposit", "withdraw"}
Forms == {"prepared", "reissued", "substituted"}
NoBinding == [lastTradeAt |-> -1, enabled |-> FALSE]

Amount == 2      \* tokens deposited, shares withdrawn
Buyback == 1     \* paid for the position; its collateral is twice that

\* Launches change no account the other actions change.
ActionInit ==
  /\ clusterTime = 0
  /\ asked \in {LaunchKinds, LiquidityKinds \union {"close"}}
  /\ rows = [a \in {} |-> {}]
  /\ landed = [t \in Actions \X Forms |-> "unsent"]
  /\ \E position \in IF asked = LaunchKinds THEN {"closed"} ELSE {"open", "closed"} :
       world = [wallet |-> Amount, shares |-> Amount, othersShares |-> 1, pool |-> Amount + 1,
                position |-> position, market |-> "absent", pools |-> {},
                binding |-> NoBinding, others |-> FALSE]
  /\ senders = EmptyBag

ActionTick ==
  /\ clusterTime' \in {t \in Moments : t > clusterTime}
  /\ UNCHANGED <<asked, rows, landed, world, senders>>

----------------------------------------------------------------------------
(* What a transaction does on chain.                                       *)

totalShares == world.shares + world.othersShares

calculateDepositShares(amount) == (amount * (totalShares + 1)) \div (world.pool + 1)
calculateWithdrawAmount(shares) == (shares * (world.pool + 1)) \div (totalShares + 1)

idle == world.position = "closed"

isTradable(cutoff) == clusterTime + LAUNCH_MIN_LEAD <= cutoff /\ cutoff < MARKET_EXPIRY

\* Liquidity changes and a new cutoff for an old binding wait for an idle pool.
succeeds(row) ==
  CASE row.kind = "close" -> ~idle /\ clusterTime < MARKET_EXPIRY /\ clusterTime <= row.deadline
    [] row.kind = "create_market" ->
         world.market = "absent" /\ clusterTime + LAUNCH_MIN_LEAD <= MARKET_EXPIRY
    [] row.kind = "create_pool" -> TRUE
    [] row.kind = "authorize_market" ->
         /\ world.market \in {"ours", "theirs"} /\ isTradable(row.lastTradeAt)
         /\ world.binding = NoBinding \/ idle
    [] row.kind = "deposit" ->
         /\ idle /\ clusterTime <= row.deadline /\ world.wallet >= Amount
         /\ calculateDepositShares(Amount) >= row.minimum
    [] row.kind = "withdraw" ->
         /\ idle /\ clusterTime <= row.deadline /\ world.shares >= Amount
         /\ calculateWithdrawAmount(Amount) >= row.minimum

effect(a, row) ==
  CASE row.kind = "close" ->
         [world EXCEPT !.position = "closed", !.wallet = @ + Buyback, !.pool = @ + Buyback]
    [] row.kind = "create_market" -> [world EXCEPT !.market = "ours"]
    [] row.kind = "create_pool" -> [world EXCEPT !.pools = @ \union {a}]
    [] row.kind = "authorize_market" ->
         [world EXCEPT !.binding = [lastTradeAt |-> row.lastTradeAt, enabled |-> TRUE]]
    [] row.kind = "deposit" ->
         [world EXCEPT !.wallet = @ - Amount, !.pool = @ + Amount,
                       !.shares = @ + calculateDepositShares(Amount)]
    [] row.kind = "withdraw" ->
         [world EXCEPT !.wallet = @ + calculateWithdrawAmount(Amount), !.shares = @ - Amount,
                       !.pool = @ - calculateWithdrawAmount(Amount)]

\* A relayed transaction lands, or fails.
ExecuteAction(a, form) ==
  /\ landed[<<a, form>>] = "delivered"
  /\ IF succeeds(rows[a])
     THEN landed' = [landed EXCEPT ![<<a, form>>] = "ok"] /\ world' = effect(a, rows[a])
     ELSE landed' = [landed EXCEPT ![<<a, form>>] = "err"] /\ UNCHANGED world
  /\ UNCHANGED <<clusterTime, asked, rows, senders>>

\* The wallet is sent tokens; the other provider withdraws; another wallet lists
\* the series; its creator disables it; the manager's keeper sets its binding.
Elsewhere ==
  /\ ~world.others
  /\ \/ /\ asked = LaunchKinds
        /\ \/ /\ world.market = "absent"
              /\ world' = [world EXCEPT !.others = TRUE, !.market = "theirs"]
           \/ /\ world.market = "ours"
              /\ world' = [world EXCEPT !.others = TRUE, !.market = "disabled"]
           \/ /\ world.market \in {"ours", "theirs"}
              /\ world.binding = NoBinding \/ idle
              /\ \E cutoff \in 0..MARKET_EXPIRY, enabled \in BOOLEAN :
                   /\ isTradable(cutoff)
                   /\ world' = [world EXCEPT !.others = TRUE,
                                  !.binding = [lastTradeAt |-> cutoff, enabled |-> enabled]]
     \/ /\ asked # LaunchKinds
        /\ \/ world' = [world EXCEPT !.others = TRUE, !.wallet = @ + Buyback]
           \/ /\ idle
              /\ world' = [world EXCEPT !.others = TRUE, !.othersShares = @ - 1,
                                        !.pool = @ - calculateWithdrawAmount(1)]
  /\ UNCHANGED <<clusterTime, asked, rows, landed, senders>>

----------------------------------------------------------------------------
(* Preparing (the prepare routes): the checks each makes, and its row.     *)

\* The balances are kept to compare with.
preparedRow(kind, minimum, deadline, lastTradeAt) ==
  [kind |-> kind, minimum |-> minimum, deadline |-> deadline, lastTradeAt |-> lastTradeAt,
   submission |-> "prepared",
   pre |-> [wallet |-> world.wallet, shares |-> world.shares, pool |-> world.pool],
   post |-> [wallet |-> 0, shares |-> 0, pool |-> 0]]

Store(a, row) ==
  /\ row.kind \in asked
  /\ DOMAIN rows = {b \in Actions : b < a}
  /\ rows' = [b \in DOMAIN rows \union {a} |-> IF b = a THEN row ELSE rows[b]]
  /\ UNCHANGED <<clusterTime, asked, landed, world, senders>>

\* The quote dies before the market does.
buildVsolCloseTransaction(a) ==
  LET quoteExpiry == IF clusterTime + QUOTE_LIFE < MARKET_EXPIRY
                     THEN clusterTime + QUOTE_LIFE ELSE MARKET_EXPIRY - 1
  IN /\ world.position = "open"
     /\ clusterTime < MARKET_EXPIRY /\ clusterTime < quoteExpiry
     /\ Store(a, preparedRow("close", Buyback, quoteExpiry, 0))

buildCreateMarketTransaction(a) ==
  /\ clusterTime + LAUNCH_MIN_LEAD <= MARKET_EXPIRY
  /\ world.market = "absent"
  /\ Store(a, preparedRow("create_market", 0, 0, 0))

\* A pool is new: its id is drawn at random.
buildInitializePoolTransaction(a) == Store(a, preparedRow("create_pool", 0, 0, 0))

\* Neither the old binding, nor the pool's positions, nor whether the market is
\* enabled is looked at.
buildAuthorizeMarketTransaction(a) ==
  LET lastTradeAt == MARKET_EXPIRY - LAUNCH_TRADE_LOCK
  IN /\ world.market # "absent"
     /\ clusterTime + LAUNCH_MIN_LEAD <= lastTradeAt
     /\ Store(a, preparedRow("authorize_market", 0, 0, lastTradeAt))

\* What the program would give now is the least the wallet accepts.
prepareLiquidity(a, kind) ==
  LET minimum == IF kind = "deposit" THEN calculateDepositShares(Amount)
                                     ELSE calculateWithdrawAmount(Amount)
  IN /\ idle
     /\ Amount <= IF kind = "deposit" THEN world.wallet ELSE world.shares
     /\ minimum > 0
     /\ Store(a, preparedRow(kind, minimum, clusterTime + QUOTE_LIFE, 0))

Prepare(a) ==
  \/ buildVsolCloseTransaction(a)
  \/ buildCreateMarketTransaction(a) \/ buildInitializePoolTransaction(a)
  \/ buildAuthorizeMarketTransaction(a)
  \/ \E kind \in LiquidityKinds : prepareLiquidity(a, kind)

----------------------------------------------------------------------------
(* What a send route accepts.                                              *)

\* The terms an instruction carries; a substituted one gives up the minimum, or is
\* about another account.
Instruction(row) == [kind |-> row.kind, target |-> "intended", minimum |-> row.minimum,
                     deadline |-> row.deadline, lastTradeAt |-> row.lastTradeAt]

SignedInstruction(row, form) ==
  IF form = "substituted" THEN [Instruction(row) EXCEPT !.target = "another", !.minimum = 0]
                          ELSE Instruction(row)

inspectVsolCloseTransaction(instruction) ==
  {i \in {instruction} : i.kind = "close"}

\* Only the accounts are read: the amounts of a launch are left to the hash.
inspectVsolLaunchTransaction(instruction) ==
  {[kind |-> i.kind, target |-> i.target] : i \in {j \in {instruction} : j.kind \in LaunchKinds}}

inspectVsolLiquidityTransaction(instruction) ==
  {i \in {instruction} : i.kind \in LiquidityKinds /\ i.minimum > 0}

\* The message hashed when the row was stored.
isPreparedMessage(form) == form = "prepared"

acceptsClose(row, form) ==
  /\ inspectVsolCloseTransaction(SignedInstruction(row, form)) = {Instruction(row)}
  /\ isPreparedMessage(form)
  /\ clusterTime <= row.deadline

acceptsLaunch(row, form) ==
  /\ inspectVsolLaunchTransaction(SignedInstruction(row, form)) =
       {[kind |-> row.kind, target |-> "intended"]}
  /\ isPreparedMessage(form)

acceptsLiquidity(row, form) ==
  /\ inspectVsolLiquidityTransaction(SignedInstruction(row, form)) = {Instruction(row)}
  /\ clusterTime <= row.deadline
  /\ isPreparedMessage(form)

accepts(row, form) ==
  acceptsClose(row, form) \/ acceptsLaunch(row, form) \/ acceptsLiquidity(row, form)

----------------------------------------------------------------------------
(* The state a send route expects to find after the confirmation.          *)

gained(row) == world.wallet - row.pre.wallet
pooled(row) == world.pool - row.pre.pool
minted(row) == world.shares - row.pre.shares

closeVerified_AtLeast(row) ==
  world.position = "closed" /\ gained(row) >= row.minimum    \* mutant: at least, not exactly

\* The position is gone and the wallet holds the buyback more, to the token.
closeVerified(row) == world.position = "closed" /\ gained(row) = row.minimum

launchVerified(a, row) ==
  CASE row.kind = "create_market" -> world.market = "ours"
    [] row.kind = "create_pool" -> a \in world.pools
    [] row.kind = "authorize_market" ->
         world.binding = [lastTradeAt |-> row.lastTradeAt, enabled |-> TRUE]

\* A deposit's shares and a withdrawal's tokens are at least the least agreed to.
liquidityVerified(row) ==
  CASE row.kind = "deposit" ->
         gained(row) = -Amount /\ pooled(row) = Amount /\ minted(row) >= row.minimum
    [] row.kind = "withdraw" ->
         minted(row) = -Amount /\ gained(row) = -pooled(row) /\ gained(row) >= row.minimum

verifyPostState(a) ==
  LET row == rows[a]
  IN CASE row.kind = "close" -> closeVerified(row)
       [] row.kind \in LaunchKinds -> launchVerified(a, row)
       [] row.kind \in LiquidityKinds -> liquidityVerified(row)

----------------------------------------------------------------------------
(* Sending (the send routes).                                              *)

Becomes(h, later) == senders' = (senders (-) SetToBag({h})) (+) SetToBag({later})
Ends(h) == senders' = senders (-) SetToBag({h})

\* The row must not have been submitted when it is read.
ReceiveAction(a, form) ==
  /\ BagCardinality(senders) < MaxSenders
  /\ a \in DOMAIN rows /\ rows[a].submission = "prepared"
  /\ senders' = senders (+) SetToBag({[at |-> "check", action |-> a, form |-> form]})
  /\ UNCHANGED <<clusterTime, asked, rows, landed, world>>

CheckAndSimulate(h) ==
  LET row == rows[h.action]
  IN /\ h.at = "check"
     /\ accepts(row, h.form)
     /\ Becomes(h, [h EXCEPT !.at = IF succeeds(row) THEN "passed" ELSE "rejected"])
     /\ UNCHANGED <<clusterTime, asked, rows, landed, world>>

\* The row takes the simulation's outcome as its submission status.
StoreSimulation(h) ==
  /\ \/ /\ h.at = "passed"
        /\ rows' = [rows EXCEPT ![h.action].submission = "prepared"]
        /\ Becomes(h, [h EXCEPT !.at = "send"])
     \/ /\ h.at = "rejected"
        /\ rows' = [rows EXCEPT ![h.action].submission = "failed"]
        /\ Ends(h)
  /\ UNCHANGED <<clusterTime, asked, landed, world>>

SendAction(h) ==
  /\ h.at = "send"
  /\ landed' = [landed EXCEPT ![<<h.action, h.form>>] = IF @ = "unsent" THEN "delivered" ELSE @]
  /\ Becomes(h, [h EXCEPT !.at = "confirm"])
  /\ UNCHANGED <<clusterTime, asked, rows, world>>

\* The state read after the confirmation goes into the row with it.
ConfirmAndVerify(h) ==
  /\ h.at = "confirm"
  /\ landed[<<h.action, h.form>>] = "ok"
  /\ verifyPostState(h.action)
  /\ rows' = [rows EXCEPT ![h.action].submission = "confirmed",
                          ![h.action].post = [wallet |-> world.wallet, shares |-> world.shares,
                                              pool |-> world.pool]]
  /\ Ends(h)
  /\ UNCHANGED <<clusterTime, asked, landed, world>>

\* A check fails, a request fails, the confirmation times out or the state is
\* not the expected one: the row says failed, whatever it said before.
SendActionFails(h) ==
  /\ rows' = [rows EXCEPT ![h.action].submission = "failed"]
  /\ Ends(h)
  /\ UNCHANGED <<clusterTime, asked, landed, world>>

ActionNext ==
  \/ ActionTick \/ Elsewhere
  \/ \E a \in Actions : Prepare(a)
  \/ \E a \in Actions, form \in Forms : ExecuteAction(a, form) \/ ReceiveAction(a, form)
  \/ \E h \in DOMAIN senders :
       CheckAndSimulate(h) \/ StoreSimulation(h) \/ SendAction(h) \/ ConfirmAndVerify(h) \/ SendActionFails(h)

ActionSpec == ActionInit /\ [][ActionNext]_actionVars

----------------------------------------------------------------------------
(* An action recorded as confirmed happened: the very transaction prepared *)
(* landed (close/send:72-73, :111-122 and the two like it), and the change *)
(* recorded is the one it made, although other transactions move the same  *)
(* balances and other wallets list and bind the same series: to the token  *)
(* for a close or a deposit; for a withdrawal to the share, with nothing   *)
(* paid that did not leave the pool and no less than was agreed to; a      *)
(* launched market is the wallet's own.  Nothing else that was signed      *)
(* lands.                                                                  *)
ConfirmedActionsHappened ==
  /\ \A a \in Actions, form \in Forms : form # "prepared" => landed[<<a, form>>] = "unsent"
  /\ \A a \in DOMAIN rows : rows[a].submission = "confirmed" =>
       LET change(what) == rows[a].post[what] - rows[a].pre[what]
       IN /\ landed[<<a, "prepared">>] = "ok"
          /\ CASE rows[a].kind = "close" -> change("wallet") = Buyback
               [] rows[a].kind = "create_market" -> world.market \in {"ours", "disabled"}
               [] rows[a].kind = "create_pool" -> a \in world.pools
               [] rows[a].kind = "authorize_market" -> world.binding # NoBinding
               [] rows[a].kind = "deposit" ->
                    /\ change("wallet") = -Amount /\ change("pool") = Amount
                    /\ change("shares") >= rows[a].minimum
               [] rows[a].kind = "withdraw" ->
                    /\ change("shares") = -Amount
                    /\ change("wallet") = -change("pool") /\ change("wallet") >= rows[a].minimum
=============================================================================
