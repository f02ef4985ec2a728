---------------------------- MODULE AccountPanel ----------------------------
(***************************************************************************)
(* The trades on one browser's screen (client/src/hooks/useAccount.js): the *)
(* WebSocket carries the account without them, so every account message    *)
(* asks for them again, one request at a time.  The trades table only      *)
(* grows and is its number of rows.                                        *)
(***************************************************************************)
EXTENDS Session, Sequences, SequencesExt

VARIABLES
  tradeRows,   \* server: rows of the trades table
  messages,    \* account messages on their way to the browser
  loaded,      \* loadAll has had its answers, or failed
  requests,    \* requests for the trades in flight: [served, rows]
  blotter      \* on screen: how many trades

accountVars == <<budget, tradeRows, messages, loaded, requests, blotter>>

Asked == [served |-> FALSE, rows |-> 0]

AccountInit ==
  /\ tradeRows = 0 /\ messages = 0
  /\ loaded = FALSE /\ requests = <<>> /\ blotter = 0

-----------------------------------------------------------------------------
loadTrades_Stacks == requests' = Append(requests, Asked)

\* loadTrades: asked for while a request is in flight (inFlight), it is dropped.
loadTrades == requests' = IF requests = <<>> THEN <<Asked>> ELSE requests

\* executeSignal: a fill that closes a position is in the table before the
\* account is published; a BUY writes no trade.
Publish ==
  /\ Spend("account")
  /\ tradeRows' \in {tradeRows, tradeRows + 1}
  /\ messages' = messages + 1
  /\ UNCHANGED <<loaded, requests, blotter>>

\* The connection drops and comes back: what was on its way is lost, and the
\* server sends the account to the new client (snapshotProvider).
Reconnect ==
  /\ Spend("account")
  /\ messages' = 1
  /\ UNCHANGED <<tradeRows, loaded, requests, blotter>>

applyAccountMessage ==
  /\ messages > 0 /\ messages' = messages - 1
  /\ loadTrades
  /\ UNCHANGED <<budget, tradeRows, loaded, blotter>>

\* Balance and positions have come, or failed; the trades are asked for after them.
loadAll ==
  /\ ~loaded /\ loaded' = TRUE
  /\ Spend("account")
  /\ loadTrades
  /\ UNCHANGED <<tradeRows, messages, blotter>>

TradesServed(i) ==
  /\ ~requests[i].served
  /\ requests' = [requests EXCEPT ![i] = [served |-> TRUE, rows |-> tradeRows]]
  /\ UNCHANGED <<budget, tradeRows, messages, loaded, blotter>>

\* A request that is not answered in time changes nothing on screen.
TradesLand(i) ==
  /\ \/ requests[i].served /\ blotter' = requests[i].rows
     \/ blotter' = blotter
  /\ requests' = RemoveAt(requests, i)
  /\ UNCHANGED <<budget, tradeRows, messages, loaded>>

AccountNext ==
  \/ Publish \/ Reconnect \/ applyAccountMessage \/ loadAll
  \/ \E i \in DOMAIN requests : TradesServed(i) \/ TradesLand(i)

-----------------------------------------------------------------------------
\* A trade that was listed stays listed: however slowly refetches are answered,
\* none of them takes the screen back to an earlier table ("never stack
\* refetches", useAccount.js:21).
BlotterNeverGoesBack == [][blotter' >= blotter]_accountVars
=============================================================================
