---------------------------- MODULE EnrichedFeed ----------------------------
(***************************************************************************)
(* What the server offers one browser: candles over the WebSocket after    *)
(* the indicator stage (server/src/indicatorEngine.js, broadcast.js),      *)
(* ticks that bypass that stage, and the table behind GET /api/candles.    *)
(*                                                                         *)
(* A bar is its timeframe and its open time, in units of the shortest      *)
(* timeframe.  What the indicators say is left out; that a candle waits    *)
(* for them is not.                                                        *)
(***************************************************************************)
EXTENDS Integers, Sequences, FiniteSets

CONSTANTS
  Timeframes,        \* ACTIVE_TIMEFRAMES
  Default,           \* INTERVAL, which the browser starts with too
  Width,             \* length of a bar of each timeframe
  Started,           \* bars of the shortest timeframe closed before the browser opens
  Horizon,           \* bound: the clock stops here
  MaxBuffered,       \* WS_MAX_BUFFERED_BYTES, in messages
  MaxFaults          \* bound: bars lost, connections broken and requests that fail

ASSUME FeedAssumption ==
  /\ Default \in Timeframes
  /\ Width \in [Timeframes -> Nat \ {0}] /\ Width[Default] = 1
  /\ Started \in Nat /\ Horizon \in Nat /\ Started <= Horizon
  /\ MaxBuffered \in Nat /\ MaxFaults \in Nat

Bars == { b \in [tf : Timeframes, t : 0..Horizon] : b.t % Width[b.tf] = 0 }

ClosesAt(b) == b.t + Width[b.tf]

VARIABLES
  now,       \* the clock, in units of the shortest timeframe
  table,     \* bars in the table candles
  handling,  \* bars whose handler awaits the database: [bar, at]
  repaired,  \* history: bars that got into the table after a newer one
  lost,      \* history: bars the stream did not deliver
  link,      \* the client's connection: "none", "open", "closing" or "broken"
  wire,      \* what was sent to the client and not yet read
  faults     \* history: how many of those the bound counts there were

tableVars == <<now, table, handling, repaired, lost>>
feedVars  == <<tableVars, link, wire, faults>>

FeedInit ==
  /\ now = Started
  /\ table = { b \in Bars : ClosesAt(b) <= now }
  /\ handling = {} /\ repaired = {} /\ lost = {}
  /\ link = "none" /\ wire = <<>> /\ faults = 0

-----------------------------------------------------------------------------
\* sendToClient: skip a client that is not open, close one that does not drain.
sendToClient(message) ==
  \/ link # "open" /\ UNCHANGED <<link, wire>>
  \/ /\ link = "open" /\ Len(wire) > MaxBuffered
     /\ link' = "closing" /\ UNCHANGED wire
  \/ /\ link = "open" /\ Len(wire) <= MaxBuffered
     /\ wire' = Append(wire, message) /\ UNCHANGED link

\* Time passes; every bar that ends now is delivered to the ingest socket, or
\* lost until the server repairs its table.
BarsClose ==
  /\ now < Horizon /\ now' = now + 1
  /\ \E missed \in SUBSET { b \in Bars : ClosesAt(b) = now' } :
       /\ faults + Cardinality(missed) <= MaxFaults
       /\ faults' = faults + Cardinality(missed)
       /\ lost' = lost \cup missed
       /\ handling' = handling \cup
            { [bar |-> b, at |-> "insert"] : b \in {c \in Bars : ClosesAt(c) = now'} \ missed }
  /\ UNCHANGED <<table, repaired, link, wire>>

Stored(b) ==
  /\ table' = table \cup {b}
  /\ repaired' = IF \E c \in table : c.tf = b.tf /\ c.t > b.t
                 THEN repaired \cup {b} ELSE repaired

\* persist: the row is in the table before anything downstream hears of it.
Insert(h) ==
  /\ h.at = "insert"
  /\ Stored(h.bar)
  /\ handling' = (handling \ {h}) \cup {[h EXCEPT !.at = "enrich"]}
  /\ UNCHANGED <<now, lost, link, wire, faults>>

\* onCandle of the indicator stage: the window has been read, or could not be;
\* the candle is broadcast either way.
Enriched(h) ==
  /\ h.at = "enrich"
  /\ handling' = handling \ {h}
  /\ sendToClient([type |-> "candle", bar |-> h.bar])
  /\ UNCHANGED <<now, table, repaired, lost, faults>>

\* The backfill stores a lost bar and emits nothing.
Repair(b) ==
  /\ b \in lost \ table
  /\ Stored(b)
  /\ UNCHANGED <<now, handling, lost, link, wire, faults>>

Forming(tf) == [tf |-> tf, t |-> now - (now % Width[tf])]

\* onTick: the forming bar goes from the raw stream straight to the clients.  A
\* tick still unread is not repeated: a second one says the same.
Tick(tf) ==
  /\ now < Horizon
  /\ \A i \in DOMAIN wire : wire[i] # [type |-> "tick", bar |-> Forming(tf)]
  /\ sendToClient([type |-> "tick", bar |-> Forming(tf)])
  /\ UNCHANGED <<tableVars, faults>>
=============================================================================
