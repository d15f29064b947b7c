----------------------------- MODULE MarketData -----------------------------
(***************************************************************************)
(* The symbol catalog (api/symbols.rs) and what hangs on it: the list of    *)
(* configured symbols (main.rs), the subscription to spot events, and the   *)
(* prices REST and WebSocket clients are shown (bot_loop.rs, quotes.rs).    *)
(*                                                                          *)
(* A name is a word in upper case, as parse_symbol_list writes it, or in    *)
(* another spelling; the catalog tells spellings apart.                     *)
(***************************************************************************)
EXTENDS Integers, Sequences, FiniteSetsExt, SequencesExt

CONSTANTS SymbolId,    \* the broker's ids
          Word,        \* symbol names up to spelling
          MaxListed,   \* bound on the fragments of the configured list
          MaxSpots,    \* bound on spot events
          Absent

VARIABLES
  listing,     \* the broker's ProtoOASymbolsListRes: entries in some order
  configured,  \* Config.subscribe_symbols, by place in the variable's list
  ready,       \* main has got as far as: started, listed, subscribed
  map,         \* SymbolCatalog.map, id -> name
  reverse,     \* SymbolCatalog.reverse, name -> id
  meta,        \* the ids in SymbolCatalog.meta
  subscribed,  \* the ids of ProtoOASubscribeSpotsReq, by place of their names
  spots,       \* every spot event the server sent, in order
  taken,       \* how many of them the bot has taken in
  quotes,      \* AppState.quotes
  lastTick     \* by name, the last Tick frame handed to ws_tx

catalogVars == <<listing, configured, ready, map, reverse, meta, subscribed>>
marketVars == <<catalogVars, spots, taken, quotes, lastTick>>

Name == [word : Word, upper : BOOLEAN]
Upper(name) == [name EXCEPT !.upper = TRUE]

\* A price is known by the number of the event that brought it, and so is the time.
Stamp == 0 .. MaxSpots \cup {Absent}
Quote == [bid : Stamp, ask : Stamp, time : 1 .. MaxSpots]

ASSUME MarketAssumption ==
  /\ MaxListed \in Nat /\ MaxSpots \in Nat
  /\ IsFiniteSet(SymbolId)
  /\ Absent \notin SymbolId \cup Nat /\ Absent \notin Name /\ Absent \notin Quote

-----------------------------------------------------------------------------
(* main: parse_symbol_list *)

\* Mutant of ParseSymbolList: names are compared before they are upper-cased.
ParseComparingRaw(raw) ==
  LET kept == {i \in DOMAIN raw : raw[i] # Absent /\ \A j \in 1 .. i - 1 : raw[j] # raw[i]}
  IN [i \in kept |-> Upper(raw[i])]

\* Upper-cased, empty fragments (Absent) dropped, only the first of equal ones kept.
ParseSymbolList(raw) ==
  LET name(i) == Upper(raw[i])
      kept == {i \in DOMAIN raw : /\ raw[i] # Absent
                                 /\ \A j \in 1 .. i - 1 : raw[j] # Absent => name(j) # name(i)}
  IN [i \in kept |-> name(i)]

-----------------------------------------------------------------------------
(* SymbolCatalog *)

\* Mutant of ReverseOf: the names are upper-cased on their way in.
ReverseUpperCased(entries) ==
  [n \in Name |->
     LET at == {i \in DOMAIN entries : entries[i].name # Absent /\ Upper(entries[i].name) = n}
     IN IF at = {} THEN Absent ELSE entries[Max(at)].id]

\* populate: an id has the name of its last entry, a name the id of its last entry;
\* entries without a name are passed over.
ReverseOf(entries) ==
  [n \in Name |->
     LET at == {i \in DOMAIN entries : entries[i].name = n}
     IN IF at = {} THEN Absent ELSE entries[Max(at)].id]

MapOf(entries) ==
  [s \in SymbolId |->
     LET at == {i \in DOMAIN entries : entries[i].id = s /\ entries[i].name # Absent}
     IN IF at = {} THEN Absent ELSE entries[Max(at)].name]

\* Mutant of IdOf: the lookup takes the spelling of the catalog for upper case.
IdOfAnySpelling(name) ==
  IF reverse[name] # Absent THEN reverse[name] ELSE reverse[[name EXCEPT !.upper = FALSE]]

\* id: an exact match; None is Absent.
IdOf(name) == reverse[name]

\* name: an unknown id is shown by a placeholder made of the id.
NameOf(s) == IF map[s] = Absent THEN s ELSE map[s]

-----------------------------------------------------------------------------
(* The startup steps *)

\* fetch_symbols: without a payload the catalog stays empty.
FetchSymbols ==
  /\ ready = "started"
  /\ \E entries \in {listing, << >>} : map' = MapOf(entries) /\ reverse' = ReverseOf(entries)
  /\ ready' = "listed"
  /\ UNCHANGED <<listing, configured, meta, subscribed, spots, taken, quotes, lastTick>>

\* fetch_symbol_details and subscribe_to_spots look the configured names up one by
\* one; the broker may leave out details of some.
Subscribe ==
  /\ ready = "listed"
  /\ LET known == {k \in DOMAIN configured : IdOf(configured[k]) # Absent}
     IN subscribed' = [k \in known |-> IdOf(configured[k])]
  /\ \E hydrated \in SUBSET Range(subscribed') : meta' = hydrated
  /\ ready' = "subscribed"
  /\ UNCHANGED <<listing, configured, map, reverse, spots, taken, quotes, lastTick>>

-----------------------------------------------------------------------------
(* Spot events *)

\* The server: external.  An event carries the sides that changed, or none.
BrokerQuotes(s) ==
  /\ ready = "subscribed" /\ s \in Range(subscribed)
  /\ Len(spots) < MaxSpots
  /\ \E sides \in SUBSET {"bid", "ask"} : spots' = Append(spots, [id |-> s, sides |-> sides])
  /\ UNCHANGED <<catalogVars, taken, quotes, lastTick>>

\* Mutant of QuoteOf: a missing side is taken from the stored quote.
QuoteMerged(n) ==
  LET held == quotes[spots[n].id]
      Side(x) == IF x \in spots[n].sides THEN n ELSE IF held = Absent THEN Absent ELSE held[x]
  IN [bid |-> Side("bid"), ask |-> Side("ask"), time |-> n]

\* The whole quote is replaced, a side the event does not carry by None.
QuoteOf(n) ==
  LET Side(x) == IF x \in spots[n].sides THEN n ELSE Absent
  IN [bid |-> Side("bid"), ask |-> Side("ask"), time |-> n]

BothSides(q) == q.bid # Absent /\ q.ask # Absent

\* handle_incoming on a spot event: the quote is stored, and a Tick frame sent when
\* it has both sides.
HandleSpot ==
  /\ taken < Len(spots)
  /\ taken' = taken + 1
  /\ LET s == spots[taken + 1].id
         q == QuoteOf(taken + 1)
     IN /\ quotes' = [quotes EXCEPT ![s] = q]
        /\ lastTick' = IF BothSides(q) THEN [lastTick EXCEPT ![NameOf(s)] = q] ELSE lastTick
  /\ UNCHANGED <<catalogVars, spots>>

\* Quote::from_state: a missing side is shown as 0.0.
Shown(q) ==
  [q EXCEPT !.bid = IF @ = Absent THEN 0 ELSE @, !.ask = IF @ = Absent THEN 0 ELSE @]

\* GET /api/quotes collects into a map by name: of the quotes that go by a name it
\* keeps one.
QuotesNamed(name) ==
  {Shown(quotes[s]) : s \in {t \in SymbolId : quotes[t] # Absent /\ NameOf(t) = name}}

\* GET /api/symbols: entries_with_meta.
ListedSymbols == {map[s] : s \in {t \in meta : map[t] # Absent}}

-----------------------------------------------------------------------------
MarketInit ==
  /\ \E f \in [SymbolId -> Name \cup {Absent}] :
       \E order \in SetToSeqs(SymbolId) :
         listing = [k \in DOMAIN order |-> [id |-> order[k], name |-> f[order[k]]]]
  /\ \E raw \in BoundedSeq(Name \cup {Absent}, MaxListed) : configured = ParseSymbolList(raw)
  /\ ready = "started"
  /\ map = [s \in SymbolId |-> Absent]
  /\ reverse = [n \in Name |-> Absent]
  /\ meta = {}
  /\ subscribed = << >>
  /\ spots = << >> /\ taken = 0
  /\ quotes = [s \in SymbolId |-> Absent]
  /\ lastTick = [n \in Name \cup SymbolId |-> Absent]

MarketNext ==
  \/ FetchSymbols \/ Subscribe \/ HandleSpot
  \/ \E s \in SymbolId : BrokerQuotes(s)

MarketSpec == MarketInit /\ [][MarketNext]_marketVars

-----------------------------------------------------------------------------
(* Properties *)

MarketTypeOK ==
  /\ configured \in UNION {[places -> Name] : places \in SUBSET (1 .. MaxListed)}
  /\ ready \in {"started", "listed", "subscribed"}
  /\ map \in [SymbolId -> Name \cup {Absent}]
  /\ reverse \in [Name -> SymbolId \cup {Absent}]
  /\ meta \in SUBSET SymbolId
  /\ subscribed \in UNION {[places -> SymbolId] : places \in SUBSET (1 .. MaxListed)}
  /\ spots \in Seq([id : SymbolId, sides : SUBSET {"bid", "ask"}]) /\ Len(spots) <= MaxSpots
  /\ taken \in 0 .. Len(spots)
  /\ quotes \in [SymbolId -> Quote \cup {Absent}]
  /\ lastTick \in [Name \cup SymbolId -> Quote \cup {Absent}]

\* main.rs:81-84 and bot_loop.rs:330-333: each configured name that the catalog has
\* in upper case is subscribed to, and asked for details, exactly once, however it
\* was spelled or repeated in the list, and though several ids may share it; and
\* GET /api/symbols lists no other.
SubscribedOnceByName ==
  ready = "subscribed" =>
    /\ {NameOf(subscribed[k]) : k \in DOMAIN subscribed}
         = {n \in Range(configured) : \E s \in SymbolId : map[s] = n}
    /\ \A j, k \in DOMAIN subscribed : NameOf(subscribed[j]) = NameOf(subscribed[k]) => j = k
    /\ ListedSymbols \subseteq Range(configured)

\* quotes.rs:8-18 collects quotes into a map by name: none of them hides another,
\* though ids may share a name, and each is found under a name that place_order
\* resolves to the same symbol.
NoQuoteHidden ==
  \A s \in SymbolId : quotes[s] # Absent =>
    /\ QuotesNamed(NameOf(s)) = {Shown(quotes[s])}
    /\ IdOf(NameOf(s)) = s

\* REST and WebSocket never contradict each other: a quote with both sides is the
\* last Tick sent; one with a side shown as 0 is newer than the last Tick.  No
\* shown spread is made of prices of two moments.
RestAgreesWithTicks ==
  \A s \in SymbolId : quotes[s] # Absent =>
    LET tick == lastTick[NameOf(s)]
    IN IF BothSides(quotes[s])
         THEN tick = quotes[s] /\ quotes[s].bid = quotes[s].ask
         ELSE /\ 0 \in {Shown(quotes[s]).bid, Shown(quotes[s]).ask}
              /\ tick = Absent \/ tick.time < quotes[s].time
=============================================================================
