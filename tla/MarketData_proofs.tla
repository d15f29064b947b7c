-------------------------- MODULE MarketData_proofs --------------------------
(***************************************************************************)
(* Theorems about MarketData, for any catalog, any list of configured names *)
(* and any number of spot events.                                           *)
(*                                                                          *)
(* What goes by a name rests on the catalog: Agree says that its two maps   *)
(* agree on every name that resolves, although ids may share a name; Asked, *)
(* that only such names were subscribed to; Fresh, how the stored quotes    *)
(* and the last frames stand to each other.                                 *)
(***************************************************************************)
EXTENDS MarketData, FiniteSetTheorems, WellFoundedInduction, TLAPS

USE MarketAssumption

-----------------------------------------------------------------------------
(* Lists *)

\* The broker lists an id once.
Listed ==
  /\ \E n \in Nat : DOMAIN listing = 1 .. n
  /\ \A i \in DOMAIN listing : /\ listing[i].id \in SymbolId
                              /\ listing[i].name \in Name \cup {Absent}
  /\ \A i, j \in DOMAIN listing : listing[i].id = listing[j].id => i = j

\* A name is configured once.
Distinct == \A j, k \in DOMAIN configured : configured[j] = configured[k] => j = k

\* The two maps of the catalog agree on every name that resolves.
Agree ==
  /\ \A n \in Name : reverse[n] # Absent => map[reverse[n]] = n
  /\ \A s \in SymbolId : map[s] # Absent => reverse[map[s]] # Absent

Asked ==
  /\ DOMAIN subscribed \subseteq DOMAIN configured
  /\ \A k \in DOMAIN subscribed : subscribed[k] = reverse[configured[k]]
  /\ meta \subseteq Range(subscribed)
  /\ \A i \in DOMAIN spots : spots[i].id \in Range(subscribed)
  /\ ready = "subscribed" =>
       \A k \in DOMAIN configured : reverse[configured[k]] # Absent => k \in DOMAIN subscribed
  /\ ready # "subscribed" => DOMAIN subscribed = {} /\ DOMAIN spots = {}

\* Quotes and frames are of events taken in, and a quote is newer than its name's
\* frame, or that frame.
Fresh ==
  /\ \A n \in Name \cup SymbolId : lastTick[n] # Absent => lastTick[n].time <= taken
  /\ \A s \in SymbolId : quotes[s] # Absent => s \in Range(subscribed)
  /\ RestAgreesWithTicks

MarketInv == MarketTypeOK /\ Listed /\ Distinct /\ Agree /\ Asked /\ Fresh

LEMMA LastEntry ==
  ASSUME NEW n \in Nat, NEW T \in SUBSET (1 .. n), T # {}
  PROVE  Max(T) \in T
<1> DEFINE U == {n - i : i \in T}
<1>1. U \subseteq Nat /\ U # {}
  <2>1. \A i \in T : n - i \in Nat
    OBVIOUS
  <2>2. PICK i \in T : TRUE
    OBVIOUS
  <2> QED BY <2>1, <2>2
<1>2. PICK u \in U : \A v \in U : ~(<<v, u>> \in OpToRel(<, Nat))
  BY <1>1, NatLessThanWellFounded, WFMin
<1>3. PICK i \in T : u = n - i
  BY <1>2
<1>4. \A j \in T : i >= j
  <2> SUFFICES ASSUME NEW j \in T PROVE i >= j
    OBVIOUS
  <2>1. n - j \in U /\ u \in Nat /\ n - j \in Nat
    BY <1>1, <1>2
  <2>2. ~(n - j < u)
    BY <1>2, <2>1 DEF OpToRel
  <2> QED BY <1>3, <2>1, <2>2
<1> QED BY <1>3, <1>4 DEF Max

LEMMA NoList ==
  ASSUME NEW S
  PROVE  << >> \in UNION {[places -> S] : places \in SUBSET (1 .. MaxListed)}
<1>1. << >> \in Seq(S) /\ DOMAIN << >> = {}
  OBVIOUS
<1>2. << >> \in [{} -> S]
  BY <1>1
<1> QED BY <1>2

\* parse_symbol_list upper-cases, and keeps one of each.
LEMMA ParsedOnce ==
  ASSUME NEW raw \in BoundedSeq(Name \cup {Absent}, MaxListed)
  PROVE  /\ ParseSymbolList(raw) \in UNION {[places -> Name] : places \in SUBSET (1 .. MaxListed)}
         /\ \A j, k \in DOMAIN ParseSymbolList(raw) :
              ParseSymbolList(raw)[j] = ParseSymbolList(raw)[k] => j = k
<1> DEFINE list == ParseSymbolList(raw)
           places == DOMAIN list
<1>1. PICK m \in 0 .. MaxListed : raw \in [1 .. m -> Name \cup {Absent}]
  BY DEF BoundedSeq, SeqOf
<1>2. /\ places \subseteq 1 .. m /\ list = [i \in places |-> Upper(raw[i])]
      /\ \A i \in places : /\ raw[i] # Absent
                           /\ \A j \in 1 .. i - 1 : raw[j] # Absent => Upper(raw[j]) # Upper(raw[i])
  BY <1>1 DEF ParseSymbolList
<1> HIDE DEF list
<1>3. \A i \in places : raw[i] \in Name /\ list[i] = Upper(raw[i])
  BY <1>1, <1>2
<1>4. \A i \in places : list[i] \in Name
  BY <1>3 DEF Upper, Name
<1>5. list \in [places -> Name] /\ places \in SUBSET (1 .. MaxListed)
  BY <1>1, <1>2, <1>4
<1>6. ASSUME NEW j \in places, NEW k \in places, list[j] = list[k]
      PROVE  j = k
  <2>1. j \in Nat /\ k \in Nat /\ j >= 1 /\ k >= 1
    BY <1>1, <1>2
  <2>2. ~(j \in 1 .. k - 1) /\ ~(k \in 1 .. j - 1)
    BY <1>2, <1>3, <1>6
  <2> QED BY <2>1, <2>2
<1> QED BY <1>5, <1>6 DEF list

\* populate: an id is listed once, so what a name resolves to is listed under it.
LEMMA CatalogAgrees ==
  ASSUME Listed, NEW entries \in {listing, << >>},
         map' = MapOf(entries), reverse' = ReverseOf(entries)
  PROVE  /\ map' \in [SymbolId -> Name \cup {Absent}]
         /\ reverse' \in [Name -> SymbolId \cup {Absent}]
         /\ Agree'
<1> DEFINE Ids(s) == {i \in DOMAIN entries : entries[i].id = s /\ entries[i].name # Absent}
           Named(n) == {i \in DOMAIN entries : entries[i].name = n}
<1>1. PICK m \in Nat : DOMAIN entries = 1 .. m
  <2>1. DOMAIN << >> = 1 .. 0
    OBVIOUS
  <2> QED BY <2>1 DEF Listed
<1>2. /\ \A i \in DOMAIN entries : entries[i].id \in SymbolId /\ entries[i].name \in Name \cup {Absent}
      /\ \A i, j \in DOMAIN entries : entries[i].id = entries[j].id => i = j
  <2>1. DOMAIN << >> = {}
    OBVIOUS
  <2> QED BY <2>1 DEF Listed
<1>3. \A s \in SymbolId : Ids(s) # {} => Max(Ids(s)) \in Ids(s)
  BY <1>1, LastEntry
<1>4. \A n \in Name : Named(n) # {} => Max(Named(n)) \in Named(n)
  BY <1>1, LastEntry
<1>5. /\ map' = [s \in SymbolId |-> IF Ids(s) = {} THEN Absent ELSE entries[Max(Ids(s))].name]
      /\ reverse' = [n \in Name |-> IF Named(n) = {} THEN Absent ELSE entries[Max(Named(n))].id]
  BY DEF MapOf, ReverseOf
<1>6. map' \in [SymbolId -> Name \cup {Absent}]
  BY <1>2, <1>3, <1>5
<1>7. reverse' \in [Name -> SymbolId \cup {Absent}]
  BY <1>2, <1>4, <1>5
<1>8. ASSUME NEW n \in Name, reverse'[n] # Absent
      PROVE  map'[reverse'[n]] = n
  <2>1. Named(n) # {} /\ reverse'[n] = entries[Max(Named(n))].id
    BY <1>5, <1>8
  <2> DEFINE i == Max(Named(n))
             s == entries[i].id
  <2>2. i \in DOMAIN entries /\ entries[i].name = n /\ s \in SymbolId
    BY <1>2, <1>4, <2>1
  <2> HIDE DEF i
  <2>3. i \in Ids(s)
    BY <2>2
  <2>4. Max(Ids(s)) \in Ids(s)
    BY <1>3, <2>2, <2>3
  <2>5. Max(Ids(s)) = i
    BY <1>2, <2>2, <2>4
  <2>6. map'[s] = entries[Max(Ids(s))].name
    BY <1>5, <2>2, <2>3
  <2> QED BY <2>1, <2>2, <2>5, <2>6 DEF i
<1>9. ASSUME NEW s \in SymbolId, map'[s] # Absent
      PROVE  reverse'[map'[s]] # Absent
  <2>1. Ids(s) # {} /\ map'[s] = entries[Max(Ids(s))].name
    BY <1>5, <1>9
  <2>2. Max(Ids(s)) \in DOMAIN entries /\ map'[s] \in Name
    BY <1>3, <1>6, <1>9, <2>1
  <2>3. Max(Ids(s)) \in Named(map'[s])
    BY <2>1, <2>2
  <2>4. reverse'[map'[s]] = entries[Max(Named(map'[s]))].id
    BY <1>5, <2>2, <2>3
  <2>5. Max(Named(map'[s])) \in DOMAIN entries
    BY <1>4, <2>2, <2>3
  <2> QED BY <1>2, <2>4, <2>5
<1> QED BY <1>6, <1>7, <1>8, <1>9 DEF Agree

-----------------------------------------------------------------------------
(* The invariant *)

LEMMA InitMarket == MarketInit => MarketInv
<1> SUFFICES ASSUME MarketInit PROVE MarketInv
  OBVIOUS
<1>1. PICK f \in [SymbolId -> Name \cup {Absent}], order \in SetToSeqs(SymbolId) :
        listing = [k \in DOMAIN order |-> [id |-> order[k], name |-> f[order[k]]]]
  BY DEF MarketInit
<1>2. /\ Cardinality(SymbolId) \in Nat
      /\ order \in [1 .. Cardinality(SymbolId) -> SymbolId]
      /\ \A i, j \in 1 .. Cardinality(SymbolId) : i # j => order[i] # order[j]
  BY FS_CardinalityType DEF SetToSeqs
<1>3. Listed
  BY <1>1, <1>2 DEF Listed
<1>4. /\ configured \in UNION {[places -> Name] : places \in SUBSET (1 .. MaxListed)}
      /\ Distinct
  <2>1. PICK raw \in BoundedSeq(Name \cup {Absent}, MaxListed) : configured = ParseSymbolList(raw)
    BY DEF MarketInit
  <2> QED BY <2>1, ParsedOnce DEF Distinct
<1>5. /\ ready = "started" /\ map = [s \in SymbolId |-> Absent]
      /\ reverse = [n \in Name |-> Absent] /\ meta = {} /\ subscribed = << >> /\ spots = << >>
      /\ taken = 0 /\ quotes = [s \in SymbolId |-> Absent]
      /\ lastTick = [n \in Name \cup SymbolId |-> Absent]
  BY DEF MarketInit
<1>6. DOMAIN << >> = {} /\ Len(<< >>) = 0
  OBVIOUS
<1>7. MarketTypeOK
  <2>1. subscribed \in UNION {[places -> SymbolId] : places \in SUBSET (1 .. MaxListed)}
    BY <1>5, NoList
  <2>2. spots \in Seq([id : SymbolId, sides : SUBSET {"bid", "ask"}])
    BY <1>5
  <2>3. Len(spots) = 0 /\ taken \in 0 .. Len(spots) /\ Len(spots) <= MaxSpots
    BY <1>5, <1>6
  <2>4. /\ map \in [SymbolId -> Name \cup {Absent}]
        /\ reverse \in [Name -> SymbolId \cup {Absent}]
        /\ quotes \in [SymbolId -> Quote \cup {Absent}]
        /\ lastTick \in [Name \cup SymbolId -> Quote \cup {Absent}]
        /\ meta \in SUBSET SymbolId /\ ready \in {"started", "listed", "subscribed"}
    BY <1>5
  <2> QED BY <1>4, <2>1, <2>2, <2>3, <2>4 DEF MarketTypeOK
<1>8. Agree /\ Asked
  BY <1>5, <1>6 DEF Agree, Asked
<1>9. Fresh
  BY <1>5 DEF Fresh, RestAgreesWithTicks
<1> QED BY <1>3, <1>4, <1>7, <1>8, <1>9 DEF MarketInv

\* Before the subscription there is no event, and so no quote to go by a name that
\* the catalog has yet to learn.
LEMMA FetchMarket ==
  ASSUME MarketInv, FetchSymbols
  PROVE  MarketInv'
<1>1. /\ ready = "started" /\ ready' = "listed"
      /\ UNCHANGED <<listing, configured, meta, subscribed, spots, taken, quotes, lastTick>>
  BY DEF FetchSymbols
<1>2. PICK entries \in {listing, << >>} : map' = MapOf(entries) /\ reverse' = ReverseOf(entries)
  BY DEF FetchSymbols
<1>3. /\ map' \in [SymbolId -> Name \cup {Absent}]
      /\ reverse' \in [Name -> SymbolId \cup {Absent}] /\ Agree'
  BY <1>2, CatalogAgrees DEF MarketInv
<1>4. MarketTypeOK' /\ Listed' /\ Distinct'
  BY <1>1, <1>3 DEF MarketInv, MarketTypeOK, Listed, Distinct
<1>5. DOMAIN subscribed = {} /\ DOMAIN spots = {} /\ Range(subscribed) = {}
  BY <1>1 DEF MarketInv, Asked, Range
<1>6. Asked'
  BY <1>1, <1>5 DEF MarketInv, Asked, Range
<1>7. Fresh'
  BY <1>1, <1>5 DEF MarketInv, Fresh, RestAgreesWithTicks, Range
<1> QED BY <1>3, <1>4, <1>6, <1>7 DEF MarketInv

LEMMA SubscribeMarket ==
  ASSUME MarketInv, Subscribe
  PROVE  MarketInv'
<1> DEFINE known == {k \in DOMAIN configured : IdOf(configured[k]) # Absent}
<1>1. /\ ready = "listed" /\ ready' = "subscribed"
      /\ UNCHANGED <<listing, configured, map, reverse, spots, taken, quotes, lastTick>>
      /\ subscribed' = [k \in known |-> IdOf(configured[k])]
      /\ meta' \in SUBSET Range(subscribed')
  BY DEF Subscribe
<1>2. PICK places \in SUBSET (1 .. MaxListed) : configured \in [places -> Name]
  BY DEF MarketInv, MarketTypeOK
<1>3. reverse \in [Name -> SymbolId \cup {Absent}]
  BY DEF MarketInv, MarketTypeOK
<1>4. subscribed' \in [known -> SymbolId] /\ known \in SUBSET (1 .. MaxListed)
  BY <1>1, <1>2, <1>3 DEF IdOf
<1>5. meta' \in SUBSET SymbolId
  BY <1>1, <1>4 DEF Range
<1>6. MarketTypeOK'
  BY <1>1, <1>4, <1>5 DEF MarketInv, MarketTypeOK
<1>7. Listed' /\ Distinct' /\ Agree'
  BY <1>1 DEF MarketInv, Listed, Distinct, Agree
<1>8. DOMAIN subscribed = {} /\ DOMAIN spots = {} /\ Range(subscribed) = {}
  BY <1>1 DEF MarketInv, Asked, Range
<1>9. Asked'
  BY <1>1, <1>4, <1>8 DEF MarketInv, Asked, IdOf
<1>10. \A s \in SymbolId : quotes[s] = Absent
  BY <1>8 DEF MarketInv, Fresh
<1>11. Fresh'
  BY <1>1, <1>10 DEF MarketInv, Fresh, RestAgreesWithTicks
<1> QED BY <1>6, <1>7, <1>9, <1>11 DEF MarketInv

LEMMA BrokerMarket ==
  ASSUME MarketInv, NEW s \in SymbolId, BrokerQuotes(s)
  PROVE  MarketInv'
<1> DEFINE Event == [id : SymbolId, sides : SUBSET {"bid", "ask"}]
<1>1. /\ ready = "subscribed" /\ s \in Range(subscribed) /\ Len(spots) < MaxSpots
      /\ UNCHANGED <<catalogVars, taken, quotes, lastTick>>
  BY DEF BrokerQuotes
<1>2. PICK sides \in SUBSET {"bid", "ask"} : spots' = Append(spots, [id |-> s, sides |-> sides])
  BY DEF BrokerQuotes
<1>3. spots \in Seq(Event) /\ Len(spots) \in Nat /\ taken \in 0 .. Len(spots)
  BY DEF MarketInv, MarketTypeOK
<1>4. /\ spots' \in Seq(Event) /\ Len(spots') = Len(spots) + 1
      /\ \A i \in DOMAIN spots' : spots'[i].id = s \/ (i \in DOMAIN spots /\ spots'[i] = spots[i])
  <2> DEFINE e == [id |-> s, sides |-> sides]
  <2>1. e \in Event /\ e.id = s
    OBVIOUS
  <2>2. spots' = Append(spots, e)
    BY <1>2
  <2> HIDE DEF e, Event
  <2>3. spots' \in Seq(Event) /\ Len(spots') = Len(spots) + 1
    BY <1>3, <2>1, <2>2
  <2>4. \A i \in DOMAIN spots' : spots'[i] = e \/ (i \in DOMAIN spots /\ spots'[i] = spots[i])
    BY <1>3, <2>1, <2>2
  <2> QED BY <2>1, <2>3, <2>4
<1>5. MarketTypeOK'
  BY <1>1, <1>3, <1>4 DEF MarketInv, MarketTypeOK, catalogVars
<1>6. Listed' /\ Distinct' /\ Agree'
  BY <1>1 DEF MarketInv, Listed, Distinct, Agree, catalogVars
<1>7. Asked'
  BY <1>1, <1>4 DEF MarketInv, Asked, catalogVars
<1>8. Fresh'
  BY <1>1 DEF MarketInv, Fresh, RestAgreesWithTicks, NameOf, catalogVars
<1> QED BY <1>5, <1>6, <1>7, <1>8 DEF MarketInv

\* An id that was subscribed to is found under its name.
LEMMA SubscribedFound ==
  ASSUME MarketInv, NEW k \in DOMAIN subscribed
  PROVE  /\ configured[k] \in Name /\ subscribed[k] \in SymbolId
         /\ NameOf(subscribed[k]) = configured[k] /\ map[subscribed[k]] = configured[k]
         /\ reverse[configured[k]] = subscribed[k]
<1>1. PICK places \in SUBSET (1 .. MaxListed) : configured \in [places -> Name]
  BY DEF MarketInv, MarketTypeOK
<1>2. PICK known \in SUBSET (1 .. MaxListed) : subscribed \in [known -> SymbolId]
  BY DEF MarketInv, MarketTypeOK
<1>3. k \in DOMAIN configured /\ subscribed[k] = reverse[configured[k]]
  BY DEF MarketInv, Asked
<1>4. configured[k] \in Name /\ subscribed[k] \in SymbolId
  BY <1>1, <1>2, <1>3
<1>5. map[subscribed[k]] = configured[k]
  BY <1>3, <1>4 DEF MarketInv, Agree
<1> QED BY <1>3, <1>4, <1>5 DEF NameOf

LEMMA NamesTell ==
  ASSUME MarketInv, NEW s \in Range(subscribed), NEW t \in Range(subscribed), NameOf(s) = NameOf(t)
  PROVE  s = t
<1>1. PICK j \in DOMAIN subscribed : s = subscribed[j]
  BY DEF Range
<1>2. PICK k \in DOMAIN subscribed : t = subscribed[k]
  BY DEF Range
<1> QED BY <1>1, <1>2, SubscribedFound

LEMMA SpotMarket ==
  ASSUME MarketInv, HandleSpot
  PROVE  MarketInv'
<1> DEFINE n == taken + 1
           s == spots[n].id
           q == QuoteOf(n)
<1>1. /\ taken < Len(spots) /\ taken' = n /\ UNCHANGED <<catalogVars, spots>>
      /\ quotes' = [quotes EXCEPT ![s] = q]
      /\ lastTick' = IF BothSides(q) THEN [lastTick EXCEPT ![NameOf(s)] = q] ELSE lastTick
  BY DEF HandleSpot
<1>2. /\ spots \in Seq([id : SymbolId, sides : SUBSET {"bid", "ask"}])
      /\ Len(spots) \in Nat /\ Len(spots) <= MaxSpots /\ taken \in 0 .. Len(spots)
      /\ quotes \in [SymbolId -> Quote \cup {Absent}]
      /\ lastTick \in [Name \cup SymbolId -> Quote \cup {Absent}]
      /\ map \in [SymbolId -> Name \cup {Absent}]
  BY DEF MarketInv, MarketTypeOK
<1>3. n \in DOMAIN spots /\ n \in 1 .. MaxSpots /\ n \in Nat /\ taken \in Nat
  BY <1>1, <1>2
<1>4. s \in SymbolId /\ s \in Range(subscribed)
  <2>1. \A i \in DOMAIN spots : spots[i].id \in SymbolId
    <3> DEFINE Event == [id : SymbolId, sides : SUBSET {"bid", "ask"}]
    <3>1. \A e \in Event : e.id \in SymbolId
      OBVIOUS
    <3>2. spots \in Seq(Event)
      BY <1>2
    <3> HIDE DEF Event
    <3>3. \A i \in DOMAIN spots : spots[i] \in Event
      BY <3>2
    <3> QED BY <3>1, <3>3
  <2>2. \A i \in DOMAIN spots : spots[i].id \in Range(subscribed)
    BY DEF MarketInv, Asked
  <2> QED BY <1>3, <2>1, <2>2
<1>5. /\ q \in Quote /\ q # Absent /\ q.time = n
      /\ q.bid \in {n, Absent} /\ q.ask \in {n, Absent}
  BY <1>3 DEF QuoteOf, Quote, Stamp
<1>6. NameOf(s) \in Name \cup SymbolId
  BY <1>2, <1>4 DEF NameOf
<1> HIDE DEF n, s, q
<1>7. /\ quotes' \in [SymbolId -> Quote \cup {Absent}]
      /\ lastTick' \in [Name \cup SymbolId -> Quote \cup {Absent}]
      /\ taken' \in 0 .. Len(spots')
  <2>1. n \in 0 .. Len(spots)
    BY <1>1, <1>2, <1>3 DEF n
  <2> QED BY <1>1, <1>2, <1>5, <2>1
<1>8. MarketTypeOK'
  BY <1>1, <1>7 DEF MarketInv, MarketTypeOK, catalogVars
<1>9. Listed' /\ Distinct' /\ Agree' /\ Asked'
  BY <1>1 DEF MarketInv, Listed, Distinct, Agree, Asked, catalogVars
<1>10. /\ subscribed' = subscribed
       /\ \A t \in SymbolId : NameOf(t)' = NameOf(t)
  BY <1>1 DEF catalogVars, NameOf
<1>11. ASSUME NEW x \in Name \cup SymbolId, lastTick'[x] # Absent
       PROVE  lastTick'[x].time <= taken'
  <2>1. lastTick'[x] = q \/ lastTick'[x] = lastTick[x]
    BY <1>1, <1>2
  <2>2. CASE lastTick'[x] = q
    BY <1>1, <1>3, <1>5, <2>2
  <2>3. CASE lastTick'[x] = lastTick[x]
    <3>1. lastTick[x].time <= taken
      BY <1>11, <2>3 DEF MarketInv, Fresh
    <3>2. lastTick[x] \in Quote
      BY <1>2, <1>11, <2>3
    <3>3. lastTick[x].time \in Nat
      BY <3>2 DEF Quote
    <3> QED BY <1>1, <1>3, <2>3, <3>1, <3>3 DEF n
  <2> QED BY <2>1, <2>2, <2>3
<1>12. \A t \in SymbolId : quotes'[t] # Absent => t \in Range(subscribed)'
  BY <1>1, <1>2, <1>4, <1>10 DEF MarketInv, Fresh, Range
<1>13. ASSUME NEW t \in SymbolId, quotes'[t] # Absent
       PROVE  LET tick == lastTick'[NameOf(t)']
              IN IF BothSides(quotes'[t])
                   THEN tick = quotes'[t] /\ quotes'[t].bid = quotes'[t].ask
                   ELSE /\ 0 \in {Shown(quotes'[t]).bid, Shown(quotes'[t]).ask}
                        /\ tick = Absent \/ tick.time < quotes'[t].time
  <2>1. CASE t = s
    <3>1. quotes'[t] = q /\ NameOf(t)' = NameOf(s)
      BY <1>1, <1>2, <1>4, <1>10, <2>1
    <3>2. CASE BothSides(q)
      <4>1. lastTick'[NameOf(s)] = q
        BY <1>1, <1>2, <1>6, <3>2
      <4>2. q.bid = q.ask
        BY <1>5, <3>2 DEF BothSides
      <4> QED BY <3>1, <3>2, <4>1, <4>2
    <3>3. CASE ~BothSides(q)
      <4>1. lastTick'[NameOf(s)] = lastTick[NameOf(s)]
        BY <1>1, <3>3
      <4>2. 0 \in {Shown(q).bid, Shown(q).ask}
        <5>1. q.bid = Absent \/ q.ask = Absent
          BY <3>3 DEF BothSides
        <5> QED BY <1>5, <5>1 DEF Shown, Quote
      <4>3. ASSUME lastTick[NameOf(s)] # Absent
            PROVE  lastTick[NameOf(s)].time < q.time
        <5>1. lastTick[NameOf(s)].time <= taken
          BY <1>6, <4>3 DEF MarketInv, Fresh
        <5>2. lastTick[NameOf(s)].time \in Nat
          <6>1. lastTick[NameOf(s)] \in Quote
            BY <1>2, <1>6, <4>3
          <6> QED BY <6>1 DEF Quote
        <5> QED BY <1>3, <1>5, <5>1, <5>2 DEF n
      <4> QED BY <3>1, <3>3, <4>1, <4>2, <4>3
    <3> QED BY <3>2, <3>3
  <2>2. CASE t # s
    <3>1. quotes'[t] = quotes[t] /\ quotes[t] # Absent
      BY <1>1, <1>2, <1>13, <2>2
    <3>2. t \in Range(subscribed)
      BY <3>1 DEF MarketInv, Fresh
    <3>3. NameOf(t) # NameOf(s)
      BY <1>4, <2>2, <3>2, NamesTell
    <3>4. NameOf(t) \in Name \cup SymbolId
      BY <1>2 DEF NameOf
    <3>5. lastTick'[NameOf(t)'] = lastTick[NameOf(t)]
      BY <1>1, <1>2, <1>10, <3>3, <3>4
    <3>6. LET tick == lastTick[NameOf(t)]
          IN IF BothSides(quotes[t])
               THEN tick = quotes[t] /\ quotes[t].bid = quotes[t].ask
               ELSE /\ 0 \in {Shown(quotes[t]).bid, Shown(quotes[t]).ask}
                    /\ tick = Absent \/ tick.time < quotes[t].time
      BY <3>1 DEF MarketInv, Fresh, RestAgreesWithTicks
    <3> QED BY <3>1, <3>5, <3>6
  <2> QED BY <2>1, <2>2
<1>14. Fresh'
  BY <1>11, <1>12, <1>13 DEF Fresh, RestAgreesWithTicks
<1> QED BY <1>8, <1>9, <1>14 DEF MarketInv

LEMMA NextMarket == MarketInv /\ [MarketNext]_marketVars => MarketInv'
<1> SUFFICES ASSUME MarketInv, [MarketNext]_marketVars PROVE MarketInv'
  OBVIOUS
<1>1. CASE UNCHANGED marketVars
  BY <1>1 DEF marketVars, catalogVars, MarketInv, MarketTypeOK, Listed, Distinct, Agree, Asked,
              Fresh, RestAgreesWithTicks, NameOf
<1> QED BY <1>1, FetchMarket, SubscribeMarket, BrokerMarket, SpotMarket DEF MarketNext

-----------------------------------------------------------------------------
(* The theorems *)

\* The invariant holds of every behaviour.
THEOREM MarketCorrect == MarketSpec => []MarketInv
BY InitMarket, NextMarket, PTL DEF MarketSpec

\* The catalog, the subscription, the quotes and the frames keep their types.
THEOREM MarketTypeCorrect == MarketSpec => []MarketTypeOK
<1>1. MarketInv => MarketTypeOK
  BY DEF MarketInv
<1> QED BY <1>1, MarketCorrect, PTL

\* main.rs:81-84 and bot_loop.rs:330-333: for any list of names, in any spelling, and
\* any catalog, each configured name the catalog has is subscribed to exactly once.
THEOREM SubscriptionCorrect == MarketSpec => []SubscribedOnceByName
<1>1. MarketInv => SubscribedOnceByName
  <2> SUFFICES ASSUME MarketInv, ready = "subscribed"
               PROVE  /\ {NameOf(subscribed[k]) : k \in DOMAIN subscribed}
                           = {n \in Range(configured) : \E s \in SymbolId : map[s] = n}
                      /\ \A j, k \in DOMAIN subscribed :
                           NameOf(subscribed[j]) = NameOf(subscribed[k]) => j = k
                      /\ ListedSymbols \subseteq Range(configured)
    BY DEF SubscribedOnceByName
  <2>1. DOMAIN subscribed \subseteq DOMAIN configured
    BY DEF MarketInv, Asked
  <2>2. ASSUME NEW k \in DOMAIN subscribed
        PROVE  /\ NameOf(subscribed[k]) \in Range(configured)
               /\ \E s \in SymbolId : map[s] = NameOf(subscribed[k])
    BY <2>1, SubscribedFound DEF Range
  <2>3. ASSUME NEW n \in Range(configured), NEW s \in SymbolId, map[s] = n
        PROVE  \E k \in DOMAIN subscribed : NameOf(subscribed[k]) = n
    <3>1. PICK k \in DOMAIN configured : configured[k] = n
      BY DEF Range
    <3>2. n # Absent
      <4>1. PICK places \in SUBSET (1 .. MaxListed) : configured \in [places -> Name]
        BY DEF MarketInv, MarketTypeOK
      <4>2. n \in Name
        BY <3>1, <4>1
      <4> QED BY <4>2
    <3>3. reverse[n] # Absent
      BY <2>3, <3>2 DEF MarketInv, Agree
    <3>4. k \in DOMAIN subscribed
      BY <3>1, <3>3 DEF MarketInv, Asked
    <3> QED BY <3>1, <3>4, SubscribedFound
  <2>4. \A j, k \in DOMAIN subscribed : NameOf(subscribed[j]) = NameOf(subscribed[k]) => j = k
    BY <2>1, SubscribedFound DEF MarketInv, Distinct
  <2>5. ListedSymbols \subseteq Range(configured)
    <3> SUFFICES ASSUME NEW s \in meta PROVE map[s] \in Range(configured)
      BY DEF ListedSymbols
    <3>1. PICK k \in DOMAIN subscribed : s = subscribed[k]
      BY DEF MarketInv, Asked, Range
    <3> QED BY <2>1, <3>1, SubscribedFound DEF Range
  <2> QED BY <2>2, <2>3, <2>4, <2>5
<1> QED BY <1>1, MarketCorrect, PTL

\* quotes.rs:8-18: for any catalog, also with ids that share a name, no stored quote is
\* hidden by another of the same name, and its name resolves to its symbol.
THEOREM QuotesCorrect == MarketSpec => []NoQuoteHidden
<1>1. MarketInv => NoQuoteHidden
  <2> SUFFICES ASSUME MarketInv, NEW s \in SymbolId, quotes[s] # Absent
               PROVE  QuotesNamed(NameOf(s)) = {Shown(quotes[s])} /\ IdOf(NameOf(s)) = s
    BY DEF NoQuoteHidden
  <2>1. \A t \in SymbolId : quotes[t] # Absent => t \in Range(subscribed)
    BY DEF MarketInv, Fresh
  <2>2. PICK k \in DOMAIN subscribed : s = subscribed[k]
    BY <2>1 DEF Range
  <2>3. IdOf(NameOf(s)) = s
    BY <2>2, SubscribedFound DEF IdOf
  <2>4. \A t \in SymbolId : quotes[t] # Absent /\ NameOf(t) = NameOf(s) => t = s
    BY <2>1, NamesTell
  <2> QED BY <2>3, <2>4 DEF QuotesNamed
<1> QED BY <1>1, MarketCorrect, PTL

\* For any events with one side, both or none: what REST shows of a symbol is its
\* last tick, or newer than that and marked by a side of 0.
THEOREM TicksCorrect == MarketSpec => []RestAgreesWithTicks
<1>1. MarketInv => RestAgreesWithTicks
  BY DEF MarketInv, Fresh
<1> QED BY <1>1, MarketCorrect, PTL
=============================================================================
