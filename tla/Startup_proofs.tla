---------------------------- MODULE Startup_proofs ----------------------------
(***************************************************************************)
(* Proofs about Startup, for any number of pairs and messages.              *)
(*                                                                          *)
(* No property is inductive.  OneRefreshPerStart needs to know that the     *)
(* refresh token of a process is of a pair issued before it started: so     *)
(* once anybody's request has replaced the pair in force, nobody's token    *)
(* is good for another.  That again needs every token on disk and in        *)
(* memory to be one the server has issued, which is part of Typed: the two  *)
(* invariants are proved together.  For NextStartHoldsPair, PairSafe        *)
(* follows the pair in force from the server through the message, the       *)
(* memory of the process and the write to the file, so long as no mishap    *)
(* has broken the chain.  For NeverReplacesLivePair, Doomed follows the     *)
(* server's verdict on the access token through the inbox to the request    *)
(* for a new pair, and beyond the end of the process that sent it.          *)
(* ServesWhatWasLoaded rests on the order of the requests, and on a         *)
(* refusal being the last thing the process hears.                          *)
(***************************************************************************)
EXTENDS Startup, TLAPS, WellFoundedInduction

USE EnvFileAssumption, StartupAssumption

-----------------------------------------------------------------------------
(* The .env file *)

\* Every line of the key, and there is one, has this token.
Says(lines, key, token) ==
  /\ \E i \in DOMAIN lines : lines[i].key = key
  /\ \A i \in DOMAIN lines : lines[i].key = key => lines[i].value = token

\* A key that has lines has a first one.
LEMMA FirstExists ==
  ASSUME NEW T, NEW lines, lines \in Seq(LineOf(T)), NEW key,
         \E i \in DOMAIN lines : lines[i].key = key
  PROVE  \E i \in DOMAIN lines : IsFirst(lines, key, i)
<1> DEFINE K == {i \in DOMAIN lines : lines[i].key = key}
<1>1. K \subseteq Nat /\ K # {}
  OBVIOUS
<1>2. PICK i \in K : \A j \in K : ~(<<j, i>> \in OpToRel(<, Nat))
  BY <1>1, NatLessThanWellFounded, WFMin
<1>3. \A j \in K : i <= j
  <2> SUFFICES ASSUME NEW j \in K PROVE i <= j
    OBVIOUS
  <2>1. i \in Nat /\ j \in Nat
    BY <1>1
  <2>2. ~(j < i)
    BY <1>2, <2>1 DEF OpToRel
  <2> QED BY <2>1, <2>2
<1> QED BY <1>3 DEF IsFirst

LEMMA LookupSays ==
  ASSUME NEW T, NEW lines, lines \in Seq(LineOf(T)), NEW key, NEW token, Says(lines, key, token)
  PROVE  Lookup(lines, key) = token
<1>1. \E i \in DOMAIN lines : lines[i].key = key
  BY DEF Says
<1>2. \E i \in DOMAIN lines : IsFirst(lines, key, i)
  BY <1>1, FirstExists
<1> DEFINE first == CHOOSE i \in DOMAIN lines : IsFirst(lines, key, i)
<1>3. first \in DOMAIN lines /\ IsFirst(lines, key, first)
  BY <1>2
<1>4. lines[first].value = token
  BY <1>3 DEF IsFirst, Says
<1> QED BY <1>1, <1>4 DEF Lookup

\* replace_env_key keeps the shape of the file, gives every line of its key the new
\* token, and leaves what the lines of another key say.
LEMMA ReplaceSays ==
  ASSUME NEW T, NEW lines, lines \in Seq(LineOf(T)), NEW key \in Keys, NEW token \in T
  PROVE  /\ Replace(lines, key, token) \in Seq(LineOf(T))
         /\ Says(Replace(lines, key, token), key, token)
         /\ \A k, t : k # key /\ Says(lines, k, t) => Says(Replace(lines, key, token), k, t)
<1> DEFINE new == Replace(lines, key, token)
<1>1. Entry(key, token) \in LineOf(T) /\ Entry(key, token).key = key
      /\ Entry(key, token).value = token
  BY DEF Entry, LineOf
<1>2. CASE \E i \in DOMAIN lines : lines[i].key = key
  <2>1. new = [i \in DOMAIN lines |->
                 IF lines[i].key = key THEN Entry(key, token) ELSE lines[i]]
    BY <1>2 DEF Replace
  <2>2. new \in Seq(LineOf(T))
    BY <1>1, <2>1
  <2>3. DOMAIN new = DOMAIN lines /\ \A i \in DOMAIN lines : new[i].key = lines[i].key
    BY <1>1, <2>1
  <2>4. \A i \in DOMAIN lines :
          new[i].value = IF lines[i].key = key THEN token ELSE lines[i].value
    BY <1>1, <2>1
  <2> HIDE DEF new
  <2>5. Says(new, key, token)
    BY <1>2, <2>3, <2>4 DEF Says
  <2>6. \A k, t : k # key /\ Says(lines, k, t) => Says(new, k, t)
    BY <2>3, <2>4 DEF Says
  <2> QED BY <2>2, <2>5, <2>6 DEF new
<1>3. CASE ~(\E i \in DOMAIN lines : lines[i].key = key)
  <2>1. new = Append(lines, Entry(key, token))
    BY <1>3 DEF Replace
  <2>2. new \in Seq(LineOf(T)) /\ DOMAIN new = 1 .. Len(lines) + 1
        /\ DOMAIN lines = 1 .. Len(lines) /\ Len(lines) \in Nat
    BY <1>1, <2>1
  <2>3. new[Len(lines) + 1] = Entry(key, token) /\ \A i \in DOMAIN lines : new[i] = lines[i]
    BY <2>1, <2>2
  <2>4. \A i \in DOMAIN new : i \in DOMAIN lines \/ i = Len(lines) + 1
    BY <2>2
  <2>5. \A i \in DOMAIN lines : i \in DOMAIN new
    BY <2>2
  <2>6. Len(lines) + 1 \in DOMAIN new
    BY <2>2
  <2> HIDE DEF new
  <2>7. Says(new, key, token)
    BY <1>1, <1>3, <2>3, <2>4, <2>6 DEF Says
  <2>8. \A k, t : k # key /\ Says(lines, k, t) => Says(new, k, t)
    BY <1>1, <2>3, <2>4, <2>5 DEF Says
  <2> QED BY <2>2, <2>7, <2>8 DEF new
<1> QED BY <1>2, <1>3

\* After persist_rotated_tokens both keys say the tokens in memory.
LEMMA PersistedSays ==
  ASSUME NEW T, file \in Seq(LineOf(T)), config.access \in T, config.refresh \in T
  PROVE  /\ Persisted(file) \in Seq(LineOf(T))
         /\ Lookup(Persisted(file), "access") = config.access
         /\ Lookup(Persisted(file), "refresh") = config.refresh
<1> DEFINE once == Replace(file, "access", config.access)
<1>1. once \in Seq(LineOf(T)) /\ Says(once, "access", config.access)
  BY ReplaceSays DEF Keys
<1> HIDE DEF once
<1>2. /\ Replace(once, "refresh", config.refresh) \in Seq(LineOf(T))
      /\ Says(Replace(once, "refresh", config.refresh), "access", config.access)
      /\ Says(Replace(once, "refresh", config.refresh), "refresh", config.refresh)
  BY <1>1, ReplaceSays DEF Keys
<1> QED BY <1>2, LookupSays DEF Persisted, once

-----------------------------------------------------------------------------
(* The inductive invariant *)

Quiet(s) == \A i \in DOMAIN s : s[i].type = "other"
OneReply(s) == \A i, j \in DOMAIN s : s[i].type # "other" /\ s[j].type # "other" => i = j

\* A request and its answer never are on their way together, nor two answers, and
\* the process has been answered when it writes.
Exchange ==
  /\ OneReply(inbox)
  /\ asked # Absent \/ phase \in {"off", "persist", "write"} => Quiet(inbox)
  /\ phase \in {"persist", "write"} => asked = Absent

\* Only the spots are asked for without the answer being awaited.
Awaited == asked # Absent => asked = phase \/ (asked = "spots" /\ phase = "serving")

Shape ==
  /\ issued \in Nat /\ pairAtStart \in Nat
  /\ inbox \in Seq(Message)
  /\ phase \in Phases
  /\ Awaited

\* Until the answer to the refresh the process has what it read at its start, and
\* no refresh token issued later.
AsLoaded ==
  phase \in {"app", "account", "refresh"} =>
    config = Config /\ (config.refresh \in Nat => config.refresh <= pairAtStart)

\* While a process runs a pair is issued once at most: to its own request, whose answer
\* it has then, or to that of a process before it.
OneSpent ==
  /\ phase # "off" => pairAtStart <= issued /\ issued <= pairAtStart + 1
  /\ phase # "off" /\ orphaned => issued = pairAtStart
  /\ phase \in {"persist", "write"} => issued = pairAtStart + 1
  /\ phase = "refresh" =>
       \A i \in DOMAIN inbox :
         inbox[i].type \in {"pair", "hollow"} => issued = pairAtStart + 1

FileHoldsPair ==
  /\ Lookup(file, "access") = issued
  /\ issued > 0 => Lookup(file, "refresh") = issued

\* The pair in force is in the message to the process that waits for it ...
PairOnItsWay ==
  \A i \in DOMAIN inbox :
    inbox[i].type = "pair" => phase = "refresh" /\ inbox[i].pair = issued

\* ... or in its memory while it writes, or in the file.
PairSafe ==
  ~mishap /\ shell = Absent =>
    /\ file \in Seq(Line) /\ file # Absent
    /\ ~Unsaved => FileHoldsPair
    /\ phase \in {"persist", "write"} => config.access = issued /\ config.refresh = issued

StartInv == Shape /\ Exchange /\ AsLoaded /\ OneSpent /\ PairOnItsWay /\ PairSafe

\* The tokens there are: those of the pairs the server has issued, whole or not.
Known == (0 .. issued) \cup {Blank, Cut}

\* What TypeOK adds to Shape, with what makes it inductive: only known tokens are on
\* disk and in memory, the process has whole ones when it writes them, and a file to
\* write them to.
Typed ==
  /\ file \in Seq(LineOf(Known)) \cup {Absent}
  /\ shell \in {0, Absent}
  /\ issued <= MaxPairs /\ pairAtStart <= issued
  /\ accessLive \in BOOLEAN /\ session \in BOOLEAN /\ orphaned \in BOOLEAN
  /\ asked \in {Absent} \cup Requests
  /\ config \in [access : Known \cup {Absent}, refresh : Known \cup {Absent}]
  /\ subscribes \in BOOLEAN
  /\ loaded \in SUBSET StepSet
  /\ refused \in BOOLEAN /\ mishap \in BOOLEAN
  /\ phase \in {"persist", "write"} => config.access \in Known /\ config.refresh \in Known
  /\ phase = "write" => file # Absent

LEMMA StepNames ==
  /\ StepSet = {"symbols", "trader", "asset", "reconcile", "details"}
  /\ Handshake = {"app", "account", "refresh", "retry"}
  /\ Steps[1] = "symbols"
  /\ Requests = Handshake \cup StepSet \cup {"spots"} /\ Absent \notin Requests
<1>1. DOMAIN Steps = 1 .. 5
  BY DEF Steps
<1>2. 1 .. 5 = {1, 2, 3, 4, 5}
  OBVIOUS
<1> QED BY <1>1, <1>2 DEF Steps, StepSet, Handshake, Requests

LEMMA StepAfterStep ==
  ASSUME phase \in StepSet, phase # "details"
  PROVE  StepAfter \in StepSet
<1>1. DOMAIN Steps = 1 .. 5 /\ Steps[5] = "details"
  BY DEF Steps
<1>2. PICK j \in DOMAIN Steps : Steps[j] = phase
  BY DEF StepSet
<1> DEFINE i == CHOOSE k \in DOMAIN Steps : Steps[k] = phase
<1>3. i \in DOMAIN Steps /\ Steps[i] = phase
  BY <1>2
<1>4. StepAfter = Steps[1 + i]
  BY DEF StepAfter
<1> HIDE DEF i
<1>5. i \in 1 .. 4
  BY <1>1, <1>3
<1>6. 1 + i \in DOMAIN Steps
  BY <1>1, <1>5
<1> QED BY <1>4, <1>6 DEF StepSet

\* Taking the first message.
LEMMA TakeMessage ==
  ASSUME inbox \in Seq(Message), Received, OneReply(inbox)
  PROVE  /\ Head(inbox) \in Message /\ 1 \in DOMAIN inbox /\ Head(inbox) = inbox[1]
         /\ Tail(inbox) \in Seq(Message)
         /\ OneReply(Tail(inbox))
         /\ Head(inbox).type # "other" \/ Quiet(inbox) => Quiet(Tail(inbox))
         /\ \A i \in DOMAIN Tail(inbox) : \E j \in DOMAIN inbox : Tail(inbox)[i] = inbox[j]
<1> DEFINE rest == Tail(inbox)
<1>1. inbox # << >> /\ Len(inbox) \in Nat /\ Len(inbox) > 0 /\ DOMAIN inbox = 1 .. Len(inbox)
  BY DEF Received
<1>2. Head(inbox) = inbox[1] /\ 1 \in DOMAIN inbox /\ Head(inbox) \in Message
  BY <1>1
<1>3. rest \in Seq(Message) /\ DOMAIN rest = 1 .. Len(inbox) - 1
  BY <1>1
<1>4. \A i \in DOMAIN rest : rest[i] = inbox[i + 1] /\ i + 1 \in DOMAIN inbox /\ i + 1 # 1 /\ i \in Nat
  BY <1>1, <1>3
<1> HIDE DEF rest
<1>5. OneReply(rest)
  BY <1>4 DEF OneReply
<1>6. Head(inbox).type # "other" \/ Quiet(inbox) => Quiet(rest)
  BY <1>2, <1>4 DEF OneReply, Quiet
<1> QED BY <1>2, <1>3, <1>4, <1>5, <1>6 DEF rest

\* Adding a message.
LEMMA AddMessage ==
  ASSUME inbox \in Seq(Message), OneReply(inbox), NEW m \in Message
  PROVE  /\ Append(inbox, m) \in Seq(Message)
         /\ m.type = "other" \/ Quiet(inbox) => OneReply(Append(inbox, m))
         /\ m.type = "other" /\ Quiet(inbox) => Quiet(Append(inbox, m))
         /\ \A i \in DOMAIN Append(inbox, m) :
              Append(inbox, m)[i] = m \/ \E j \in DOMAIN inbox : Append(inbox, m)[i] = inbox[j]
<1> DEFINE longer == Append(inbox, m)
<1>1. longer \in Seq(Message) /\ DOMAIN longer = 1 .. Len(inbox) + 1
      /\ Len(inbox) \in Nat /\ DOMAIN inbox = 1 .. Len(inbox)
  OBVIOUS
<1>2. longer[Len(inbox) + 1] = m /\ \A i \in DOMAIN inbox : longer[i] = inbox[i]
  BY <1>1
<1>3. \A i \in DOMAIN longer : i \in DOMAIN inbox \/ i = Len(inbox) + 1
  BY <1>1
<1> HIDE DEF longer
<1>4. \A i \in DOMAIN longer : longer[i] = m \/ \E j \in DOMAIN inbox : longer[i] = inbox[j]
  BY <1>2, <1>3
<1>5. m.type = "other" \/ Quiet(inbox) => OneReply(longer)
  BY <1>2, <1>3 DEF OneReply, Quiet
<1>6. m.type = "other" /\ Quiet(inbox) => Quiet(longer)
  BY <1>2, <1>3 DEF Quiet
<1> QED BY <1>1, <1>4, <1>5, <1>6 DEF longer

\* The installed file is one.
LEMMA InitialFile == Init => file \in Seq(LineOf(Known)) \cup {Absent}
<1> SUFFICES ASSUME Init, file # Absent PROVE file \in Seq(LineOf(Known))
  OBVIOUS
<1> DEFINE L == LineOf(Known)
<1>1. InitialLines \subseteq L
  BY DEF Init, InitialLines, LineOf, Entry, OtherLine, Keys, Known
<1> HIDE DEF L
<1>2. \A a, b \in L : <<a>> \in Seq(L) /\ <<a, b>> \in Seq(L)
  OBVIOUS
<1>3. file \in {<<a>> : a \in InitialLines}
               \cup {<<a, b>> : a \in InitialLines, b \in InitialLines}
  BY DEF Init
<1>4. CASE file \in {<<a>> : a \in InitialLines}
  <2>1. PICK a \in InitialLines : file = <<a>>
    BY <1>4
  <2>2. a \in L
    BY <1>1
  <2> QED BY <1>2, <2>1, <2>2 DEF L
<1>5. CASE file \in {<<a, b>> : a \in InitialLines, b \in InitialLines}
  <2>1. PICK a \in InitialLines, b \in InitialLines : file = <<a, b>>
    BY <1>5
  <2>2. a \in L /\ b \in L
    BY <1>1
  <2> QED BY <1>2, <2>1, <2>2 DEF L
<1> QED BY <1>3, <1>4, <1>5

\* Known tokens are tokens.
LEMMA KnownFiles == issued \in Nat => Seq(LineOf(Known)) \subseteq Seq(Line)
<1> SUFFICES ASSUME issued \in Nat PROVE Seq(LineOf(Known)) \subseteq Seq(Line)
  OBVIOUS
<1>1. LineOf(Known) \subseteq Line
  BY DEF Known, Tokens, LineOf, Line
<1> QED BY <1>1

LEMMA InitInv == Init => StartInv
<1> SUFFICES ASSUME Init PROVE StartInv
  OBVIOUS
<1>1. Shape
  BY DEF Init, Shape, Awaited, Phases
<1>2. DOMAIN inbox = {} /\ phase = "off"
  BY DEF Init
<1>3. Exchange /\ PairOnItsWay
  BY <1>2 DEF Exchange, OneReply, Quiet, PairOnItsWay
<1>4. OneSpent /\ AsLoaded
  BY StepNames DEF Init, OneSpent, AsLoaded
<1>5. PairSafe
  <2> SUFFICES ASSUME shell = Absent PROVE file \in Seq(Line) /\ file # Absent /\ FileHoldsPair
    BY DEF Init, PairSafe, Unsaved
  <2>1. Lookup(file, "access") = 0 /\ file # Absent
    BY DEF Init
  <2>2. file \in Seq(Line)
    BY <2>1, InitialFile, KnownFiles DEF Init
  <2> QED BY <2>1, <2>2 DEF Init, FileHoldsPair
<1> QED BY <1>1, <1>3, <1>4, <1>5 DEF StartInv

-----------------------------------------------------------------------------
(* The steps *)

\* The steps that leave the file, the tokens and the pair in force alone.
LEMMA PlainStep ==
  ASSUME StartInv,
         UNCHANGED <<file, shell, issued, orphaned, config, pairAtStart, mishap>>,
         inbox' \in Seq(Message), Exchange', phase' \in Phases, Awaited',
         phase' = "refresh" => \A i \in DOMAIN inbox' :
           inbox'[i].type = "hollow" =>
             phase = "refresh" /\ \E j \in DOMAIN inbox : inbox'[i] = inbox[j],
         \A i \in DOMAIN inbox' : inbox'[i].type = "pair" =>
           \E j \in DOMAIN inbox : inbox'[i] = inbox[j],
         \/ phase' = phase /\ asked' \in {asked, Absent}
         \/ /\ phase \notin {"off", "refresh", "persist", "write"}
            /\ phase' \notin {"off", "app", "persist", "write"}
            /\ phase' = "account" => phase = "app"
            /\ phase' = "refresh" => phase = "account"
  PROVE  StartInv'
<1>1. AsLoaded'
  BY DEF StartInv, AsLoaded, Config, Variable
<1>2. Shape'
  BY DEF StartInv, Shape
<1>3. OneSpent'
  <2>1. phase' = "refresh" =>
          \A i \in DOMAIN inbox' :
            inbox'[i].type \in {"pair", "hollow"} => issued = pairAtStart + 1
    BY DEF StartInv, OneSpent, PairOnItsWay
  <2> QED BY <2>1 DEF StartInv, Shape, OneSpent
<1>4. PairOnItsWay'
  BY DEF StartInv, PairOnItsWay
<1>5. Unsaved => Unsaved'
  BY DEF Unsaved
<1>6. PairSafe'
  <2> SUFFICES ASSUME ~mishap, shell = Absent
               PROVE  /\ file \in Seq(Line) /\ file # Absent
                      /\ ~Unsaved' => FileHoldsPair
                      /\ phase' \in {"persist", "write"} => config.access = issued
                                                          /\ config.refresh = issued
    BY DEF PairSafe, FileHoldsPair
  <2> QED BY <1>5 DEF StartInv, PairSafe
<1> QED BY <1>1, <1>2, <1>3, <1>4, <1>6 DEF StartInv

\* The end of a process: what was not saved is a mishap, and the rest is in the file.
LEMMA EndStep ==
  ASSUME StartInv, ProcessEnds, ~Unsaved => UNCHANGED file
  PROVE  StartInv'
<1>1. /\ phase' = "off" /\ inbox' = << >> /\ asked' = Absent
      /\ UNCHANGED <<shell, issued, pairAtStart>> /\ mishap' = (mishap \/ Unsaved)
  BY DEF ProcessEnds
<1>2. DOMAIN inbox' = {}
  BY <1>1
<1>3. Shape'
  BY <1>1 DEF StartInv, Shape, Awaited, Phases
<1>4. Exchange' /\ PairOnItsWay'
  BY <1>1, <1>2 DEF Exchange, OneReply, Quiet, PairOnItsWay
<1>5. OneSpent' /\ AsLoaded'
  BY <1>1 DEF OneSpent, AsLoaded
<1>6. PairSafe'
  <2> SUFFICES ASSUME ~mishap, ~Unsaved, shell = Absent
               PROVE  file' \in Seq(Line) /\ file' # Absent /\ FileHoldsPair'
    BY <1>1 DEF PairSafe
  <2>1. file' = file /\ FileHoldsPair /\ file \in Seq(Line) /\ file # Absent
    BY DEF StartInv, PairSafe
  <2> QED BY <1>1, <2>1 DEF FileHoldsPair
<1> QED BY <1>3, <1>4, <1>5, <1>6 DEF StartInv

\* What from_env reads is a known token or nothing.
LEMMA ConfigTyped ==
  ASSUME Typed, issued \in Nat
  PROVE  Config \in [access : Known \cup {Absent}, refresh : Known \cup {Absent}]
<1>1. ASSUME NEW key \in Keys, file \in Seq(LineOf(Known))
      PROVE  Lookup(file, key) \in Known \cup {Absent}
  <2>1. CASE \E i \in DOMAIN file : file[i].key = key
    <3>1. \E i \in DOMAIN file : IsFirst(file, key, i)
      BY <1>1, <2>1, FirstExists
    <3> DEFINE first == CHOOSE i \in DOMAIN file : IsFirst(file, key, i)
    <3>2. first \in DOMAIN file
      BY <3>1
    <3>3. Lookup(file, key) = file[first].value
      BY <2>1 DEF Lookup
    <3> HIDE DEF first
    <3> QED BY <1>1, <3>2, <3>3 DEF LineOf
  <2>2. CASE ~(\E i \in DOMAIN file : file[i].key = key)
    BY <2>2 DEF Lookup
  <2> QED BY <2>1, <2>2
<1>2. \A key \in Keys : Variable(key) \in Known \cup {Absent}
  <2> TAKE key \in Keys
  <2>1. 0 \in Known
    BY DEF Known
  <2>2. CASE shell # Absent
    BY <2>1, <2>2 DEF Typed, Variable
  <2>3. CASE shell = Absent /\ file = Absent
    BY <2>3 DEF Variable
  <2>4. CASE shell = Absent /\ file # Absent
    BY <1>1, <2>4 DEF Typed, Variable
  <2> QED BY <2>2, <2>3, <2>4
<1> QED BY <1>2 DEF Config, Keys

LEMMA StartKeeps == StartInv /\ Typed /\ Start => StartInv'
<1> SUFFICES ASSUME StartInv, Typed, Start PROVE StartInv'
  OBVIOUS
<1>1. /\ phase = "off" /\ phase' = "app" /\ asked' = "app" /\ pairAtStart' = issued
      /\ config' = Config /\ UNCHANGED <<file, shell, issued, inbox, mishap>>
  BY DEF Start, Ask
<1>2. Shape'
  BY <1>1 DEF StartInv, Shape, Awaited, Phases, Handshake
<1>3. Exchange' /\ PairOnItsWay'
  BY <1>1 DEF StartInv, Exchange, Quiet, OneReply, PairOnItsWay
<1>4. OneSpent'
  BY <1>1 DEF StartInv, Shape, OneSpent
<1>5. PairSafe'
  BY <1>1 DEF StartInv, PairSafe, FileHoldsPair, Unsaved
<1>6. AsLoaded'
  <2>1. Config' = Config
    BY <1>1 DEF Config, Variable
  <2>2. issued \in Nat /\ Config.refresh \in Known \cup {Absent}
    BY ConfigTyped DEF StartInv, Shape
  <2>3. Config.refresh \in Nat => Config.refresh <= issued
    BY <2>2 DEF Known
  <2> QED BY <1>1, <2>1, <2>3 DEF AsLoaded
<1> QED BY <1>2, <1>3, <1>4, <1>5, <1>6 DEF StartInv

LEMMA TakePairKeeps == StartInv /\ TakePair => StartInv'
<1> SUFFICES ASSUME StartInv, TakePair PROVE StartInv'
  OBVIOUS
<1> DEFINE m == Head(inbox)
<1>1. /\ phase = "refresh" /\ phase' = "persist" /\ Received /\ inbox' = Tail(inbox)
      /\ UNCHANGED <<file, shell, issued, orphaned, asked, pairAtStart>>
      /\ mishap' = (mishap \/ m.type = "hollow") /\ m.type \in {"pair", "hollow"}
      /\ m.type = "pair" => config' = [access |-> m.pair, refresh |-> m.pair]
  BY DEF TakePair, Take, serverVars
<1>2. /\ 1 \in DOMAIN inbox /\ m = inbox[1]
      /\ inbox' \in Seq(Message) /\ OneReply(inbox') /\ Quiet(inbox')
  BY <1>1, TakeMessage DEF StartInv, Shape, Exchange
<1> HIDE DEF m
<1>3. asked = Absent
  BY <1>1, <1>2 DEF StartInv, Exchange, Quiet
<1>4. Shape'
  BY <1>1, <1>2, <1>3 DEF StartInv, Shape, Awaited, Phases
<1>5. Exchange' /\ PairOnItsWay'
  BY <1>1, <1>2, <1>3 DEF Exchange, PairOnItsWay, Quiet
<1>6. OneSpent' /\ AsLoaded'
  BY <1>1, <1>2 DEF StartInv, OneSpent, AsLoaded
<1>7. PairSafe'
  <2> SUFFICES ASSUME ~mishap', shell = Absent
               PROVE  /\ file \in Seq(Line) /\ file # Absent
                      /\ config'.access = issued /\ config'.refresh = issued
    BY <1>1 DEF PairSafe, Unsaved
  <2>1. ~mishap /\ m.type # "hollow"
    BY <1>1, Zenon
  <2>2. m.type = "pair" /\ m.pair = issued
    BY <1>1, <1>2, <2>1 DEF StartInv, PairOnItsWay
  <2>3. file \in Seq(Line) /\ file # Absent
    BY <2>1 DEF StartInv, PairSafe
  <2> QED BY <1>1, <2>2, <2>3
<1> QED BY <1>4, <1>5, <1>6, <1>7 DEF StartInv

\* What the pair in force has become when it is written, or is not.
LEMMA WriteKeeps == StartInv /\ (BeginWrite \/ EndWrite \/ NotPersisted) => StartInv'
<1> SUFFICES ASSUME StartInv, BeginWrite \/ EndWrite \/ NotPersisted PROVE StartInv'
  OBVIOUS
<1>1. /\ phase \in {"persist", "write"}
      /\ UNCHANGED <<shell, issued, orphaned, inbox, config, pairAtStart>>
  BY DEF BeginWrite, EndWrite, NotPersisted, serverVars
<1>2. asked = Absent /\ Quiet(inbox)
  BY <1>1 DEF StartInv, Exchange
<1>3. (phase' = "write" /\ UNCHANGED asked) \/ (phase' = "retry" /\ asked' = "retry")
  BY DEF BeginWrite, EndWrite, NotPersisted, Ask, serverVars
<1>4. Shape'
  BY <1>1, <1>2, <1>3 DEF StartInv, Shape, Awaited, Phases, Handshake
<1>5. Exchange' /\ PairOnItsWay'
  BY <1>1, <1>2, <1>3 DEF StartInv, Exchange, OneReply, Quiet, PairOnItsWay
<1>6. OneSpent' /\ AsLoaded'
  BY <1>1, <1>3 DEF StartInv, OneSpent, AsLoaded
<1>7. PairSafe'
  <2> SUFFICES ASSUME ~mishap', shell = Absent
               PROVE  /\ file' \in Seq(Line) /\ file' # Absent
                      /\ ~Unsaved' => FileHoldsPair'
                      /\ phase' \in {"persist", "write"} => config'.access = issued'
                                                            /\ config'.refresh = issued'
    BY <1>1 DEF PairSafe
  <2>1. ~mishap /\ ~NotPersisted
    BY DEF BeginWrite, EndWrite, NotPersisted
  <2>2. file \in Seq(Line) /\ file # Absent /\ config.access = issued /\ config.refresh = issued
    BY <1>1, <2>1 DEF StartInv, PairSafe
  <2>3. CASE BeginWrite
    BY <1>1, <2>2, <2>3 DEF BeginWrite, Unsaved
  <2>4. CASE EndWrite
    <3>1. issued \in Tokens
      BY DEF StartInv, Shape, Tokens
    <3>2. file' = Persisted(file) /\ phase' = "retry"
      BY <2>4 DEF EndWrite, Ask
    <3>3. file' \in Seq(Line) /\ Lookup(file', "access") = issued
          /\ Lookup(file', "refresh") = issued
      BY <2>2, <3>1, <3>2, PersistedSays DEF Line
    <3> QED BY <1>1, <3>2, <3>3 DEF FileHoldsPair
  <2> QED BY <2>1, <2>3, <2>4
<1> QED BY <1>4, <1>5, <1>6, <1>7 DEF StartInv

\* The server rotates the tokens, and the pair is in the message; or in a message
\* without a payload, and lost with it; or it refuses.
LEMMA RefreshKeeps == StartInv /\ AnswerRefresh => StartInv'
<1> SUFFICES ASSUME StartInv, AnswerRefresh PROVE StartInv'
  OBVIOUS
<1>1. /\ asked = "refresh" /\ asked' = Absent /\ UNCHANGED <<file, shell, phase, config,
                                                           pairAtStart, mishap>>
      /\ Absent # "refresh" /\ issued \in Nat
  BY StepNames DEF AnswerRefresh, StartInv, Shape
<1>2. phase = "refresh" /\ Quiet(inbox) /\ OneReply(inbox) /\ inbox \in Seq(Message)
      /\ pairAtStart \in Nat /\ pairAtStart <= issued /\ issued <= pairAtStart + 1
  BY <1>1 DEF StartInv, Shape, Awaited, Exchange, OneSpent
<1>3. PICK m \in Message :
        /\ inbox' = Append(inbox, m)
        /\ \/ /\ config.refresh = issued /\ issued' = issued + 1 /\ orphaned' = FALSE
              /\ m.type = "pair" => m.pair = issued + 1
           \/ UNCHANGED <<issued, orphaned>> /\ m.type = "refusal"
  <2>1. /\ [type |-> "pair", pair |-> issued + 1] \in Message
        /\ [type |-> "hollow"] \in Message /\ [type |-> "refusal"] \in Message
    BY <1>1 DEF Message
  <2>2. [type |-> "hollow"].type = "hollow" /\ [type |-> "refusal"].type = "refusal"
    OBVIOUS
  <2> QED BY <1>1, <2>1, <2>2 DEF AnswerRefresh, Reply, Rotate
<1>4. /\ inbox' \in Seq(Message) /\ OneReply(inbox')
      /\ \A i \in DOMAIN inbox' : inbox'[i] = m \/ \E j \in DOMAIN inbox : inbox'[i] = inbox[j]
  BY <1>2, <1>3, AddMessage
<1>5. issued' # issued => issued = pairAtStart
  BY <1>1, <1>2, <1>3 DEF StartInv, AsLoaded
<1>8. Shape' /\ Exchange' /\ AsLoaded'
  BY <1>1, <1>2, <1>3, <1>4 DEF StartInv, Shape, Awaited, Exchange, AsLoaded, Config, Variable
<1>9. OneSpent'
  <2>1. \A i \in DOMAIN inbox' :
          inbox'[i].type \in {"pair", "hollow"} => issued' = pairAtStart + 1
    BY <1>1, <1>2, <1>3, <1>4, <1>5 DEF Quiet
  <2> QED BY <1>1, <1>2, <1>3, <1>5, <2>1 DEF StartInv, OneSpent
<1>6. PairOnItsWay'
  <2> SUFFICES ASSUME NEW i \in DOMAIN inbox', inbox'[i].type = "pair"
               PROVE  inbox'[i].pair = issued'
    BY <1>1, <1>2 DEF PairOnItsWay
  <2>1. inbox'[i] = m
    BY <1>2, <1>4 DEF Quiet
  <2> QED BY <1>3, <2>1
<1>7. PairSafe'
  <2> SUFFICES ASSUME ~mishap, shell = Absent
               PROVE  file \in Seq(Line) /\ file # Absent /\ (~Unsaved' => FileHoldsPair')
    BY <1>1, <1>2 DEF PairSafe
  <2>1. file \in Seq(Line) /\ file # Absent /\ (~Unsaved => FileHoldsPair)
    BY DEF StartInv, PairSafe
  <2>2. CASE issued' = issued
    BY <1>1, <2>1, <2>2 DEF Unsaved, FileHoldsPair
  <2>3. CASE issued' = issued + 1
    BY <1>1, <1>2, <2>1, <2>3 DEF Unsaved
  <2> QED BY <1>3, <2>2, <2>3
<1> QED BY <1>6, <1>7, <1>8, <1>9 DEF StartInv

\* The request of a process that has ended is served late.
LEMMA LateKeeps == StartInv /\ RotateLate => StartInv'
<1> SUFFICES ASSUME StartInv, RotateLate PROVE StartInv'
  OBVIOUS
<1>1. /\ orphaned /\ ~orphaned' /\ issued' = issued + 1 /\ mishap' = TRUE
      /\ UNCHANGED <<file, shell, asked, inbox, phase, config, pairAtStart>>
      /\ issued \in Nat /\ pairAtStart \in Nat
  BY DEF RotateLate, Rotate, StartInv, Shape
<1>2. phase # "off" => issued = pairAtStart
  BY <1>1 DEF StartInv, OneSpent
<1>3. Shape' /\ Exchange' /\ AsLoaded' /\ PairSafe'
  BY <1>1 DEF StartInv, Shape, Awaited, Exchange, AsLoaded, Config, Variable, PairSafe
<1>4. OneSpent'
  BY <1>1, <1>2 DEF StartInv, OneSpent
<1>5. PairOnItsWay'
  BY <1>1, <1>2 DEF StartInv, PairOnItsWay, OneSpent
<1> QED BY <1>3, <1>4, <1>5 DEF StartInv

\* The process takes a message and asks for the next thing, or for nothing.
LEMMA GoOn ==
  ASSUME StartInv, Received, Take,
         Head(inbox).type # "other",
         UNCHANGED <<file, shell, issued, orphaned, config, pairAtStart, mishap>>,
         phase \notin {"off", "refresh", "persist", "write"},
         phase' \in Phases, phase' \notin {"off", "app", "persist", "write"},
         phase' = "account" => phase = "app",
         phase' = "refresh" => phase = "account",
         \/ asked' = phase' \/ UNCHANGED asked
         \/ asked' = "spots" /\ phase' = "serving"
  PROVE  StartInv'
<1>1. inbox \in Seq(Message) /\ OneReply(inbox)
  BY DEF StartInv, Shape, Exchange
<1>2. /\ 1 \in DOMAIN inbox /\ Head(inbox) = inbox[1]
      /\ inbox' \in Seq(Message) /\ OneReply(inbox') /\ Quiet(inbox')
      /\ \A i \in DOMAIN inbox' : \E j \in DOMAIN inbox : inbox'[i] = inbox[j]
  BY <1>1, TakeMessage DEF Take
<1>3. asked = Absent
  BY <1>2 DEF StartInv, Exchange, Quiet
<1>4. Exchange' /\ Awaited'
  BY <1>2, <1>3 DEF Exchange, Awaited
<1>5. \A i \in DOMAIN inbox' : inbox'[i].type # "hollow" /\ inbox'[i].type # "pair"
  BY <1>2 DEF Quiet
<1> QED BY <1>2, <1>4, <1>5, PlainStep

LEMMA ProcessKeeps ==
  StartInv /\ (ApplicationAuthorised \/ AccountAuthorised \/ RequestRefresh \/ StepAnswered)
    => StartInv'
<1> SUFFICES ASSUME StartInv PROVE
      (ApplicationAuthorised \/ AccountAuthorised \/ RequestRefresh \/ StepAnswered)
        => StartInv'
  OBVIOUS
<1>1. CASE ApplicationAuthorised
  <2>1. /\ phase = "app" /\ Received /\ Head(inbox).type # "other" /\ Take
        /\ phase' = "account" /\ asked' = "account"
        /\ UNCHANGED <<file, shell, issued, orphaned, config, pairAtStart, mishap>>
    BY <1>1 DEF ApplicationAuthorised, Ask
  <2>2. phase' \in Phases
    BY <2>1, StepNames DEF Phases
  <2> QED BY <2>1, <2>2, GoOn
<1>2. CASE AccountAuthorised
  <2>1. /\ phase \in {"account", "retry"} /\ Received /\ Head(inbox).type # "other" /\ Take
        /\ phase' = "symbols" /\ asked' = "symbols"
        /\ UNCHANGED <<file, shell, issued, orphaned, config, pairAtStart, mishap>>
    BY <1>2, StepNames DEF AccountAuthorised, Ask
  <2>2. phase' \in Phases
    BY <2>1, StepNames DEF Phases
  <2> QED BY <2>1, <2>2, GoOn
<1>3. CASE RequestRefresh
  <2>1. /\ phase = "account" /\ Received /\ Head(inbox).type # "other" /\ Take
        /\ phase' = "refresh" /\ asked' = "refresh"
        /\ UNCHANGED <<file, shell, issued, orphaned, config, pairAtStart, mishap>>
    BY <1>3 DEF RequestRefresh, Refreshable, Expired, Ask
  <2>2. phase' \in Phases
    BY <2>1, StepNames DEF Phases
  <2> QED BY <2>1, <2>2, GoOn
<1>4. CASE StepAnswered
  <2>1. /\ phase \in StepSet /\ Received /\ Head(inbox).type # "other" /\ Take
        /\ UNCHANGED <<file, shell, issued, orphaned, config, pairAtStart, mishap>>
    BY <1>4 DEF StepAnswered
  <2>2. \/ phase' = "serving" /\ (UNCHANGED asked \/ asked' = "spots")
        \/ phase' \in StepSet /\ asked' = phase'
    BY <1>4, <2>1, StepAfterStep DEF StepAnswered, NextStep, LastAnswered, Serve, Ask
  <2>3. phase' \in Phases
    BY <2>2 DEF Phases
  <2> QED BY <2>1, <2>2, <2>3, StepNames, GoOn
<1> QED BY <1>1, <1>2, <1>3, <1>4

\* A message is passed over.
LEMMA PassOverKeeps == StartInv /\ PassOver => StartInv'
<1> SUFFICES ASSUME StartInv, PassOver PROVE StartInv'
  OBVIOUS
<1>1. /\ phase \in StepSet \cup {"serving"} /\ Received /\ inbox' = Tail(inbox)
      /\ UNCHANGED <<file, shell, issued, orphaned, asked, phase, config, pairAtStart,
                     mishap>>
  BY DEF PassOver, Take, serverVars
<1>2. phase \notin {"off", "app", "account", "refresh", "persist", "write"}
  BY <1>1, StepNames
<1>3. inbox \in Seq(Message) /\ OneReply(inbox)
  BY DEF StartInv, Shape, Exchange
<1>4. /\ inbox' \in Seq(Message) /\ OneReply(inbox')
      /\ Quiet(inbox) => Quiet(inbox')
      /\ \A i \in DOMAIN inbox' : \E j \in DOMAIN inbox : inbox'[i] = inbox[j]
  BY <1>1, <1>3, TakeMessage
<1>5. Exchange' /\ phase' \in Phases /\ Awaited'
  BY <1>1, <1>4 DEF StartInv, Exchange, Shape, Awaited
<1> QED BY <1>1, <1>2, <1>4, <1>5, PlainStep

\* The server sends an answer to what it was asked, or something nobody asked for.
LEMMA ServerKeeps ==
  StartInv /\ (AnswerLogin \/ AnswerStep \/ AnswerSpots \/ Unasked \/ Expire) => StartInv'
<1> SUFFICES ASSUME StartInv, AnswerLogin \/ AnswerStep \/ AnswerSpots \/ Unasked \/ Expire
             PROVE  StartInv'
  OBVIOUS
<1>1. UNCHANGED <<file, shell, issued, orphaned, phase, config, pairAtStart, mishap>>
  BY DEF AnswerLogin, AnswerStep, AnswerSpots, Unasked, Expire, serverVars
<1>2. /\ inbox \in Seq(Message) /\ OneReply(inbox) /\ phase \in Phases
      /\ asked # Absent => asked = phase \/ (asked = "spots" /\ phase = "serving")
      /\ asked # Absent \/ phase \in {"off", "persist", "write"} => Quiet(inbox)
      /\ phase \in {"persist", "write"} => asked = Absent
  BY DEF StartInv, Shape, Awaited, Exchange
<1>3. CASE inbox' = inbox /\ UNCHANGED asked
  BY <1>1, <1>2, <1>3, PlainStep DEF StartInv, Exchange, Awaited
<1>4. CASE \E m \in Message : /\ inbox' = Append(inbox, m) /\ m.type = "other"
                              /\ UNCHANGED asked
  <2>1. PICK m \in Message : inbox' = Append(inbox, m) /\ m.type = "other" /\ UNCHANGED asked
    BY <1>4
  <2>2. /\ inbox' \in Seq(Message) /\ OneReply(inbox')
        /\ Quiet(inbox) => Quiet(inbox')
        /\ \A i \in DOMAIN inbox' : inbox'[i] = m \/ \E j \in DOMAIN inbox : inbox'[i] = inbox[j]
    BY <1>2, <2>1, AddMessage
  <2>3. Exchange'
    BY <1>1, <1>2, <2>1, <2>2 DEF Exchange
  <2>4. \A i \in DOMAIN inbox' : inbox'[i].type \in {"pair", "hollow"} =>
          \E j \in DOMAIN inbox : inbox'[i] = inbox[j]
    BY <2>1, <2>2
  <2>5. Awaited'
    BY <1>1, <1>2, <2>1 DEF Awaited
  <2> QED BY <1>1, <1>2, <2>1, <2>2, <2>3, <2>4, <2>5, PlainStep
<1>5. CASE \E m \in Message : /\ inbox' = Append(inbox, m) /\ m.type # "pair"
                              /\ asked \in Requests \ {"refresh"} /\ asked' = Absent
  <2>1. PICK m \in Message : /\ inbox' = Append(inbox, m) /\ m.type # "pair"
                             /\ asked \in Requests \ {"refresh"} /\ asked' = Absent
    BY <1>5
  <2>2. /\ inbox' \in Seq(Message) /\ OneReply(inbox')
        /\ \A i \in DOMAIN inbox' : inbox'[i] = m \/ \E j \in DOMAIN inbox : inbox'[i] = inbox[j]
    BY <1>2, <2>1, AddMessage
  <2>3. asked # Absent /\ phase \notin {"off", "refresh", "persist", "write"}
    BY <1>2, <2>1, StepNames
  <2>4. Exchange'
    BY <1>1, <2>1, <2>2, <2>3 DEF Exchange
  <2>5. \A i \in DOMAIN inbox' : inbox'[i].type = "pair" =>
          \E j \in DOMAIN inbox : inbox'[i] = inbox[j]
    BY <2>1, <2>2
  <2>6. Awaited'
    BY <2>1 DEF Awaited
  <2> QED BY <1>1, <1>2, <2>1, <2>2, <2>3, <2>4, <2>5, <2>6, PlainStep
<1>6. \A t \in {"answer", "hollow", "refusal", "invalid", "other"} :
        [type |-> t] \in Message /\ [type |-> t].type = t
  BY DEF Message
<1>7. CASE AnswerLogin
  <2>1. asked \in Requests \ {"refresh"} /\ asked' = Absent
    BY <1>7, StepNames DEF AnswerLogin
  <2>2. \E t \in {"answer", "invalid", "refusal"} : inbox' = Append(inbox, [type |-> t])
    BY <1>7 DEF AnswerLogin, Reply
  <2> QED BY <1>5, <1>6, <2>1, <2>2
<1>8. CASE AnswerStep \/ AnswerSpots
  <2>1. asked \in Requests \ {"refresh"} /\ asked' = Absent
    BY <1>8, StepNames DEF AnswerStep, AnswerSpots
  <2>2. \E t \in {"answer", "hollow", "refusal"} : inbox' = Append(inbox, [type |-> t])
    BY <1>8 DEF AnswerStep, AnswerSpots, Reply
  <2> QED BY <1>5, <1>6, <2>1, <2>2
<1>9. CASE Unasked \/ Expire
  <2>1. UNCHANGED asked /\ inbox' \in {inbox, Append(inbox, [type |-> "other"])}
    BY <1>9 DEF Unasked, Expire, Reply, serverVars
  <2> QED BY <1>3, <1>4, <1>6, <2>1
<1> QED BY <1>7, <1>8, <1>9

LEMMA EndsKeep == StartInv /\ (HandshakeFails \/ HollowEnds \/ Crash) => StartInv'
<1>1. HandshakeFails \/ HollowEnds => ProcessEnds /\ UNCHANGED file
  BY DEF HandshakeFails, HollowEnds
<1>2. Crash => ProcessEnds /\ (~Unsaved => UNCHANGED file)
  BY DEF Crash, Unsaved
<1> QED BY <1>1, <1>2, EndStep

LEMMA NextInv == StartInv /\ Typed /\ [Next]_vars => StartInv'
<1> SUFFICES ASSUME StartInv, Typed, [Next]_vars PROVE StartInv'
  OBVIOUS
<1>1. CASE Next
  BY <1>1, StartKeeps, TakePairKeeps, WriteKeeps, RefreshKeeps, LateKeeps, ProcessKeeps, PassOverKeeps,
     ServerKeeps, EndsKeep DEF Next, Authenticate, Proceed, Server
<1>2. CASE UNCHANGED vars
  <2>1. UNCHANGED <<file, shell, issued, orphaned, config, pairAtStart, mishap, inbox,
                    phase, asked>>
    BY <1>2 DEF vars, serverVars
  <2> QED BY <2>1 DEF StartInv, Shape, Awaited, Exchange, OneReply, Quiet, AsLoaded, Config,
                  Variable, OneSpent, PairOnItsWay, PairSafe, FileHoldsPair, Unsaved
<1> QED BY <1>1, <1>2

-----------------------------------------------------------------------------
(* Clients are let in *)

\* A start is at a request only after the answers to those before it, and a refusal
\* leaves it with no request at the server and no answer on its way.
Served ==
  /\ phase \in {"asset", "reconcile", "details", "serving"} => "trader" \in loaded
  /\ phase \in {"reconcile", "details", "serving"} => "asset" \in loaded
  /\ refused => \/ phase = "off"
                \/ /\ phase \in StepSet /\ asked = Absent
                   /\ \A i \in DOMAIN inbox : inbox[i].type \in {"other", "refusal"}

\* The order of the startup requests.
LEMMA StepAfterNames ==
  /\ phase = "symbols" => StepAfter = "trader"
  /\ phase = "trader" => StepAfter = "asset"
  /\ phase = "asset" => StepAfter = "reconcile"
  /\ phase = "reconcile" => StepAfter = "details"
<1>1. DOMAIN Steps = 1 .. 5 /\ Len(Steps) = 5
  BY DEF Steps
<1>2. /\ Steps[1] = "symbols" /\ Steps[2] = "trader" /\ Steps[3] = "asset"
      /\ Steps[4] = "reconcile" /\ Steps[5] = "details"
  BY DEF Steps
<1>3. ASSUME NEW k \in 1 .. 4, phase = Steps[k] PROVE StepAfter = Steps[k + 1]
  <2> DEFINE i == CHOOSE j \in DOMAIN Steps : Steps[j] = phase
  <2>1. k \in DOMAIN Steps
    BY <1>1
  <2>2. i \in DOMAIN Steps /\ Steps[i] = phase
    BY <1>3, <2>1
  <2>3. StepAfter = Steps[1 + i]
    BY DEF StepAfter
  <2> HIDE DEF i
  <2>4. i \in 1 .. 5 /\ k \in {1, 2, 3, 4} /\ i \in {1, 2, 3, 4, 5}
    BY <1>1, <2>2
  <2>5. i = k
    BY <1>2, <1>3, <2>2, <2>4
  <2> QED BY <2>3, <2>4, <2>5
<1> QED BY <1>2, <1>3

LEMMA StepAnsweredServes == StartInv /\ Served /\ StepAnswered => Served'
<1> SUFFICES ASSUME StartInv, Served, StepAnswered PROVE Served'
  OBVIOUS
<1>1. /\ phase \in StepSet /\ Received /\ Head(inbox).type \in {"answer", "hollow"}
      /\ Head(inbox).type = "answer" => loaded' = loaded \cup {phase}
      /\ Head(inbox).type # "answer" => phase \notin {"trader", "asset"} /\ loaded' = loaded
      /\ UNCHANGED refused
  BY DEF StepAnswered
<1>2. 1 \in DOMAIN inbox /\ Head(inbox) = inbox[1]
  BY <1>1, TakeMessage DEF StartInv, Shape, Exchange
<1>3. ~refused /\ ~refused'
  BY <1>1, <1>2, StepNames DEF Served
<1>4. \/ phase' = "serving" /\ phase \in {"reconcile", "details"}
      \/ phase' = StepAfter /\ phase # "details"
  BY DEF StepAnswered, NextStep, LastAnswered, Serve, Ask
<1>5. loaded \subseteq loaded' /\ (phase \in {"trader", "asset"} => phase \in loaded')
  BY <1>1
<1> QED BY <1>1, <1>3, <1>4, <1>5, StepNames, StepAfterNames DEF Served

LEMMA ServedInv == StartInv /\ Served /\ [Next]_vars => Served'
<1> SUFFICES ASSUME StartInv, Served, [Next]_vars PROVE Served'
  OBVIOUS
<1>1. inbox \in Seq(Message) /\ Awaited /\ OneReply(inbox)
      /\ (asked # Absent => Quiet(inbox)) /\ Absent \notin Requests
  BY StartupAssumption DEF StartInv, Shape, Exchange
<1>2. CASE HandshakeFails \/ HollowEnds \/ Crash
  <2>1. phase' = "off"
    BY <1>2 DEF HandshakeFails, HollowEnds, Crash, ProcessEnds
  <2> QED BY <2>1 DEF Served
<1>3. CASE Start
  BY <1>3 DEF Start, Ask, Served
<1>4. CASE ApplicationAuthorised \/ AccountAuthorised \/ RequestRefresh \/ TakePair
           \/ BeginWrite \/ EndWrite \/ NotPersisted
  <2>1. /\ phase \in {"app", "account", "retry", "refresh", "persist", "write"}
        /\ phase' \in {"account", "symbols", "refresh", "persist", "write", "retry"}
        /\ UNCHANGED refused
    BY <1>4, StepNames DEF ApplicationAuthorised, AccountAuthorised, RequestRefresh, Refreshable,
       TakePair, BeginWrite, EndWrite, NotPersisted, Ask
  <2>2. ~refused'
    BY <2>1, StepNames DEF Served
  <2> QED BY <2>1, <2>2 DEF Served
<1>5. CASE StepAnswered
  BY <1>5, StepAnsweredServes
<1>6. CASE PassOver
  <2>1. Received /\ inbox' = Tail(inbox) /\ UNCHANGED <<asked, phase, loaded, refused>>
    BY <1>6 DEF PassOver, Take, serverVars
  <2>2. \A i \in DOMAIN inbox' : \E j \in DOMAIN inbox : inbox'[i] = inbox[j]
    BY <1>1, <2>1, TakeMessage
  <2> QED BY <2>1, <2>2 DEF Served
<1>7. CASE AnswerLogin \/ AnswerRefresh \/ AnswerSpots
  <2>1. asked \in Handshake \cup {"spots"} /\ UNCHANGED <<phase, loaded, refused>>
    BY <1>7 DEF AnswerLogin, AnswerRefresh, AnswerSpots, Handshake
  <2>2. ~refused'
    BY <1>1, <2>1, StepNames DEF Served, Awaited
  <2> QED BY <2>1, <2>2 DEF Served
<1>8. CASE AnswerStep
  <2>1. asked \in StepSet /\ asked' = Absent /\ UNCHANGED <<phase, loaded>>
    BY <1>8 DEF AnswerStep
  <2>2. asked = phase /\ Quiet(inbox) /\ ~refused
    BY <1>1, <2>1, StepNames DEF Served, Awaited
  <2>3. refused' => inbox' = Append(inbox, [type |-> "refusal"])
    BY <1>8, <2>2 DEF AnswerStep, Reply
  <2>4. [type |-> "refusal"] \in Message /\ [type |-> "refusal"].type = "refusal"
    BY DEF Message
  <2>5. refused' => \A i \in DOMAIN inbox' : inbox'[i].type \in {"other", "refusal"}
    BY <1>1, <2>2, <2>3, <2>4, AddMessage DEF Quiet
  <2> QED BY <2>1, <2>2, <2>5 DEF Served
<1>9. CASE Unasked \/ Expire
  <2>1. UNCHANGED <<asked, phase, loaded, refused>>
        /\ inbox' \in {inbox, Append(inbox, [type |-> "other"])}
    BY <1>9 DEF Unasked, Expire, Reply, serverVars
  <2>2. [type |-> "other"] \in Message /\ [type |-> "other"].type = "other"
    BY DEF Message
  <2>3. \A i \in DOMAIN inbox' :
          inbox'[i].type = "other" \/ \E j \in DOMAIN inbox : inbox'[i] = inbox[j]
    BY <1>1, <2>1, <2>2, AddMessage
  <2> QED BY <2>1, <2>3 DEF Served
<1>10. CASE UNCHANGED vars \/ RotateLate
  BY <1>10 DEF vars, serverVars, RotateLate, Served
<1> QED BY <1>2, <1>3, <1>4, <1>5, <1>6, <1>7, <1>8, <1>9, <1>10
        DEF Next, Authenticate, Proceed, Server

-----------------------------------------------------------------------------
(* What a refresh replaces *)

\* The access token of the process is not the one in force, or has expired.
Stale == ~(config.access = issued /\ accessLive)

\* It stays so from the server's verdict to the process's request and the answer; and
\* when that answer comes after the end of the process, for every later process.
Doomed ==
  /\ \A i \in DOMAIN inbox : inbox[i].type = "invalid" => Stale
  /\ asked = "refresh" => Stale
  /\ orphaned => ~accessLive \/ (config.access # issued /\ Config.access # issued)

\* A step that adds no verdict, and neither revives the access token nor rotates.
LEMMA DoomedStays ==
  ASSUME Doomed, UNCHANGED <<issued, config>>, accessLive' => accessLive,
         orphaned' => orphaned /\ UNCHANGED <<file, shell>>,
         \A i \in DOMAIN inbox' : inbox'[i].type = "invalid" =>
           \E j \in DOMAIN inbox : inbox'[i] = inbox[j],
         asked' = "refresh" => asked = "refresh" \/ Stale
  PROVE  Doomed'
BY DEF Doomed, Stale, Config, Variable

\* A process that has received its pair, or lost it, leaves no request behind.
LEMMA NoneOrphaned ==
  ASSUME StartInv,
         \/ phase \in {"persist", "write"}
         \/ /\ phase = "refresh"
            /\ \E i \in DOMAIN inbox : inbox[i].type \in {"pair", "hollow"}
  PROVE  ~orphaned
BY DEF StartInv, Shape, OneSpent

LEMMA NextDoomed == StartInv /\ Typed /\ Doomed /\ [Next]_vars => Doomed'
<1> SUFFICES ASSUME StartInv, Typed, Doomed, [Next]_vars PROVE Doomed'
  OBVIOUS
<1>1. /\ inbox \in Seq(Message) /\ OneReply(inbox) /\ Absent # "refresh"
      /\ asked # Absent => asked = phase \/ (asked = "spots" /\ phase = "serving")
      /\ asked # Absent \/ phase \in {"off", "persist", "write"} => Quiet(inbox)
  BY StepNames DEF StartInv, Shape, Awaited, Exchange
<1>2. CASE HandshakeFails \/ HollowEnds \/ Crash
  <2>1. /\ inbox' = << >> /\ asked' = Absent
        /\ UNCHANGED <<shell, issued, accessLive, config>>
        /\ orphaned' => orphaned \/ asked = "refresh"
        /\ phase # "write" => UNCHANGED file
    BY <1>2 DEF HandshakeFails, HollowEnds, Crash, ProcessEnds
  <2>2. asked = "refresh" => phase = "refresh" /\ config = Config
    BY <1>1 DEF StartInv, AsLoaded
  <2>3. orphaned' => phase # "write"
    BY <2>1, <2>2, NoneOrphaned
  <2>4. phase # "write" => Config' = Config
    BY <2>1 DEF Config, Variable
  <2>5. orphaned' => ~accessLive \/ (config.access # issued /\ Config.access # issued)
    BY <2>1, <2>2 DEF Doomed, Stale
  <2> QED BY <1>1, <2>1, <2>3, <2>4, <2>5 DEF Doomed
<1>3. CASE Start
  <2>1. /\ phase = "off" /\ asked' = "app" /\ config' = Config
        /\ UNCHANGED <<inbox, file, shell, issued, accessLive, orphaned>>
    BY <1>3 DEF Start, Ask
  <2>2. Config' = Config
    BY <2>1 DEF Config, Variable
  <2> QED BY <1>1, <2>1, <2>2 DEF Doomed, Quiet
<1>4. CASE ApplicationAuthorised \/ AccountAuthorised \/ RequestRefresh \/ StepAnswered \/ PassOver
  <2>1. /\ Received /\ inbox' = Tail(inbox)
        /\ UNCHANGED <<file, shell, issued, accessLive, orphaned, config>>
    BY <1>4 DEF ApplicationAuthorised, AccountAuthorised, RequestRefresh, StepAnswered, PassOver,
       Take, serverVars
  <2>2. /\ 1 \in DOMAIN inbox /\ Head(inbox) = inbox[1]
        /\ \A i \in DOMAIN inbox' : \E j \in DOMAIN inbox : inbox'[i] = inbox[j]
    BY <1>1, <2>1, TakeMessage
  <2>3. asked' = "refresh" => asked = "refresh" \/ Stale
    <3>1. CASE RequestRefresh
      BY <2>2, <3>1 DEF RequestRefresh, Expired, Doomed
    <3>2. CASE ApplicationAuthorised \/ AccountAuthorised
      BY <3>2, StepNames DEF ApplicationAuthorised, AccountAuthorised, Ask
    <3>3. CASE StepAnswered
      <4>1. UNCHANGED asked \/ asked' \in StepSet \cup {"spots"}
        BY <3>3, StepAfterStep DEF StepAnswered, NextStep, LastAnswered, Serve, Ask
      <4> QED BY <4>1, StepNames
    <3>4. CASE PassOver
      BY <3>4 DEF PassOver, serverVars
    <3> QED BY <1>4, <3>1, <3>2, <3>3, <3>4
  <2> QED BY <2>1, <2>2, <2>3, DoomedStays
<1>5. CASE TakePair
  <2>1. phase = "refresh" /\ Received /\ inbox' = Tail(inbox) /\ UNCHANGED <<asked,
                                                                             orphaned>>
        /\ Head(inbox).type \in {"pair", "hollow"}
    BY <1>5 DEF TakePair, Take, serverVars
  <2>2. 1 \in DOMAIN inbox /\ Head(inbox) = inbox[1] /\ Quiet(inbox')
    BY <1>1, <2>1, TakeMessage
  <2>3. asked = Absent /\ ~orphaned
    BY <1>1, <2>1, <2>2, NoneOrphaned DEF Quiet
  <2> QED BY <1>1, <2>1, <2>2, <2>3 DEF Doomed, Quiet
<1>6. CASE BeginWrite \/ EndWrite \/ NotPersisted
  <2>1. /\ UNCHANGED <<issued, accessLive, orphaned, config, inbox>>
        /\ phase \in {"persist", "write"} /\ (asked' = "retry" \/ UNCHANGED asked)
    BY <1>6 DEF BeginWrite, EndWrite, NotPersisted, Ask, serverVars
  <2> QED BY <2>1, NoneOrphaned, DoomedStays
<1>7. CASE AnswerLogin
  <2>1. /\ asked \in {"app", "account", "retry"} /\ asked' = Absent
        /\ UNCHANGED <<file, shell, issued, accessLive, orphaned, config>>
    BY <1>7 DEF AnswerLogin
  <2>2. PICK m \in Message : inbox' = Append(inbox, m) /\ (m.type = "invalid" => Stale)
    <3>1. \A t \in {"answer", "invalid", "refusal"} :
            [type |-> t] \in Message /\ [type |-> t].type = t
      BY DEF Message
    <3> QED BY <1>7, <3>1 DEF AnswerLogin, Reply, Stale
  <2>3. \A i \in DOMAIN inbox' : inbox'[i] = m \/ \E j \in DOMAIN inbox : inbox'[i] = inbox[j]
    BY <1>1, <2>2, AddMessage
  <2> QED BY <1>1, <2>1, <2>2, <2>3 DEF Doomed, Stale, Config, Variable
<1>8. CASE AnswerRefresh \/ AnswerStep \/ AnswerSpots
  <2>1. /\ asked # Absent /\ asked' = Absent
        /\ UNCHANGED <<file, shell, config>>
        /\ ~orphaned' \/ UNCHANGED <<issued, accessLive, orphaned>>
    BY <1>1, <1>8, StepNames DEF AnswerRefresh, Rotate, AnswerStep, AnswerSpots
  <2>2. PICK m \in Message : inbox' = Append(inbox, m) /\ m.type # "invalid"
    <3>1. /\ [type |-> "pair", pair |-> issued + 1] \in Message
          /\ \A t \in {"answer", "hollow", "refusal"} :
               [type |-> t] \in Message /\ [type |-> t].type = t
      BY DEF Message, StartInv, Shape
    <3> QED BY <1>8, <3>1 DEF AnswerRefresh, AnswerStep, AnswerSpots, Reply
  <2>3. \A i \in DOMAIN inbox' : inbox'[i] = m \/ \E j \in DOMAIN inbox : inbox'[i] = inbox[j]
    BY <1>1, <2>2, AddMessage
  <2>4. \A i \in DOMAIN inbox' : inbox'[i].type # "invalid"
    BY <1>1, <2>1, <2>2, <2>3 DEF Quiet
  <2> QED BY <1>1, <2>1, <2>4 DEF Doomed, Config, Variable
<1>9. CASE Unasked \/ Expire
  <2>1. /\ UNCHANGED <<file, shell, issued, orphaned, config, asked>>
        /\ accessLive' => accessLive
        /\ inbox' \in {inbox, Append(inbox, [type |-> "other"])}
    BY <1>9 DEF Unasked, Expire, Reply, serverVars
  <2>2. [type |-> "other"] \in Message /\ [type |-> "other"].type = "other"
    BY DEF Message
  <2>3. \A i \in DOMAIN inbox' :
          inbox'[i].type = "other" \/ \E j \in DOMAIN inbox : inbox'[i] = inbox[j]
    BY <1>1, <2>1, <2>2, AddMessage
  <2> QED BY <2>1, <2>3, DoomedStays
<1>10. CASE UNCHANGED vars
  BY <1>10 DEF vars, serverVars, Doomed, Stale, Config, Variable
<1>11. CASE RotateLate
  <2>1. issued' = issued + 1 /\ ~orphaned' /\ UNCHANGED config /\ issued \in Nat
    BY <1>11 DEF RotateLate, Rotate, StartInv, Shape
  <2>2. config.access # issued'
    BY <2>1 DEF Typed, Known
  <2> QED BY <2>1, <2>2 DEF Doomed, Stale
<1> QED BY <1>2, <1>3, <1>4, <1>5, <1>6, <1>7, <1>8, <1>9, <1>10, <1>11
        DEF Next, Authenticate, Proceed, Server

\* Only a refresh rotates, and then the access token was stale.
LEMMA OnlyStaleReplaced ==
  Doomed /\ [Next]_vars => (issued' # issued => ~(config.access = issued /\ accessLive))
<1> SUFFICES ASSUME Doomed, [Next]_vars, issued' # issued PROVE Stale
  BY DEF Stale
<1>1. AnswerRefresh \/ RotateLate
  BY DEF Next, Authenticate, Proceed, Server, vars, serverVars, ProcessEnds, Start, Crash,
     HandshakeFails, ApplicationAuthorised, AccountAuthorised, RequestRefresh, TakePair,
     BeginWrite, EndWrite, NotPersisted, HollowEnds, StepAnswered, PassOver, AnswerLogin,
     AnswerStep, AnswerSpots, Unasked, Expire
<1> QED BY <1>1 DEF AnswerRefresh, RotateLate, Doomed, Stale

-----------------------------------------------------------------------------
(* Types *)

\* A part of a file is a file.
LEMMA PrefixesAreFiles ==
  ASSUME NEW T, Blank \in T, Cut \in T, NEW lines, lines \in Seq(LineOf(T))
  PROVE  Prefixes(lines) \subseteq Seq(LineOf(T))
<1> DEFINE cut(n) == IF lines[n].key = Absent THEN {OtherLine}
                     ELSE {OtherLine, Entry(lines[n].key, Blank), Entry(lines[n].key, Cut)}
<1>1. \A n \in 0 .. Len(lines) : SubSeq(lines, 1, n) \in Seq(LineOf(T))
  OBVIOUS
<1>2. \A n \in DOMAIN lines : cut(n) \subseteq LineOf(T)
  <2> TAKE n \in DOMAIN lines
  <2>1. lines[n].key \in Keys \cup {Absent}
    BY DEF LineOf
  <2>2. OtherLine \in LineOf(T)
        /\ \A key \in Keys : Entry(key, Blank) \in LineOf(T) /\ Entry(key, Cut) \in LineOf(T)
    BY DEF OtherLine, Entry, LineOf
  <2> QED BY <2>1, <2>2
<1>3. \A n \in DOMAIN lines, l \in LineOf(T) : Append(SubSeq(lines, 1, n - 1), l) \in Seq(LineOf(T))
  <2> TAKE n \in DOMAIN lines, l \in LineOf(T)
  <2>1. n - 1 \in 0 .. Len(lines)
    OBVIOUS
  <2>2. SubSeq(lines, 1, n - 1) \in Seq(LineOf(T))
    BY <1>1, <2>1
  <2> QED BY <2>2
<1>4. Prefixes(lines) = {SubSeq(lines, 1, n) : n \in 0 .. Len(lines) - 1}
        \cup UNION {{Append(SubSeq(lines, 1, n - 1), l) : l \in cut(n)} : n \in DOMAIN lines}
  BY DEF Prefixes
<1> HIDE DEF cut
<1>5. ASSUME NEW s \in Prefixes(lines) PROVE s \in Seq(LineOf(T))
  <2>1. CASE \E n \in 0 .. Len(lines) - 1 : s = SubSeq(lines, 1, n)
    <3>1. PICK n \in 0 .. Len(lines) - 1 : s = SubSeq(lines, 1, n)
      BY <2>1
    <3>2. n \in 0 .. Len(lines)
      OBVIOUS
    <3> QED BY <1>1, <3>1, <3>2
  <2>2. CASE \E n \in DOMAIN lines : \E l \in cut(n) : s = Append(SubSeq(lines, 1, n - 1), l)
    <3>1. PICK n \in DOMAIN lines : \E l \in cut(n) : s = Append(SubSeq(lines, 1, n - 1), l)
      BY <2>2
    <3>2. PICK l \in cut(n) : s = Append(SubSeq(lines, 1, n - 1), l)
      BY <3>1
    <3> QED BY <1>2, <1>3, <3>2
  <2>3. \/ \E n \in 0 .. Len(lines) - 1 : s = SubSeq(lines, 1, n)
        \/ \E n \in DOMAIN lines : s \in {Append(SubSeq(lines, 1, n - 1), l) : l \in cut(n)}
    BY <1>4, <1>5, Zenon
  <2> QED BY <2>1, <2>2, <2>3
<1> QED BY <1>5

\* What persist_rotated_tokens writes, or a part of it, is a file.
LEMMA WrittenIsFile ==
  ASSUME Typed, phase = "write"
  PROVE  /\ Persisted(file) \in Seq(LineOf(Known))
         /\ Prefixes(Persisted(file)) \subseteq Seq(LineOf(Known))
<1>1. Persisted(file) \in Seq(LineOf(Known))
  BY PersistedSays DEF Typed
<1> QED BY <1>1, PrefixesAreFiles DEF Known

\* The server issuing a pair makes no known token unknown.
LEMMA KnownGrows ==
  ASSUME Typed, issued \in Nat, issued' \in {issued, issued + 1}
  PROVE  /\ Known \subseteq Known'
         /\ Seq(LineOf(Known)) \subseteq Seq(LineOf(Known'))
<1>1. Known \subseteq Known'
  BY DEF Known
<1>2. LineOf(Known) \subseteq LineOf(Known')
  BY <1>1 DEF LineOf
<1> QED BY <1>1, <1>2

LEMMA TypedInit == Init => Typed
<1> SUFFICES ASSUME Init PROVE Typed
  OBVIOUS
<1>1. issued = 0 /\ pairAtStart = 0 /\ MaxPairs \in Nat
  BY DEF Init
<1>2. issued <= MaxPairs /\ pairAtStart <= issued
  BY <1>1
<1>3. config \in [access : Known \cup {Absent}, refresh : Known \cup {Absent}]
  BY DEF Init
<1>4. file \in Seq(LineOf(Known)) \cup {Absent}
  BY InitialFile
<1>5. /\ shell \in {0, Absent} /\ accessLive = TRUE /\ session = FALSE /\ asked = Absent
      /\ orphaned = FALSE /\ subscribes \in BOOLEAN /\ loaded = {} /\ refused = FALSE /\ mishap = FALSE
      /\ phase = "off"
  BY DEF Init
<1> QED BY <1>2, <1>3, <1>4, <1>5 DEF Typed

LEMMA TypedNext == StartInv /\ Typed /\ [Next]_vars => Typed'
<1> SUFFICES ASSUME StartInv, Typed, [Next]_vars PROVE Typed'
  OBVIOUS
<1>1. issued \in Nat /\ pairAtStart \in Nat /\ inbox \in Seq(Message)
  BY DEF StartInv, Shape
<1>0. UNCHANGED issued => Known' = Known
  BY DEF Known
<1>2. CASE HandshakeFails \/ HollowEnds \/ Crash
  <2>1. /\ phase' = "off" /\ asked' = Absent /\ session' = FALSE /\ loaded' = {}
        /\ mishap' \in BOOLEAN /\ orphaned' \in BOOLEAN
        /\ UNCHANGED <<shell, issued, accessLive, config, subscribes, pairAtStart,
                       refused>>
    BY <1>2 DEF HandshakeFails, HollowEnds, Crash, ProcessEnds, Typed
  <2>2. file' \in Seq(LineOf(Known)) \cup {Absent}
    <3>1. CASE UNCHANGED file
      BY <3>1 DEF Typed
    <3>2. CASE phase = "write" /\ file' \in Prefixes(Persisted(file))
      BY <3>2, WrittenIsFile
    <3> QED BY <1>2, <3>1, <3>2 DEF HandshakeFails, HollowEnds, Crash
  <2> QED BY <1>0, <2>1, <2>2 DEF Typed
<1>3. CASE Start
  <2>1. /\ phase' = "app" /\ asked' = "app" /\ config' = Config /\ pairAtStart' = issued
        /\ refused' = FALSE
        /\ UNCHANGED <<file, shell, issued, accessLive, session, orphaned, subscribes,
                       loaded, mishap>>
    BY <1>3 DEF Start, Ask
  <2>2. config' \in [access : Known \cup {Absent}, refresh : Known \cup {Absent}]
    BY <1>1, <2>1, ConfigTyped
  <2>3. issued' <= MaxPairs /\ pairAtStart' <= issued'
    BY <1>1, <2>1 DEF Typed
  <2>4. asked' \in Handshake
    BY <2>1, StepNames
  <2> QED BY <1>0, <2>1, <2>2, <2>3, <2>4, StepNames DEF Typed
<1>4. CASE ApplicationAuthorised \/ AccountAuthorised \/ RequestRefresh
  <2>1. /\ asked' = phase' /\ phase' \in {"account", "symbols", "refresh"}
        /\ UNCHANGED <<file, shell, issued, accessLive, session, orphaned, config,
                       subscribes, loaded, pairAtStart, refused, mishap>>
    BY <1>4, StepNames DEF ApplicationAuthorised, AccountAuthorised, RequestRefresh, Ask
  <2> QED BY <1>0, <2>1, StepNames DEF Typed
<1>5. CASE TakePair
  <2> DEFINE m == Head(inbox)
  <2>1. /\ phase' = "persist" /\ Received
        /\ m.type = "pair" => config' = [access |-> m.pair, refresh |-> m.pair]
        /\ m.type # "pair" => config' = [access |-> Blank, refresh |-> Blank]
        /\ mishap' \in BOOLEAN
        /\ UNCHANGED <<file, shell, issued, accessLive, session, orphaned, asked,
                       subscribes, loaded, pairAtStart, refused>>
    BY <1>5 DEF TakePair, serverVars, Typed
  <2>2. m \in Message
    BY <1>1, <2>1 DEF Received
  <2>3. m.type = "pair" => m.pair = issued
    BY <1>1, <2>1 DEF Received, StartInv, PairOnItsWay
  <2> HIDE DEF m
  <2>4. /\ config' \in [access : Known \cup {Absent}, refresh : Known \cup {Absent}]
        /\ config'.access \in Known /\ config'.refresh \in Known
    BY <1>1, <2>1, <2>3 DEF Known
  <2> QED BY <1>0, <2>1, <2>4 DEF Typed
<1>6. CASE BeginWrite
  BY <1>0, <1>6 DEF BeginWrite, serverVars, Typed
<1>7. CASE EndWrite \/ NotPersisted
  <2>1. /\ phase \in {"persist", "write"} /\ phase' = "retry" /\ asked' = "retry"
        /\ mishap' \in BOOLEAN
        /\ UNCHANGED <<shell, issued, accessLive, session, orphaned, config, subscribes,
                       loaded, pairAtStart, refused>>
    BY <1>7 DEF EndWrite, NotPersisted, Ask, Typed
  <2>2. file' \in Seq(LineOf(Known)) \cup {Absent}
    <3>1. CASE UNCHANGED file
      BY <3>1 DEF Typed
    <3>2. CASE phase = "write" /\ file' \in {Persisted(file)} \cup Prefixes(Persisted(file))
      BY <3>2, WrittenIsFile
    <3> QED BY <1>7, <3>1, <3>2 DEF EndWrite, NotPersisted
  <2> QED BY <1>0, <2>1, <2>2, StepNames DEF Typed
<1>8. CASE StepAnswered
  <2>1. /\ phase \in StepSet /\ loaded' \in {loaded, loaded \cup {phase}}
        /\ UNCHANGED <<file, shell, issued, accessLive, session, orphaned, config,
                       subscribes, pairAtStart, refused, mishap>>
    BY <1>8 DEF StepAnswered
  <2>2. \/ phase' = "serving" /\ (UNCHANGED asked \/ asked' = "spots")
        \/ phase' \in StepSet /\ asked' = phase'
    BY <1>8, <2>1, StepAfterStep DEF StepAnswered, NextStep, LastAnswered, Serve, Ask
  <2> QED BY <1>0, <2>1, <2>2, StepNames DEF Typed
<1>9. CASE PassOver
  BY <1>0, <1>9 DEF PassOver, serverVars, Typed
<1>10. CASE AnswerLogin
  <2>1. /\ session' \in BOOLEAN /\ asked' = Absent
        /\ UNCHANGED <<file, shell, issued, accessLive, orphaned, phase, config,
                       subscribes, loaded, pairAtStart, refused, mishap>>
    BY <1>10 DEF AnswerLogin, Typed
  <2> QED BY <1>0, <2>1 DEF Typed
<1>11. CASE AnswerRefresh \/ RotateLate
  <2>1. /\ asked' \in {Absent, asked}
        /\ \/ /\ issued < MaxPairs /\ issued' = issued + 1 /\ accessLive' = TRUE
              /\ orphaned' = FALSE
           \/ UNCHANGED <<issued, accessLive, orphaned>>
        /\ mishap' \in BOOLEAN
        /\ UNCHANGED <<file, shell, session, phase, config, subscribes, loaded,
                       pairAtStart, refused>>
    BY <1>11 DEF AnswerRefresh, RotateLate, Rotate, Typed
  <2>2. issued' <= MaxPairs /\ pairAtStart' <= issued'
    BY <1>1, <2>1 DEF Typed
  <2>3. issued' \in {issued, issued + 1}
    BY <2>1
  <2>4. Known \subseteq Known' /\ Seq(LineOf(Known)) \subseteq Seq(LineOf(Known'))
    BY <1>1, <2>3, KnownGrows
  <2>5. /\ file' \in Seq(LineOf(Known')) \cup {Absent}
        /\ config' \in [access : Known' \cup {Absent}, refresh : Known' \cup {Absent}]
        /\ phase' \in {"persist", "write"} =>
             config'.access \in Known' /\ config'.refresh \in Known'
    BY <2>1, <2>4 DEF Typed
  <2> QED BY <2>1, <2>2, <2>5 DEF Typed
<1>12. CASE AnswerStep \/ AnswerSpots
  <2>1. /\ refused' \in BOOLEAN /\ asked' = Absent
        /\ UNCHANGED <<file, shell, issued, accessLive, session, orphaned, phase,
                       config, subscribes, loaded, pairAtStart, mishap>>
    BY <1>12 DEF AnswerStep, AnswerSpots, Typed
  <2> QED BY <1>0, <2>1 DEF Typed
<1>13. CASE Unasked \/ Expire
  <2>1. /\ accessLive' \in BOOLEAN /\ session' \in BOOLEAN
        /\ UNCHANGED <<file, shell, issued, asked, orphaned, phase, config, subscribes,
                       loaded, pairAtStart, refused, mishap>>
    BY <1>13 DEF Unasked, Expire, serverVars, Typed
  <2> QED BY <1>0, <2>1 DEF Typed
<1>14. CASE UNCHANGED vars
  BY <1>0, <1>14 DEF vars, serverVars, Typed
<1> QED BY <1>2, <1>3, <1>4, <1>5, <1>6, <1>7, <1>8, <1>9, <1>10, <1>11, <1>12, <1>13, <1>14
        DEF Next, Authenticate, Proceed, Server

-----------------------------------------------------------------------------
(* The theorems *)

\* The invariant holds of every behaviour.
THEOREM InvCorrect == Spec => [](StartInv /\ Typed)
BY InitInv, TypedInit, NextInv, TypedNext, PTL DEF Spec

\* auth.rs:9-13: account auth is retried exactly once: however a process fares, it
\* spends at most one refresh token, one spent late by the process before it
\* included.
THEOREM OneRefreshCorrect == Spec => []OneRefreshPerStart
<1>1. StartInv /\ Typed => OneRefreshPerStart
  BY DEF StartInv, OneSpent, OneRefreshPerStart
<1> QED BY <1>1, InvCorrect, PTL

\* auth.rs:163-169 and main.rs:20-24: the next start finds the pair in force in
\* the file, also its refresh token, unless a process ended between sending the
\* refresh request and the end of fs::write (the server may rotate long after that),
\* the answer had no payload, the write failed, or there was no file to write to.
THEOREM NextStartCorrect == Spec => []NextStartHoldsPair
<1>1. StartInv /\ Typed => NextStartHoldsPair
  <2> SUFFICES ASSUME StartInv, phase = "off", ~mishap, shell = Absent
               PROVE  Config.access = issued /\ (issued > 0 => Config.refresh = issued)
    BY DEF NextStartHoldsPair
  <2>1. FileHoldsPair /\ file # Absent /\ issued \in Nat
    BY DEF StartInv, Shape, PairSafe, Unsaved
  <2>2. Variable("access") = Lookup(file, "access") /\ Variable("refresh") = Lookup(file, "refresh")
    BY <2>1 DEF Variable
  <2>3. issued # Blank
    BY <2>1
  <2> QED BY <2>1, <2>2, <2>3 DEF FileHoldsPair, Config
<1> QED BY <1>1, InvCorrect, PTL

\* auth.rs:76-78: the refresh token is for a dead access token: the server is never
\* made to rotate while the access token the process holds is the one in force and
\* lives, whatever else an account auth was refused for.
THEOREM ReplacementCorrect == Spec => NeverReplacesLivePair
<1>1. Init => Doomed
  BY StepNames DEF Init, Doomed
<1>2. Spec => []Doomed
  BY <1>1, NextDoomed, InvCorrect, PTL DEF Spec
<1>3. Doomed /\ [Next]_vars =>
        [issued' # issued => ~(config.access = issued /\ accessLive)]_vars
  BY OnlyStaleReplaced
<1> QED BY <1>2, <1>3, PTL DEF Spec, NeverReplacesLivePair

\* routes/account.rs answers 503 until trader info "has arrived": clients are let
\* in only then, and never after a startup request the server refused.
THEOREM ServedCorrect == Spec => []ServesWhatWasLoaded
<1>1. Init => Served
  BY DEF Init, Served
<1>2. StartInv /\ Served => ServesWhatWasLoaded
  <2>1. "serving" \notin StepSet /\ "serving" # "off"
    BY StepNames
  <2> QED BY <2>1 DEF Served, ServesWhatWasLoaded
<1>3. Spec => [](StartInv /\ Served)
  BY <1>1, ServedInv, InvCorrect, PTL DEF Spec
<1> QED BY <1>2, <1>3, PTL

\* Every variable keeps its type: what is on disk is always a file, what the process
\* writes to it are tokens, and it never waits for two answers.
THEOREM TypeCorrect == Spec => []TypeOK
<1>1. StartInv /\ Typed => TypeOK
  BY KnownFiles DEF StartInv, Shape, Awaited, Typed, Known, Tokens, TypeOK
<1> QED BY <1>1, InvCorrect, PTL
=============================================================================
