------------------------------- MODULE Startup -------------------------------
(***************************************************************************)
(* The life of a process: Config::from_env, auth::authenticate with the     *)
(* rotation of the tokens, the startup requests of bot_loop.rs, the API and *)
(* the loop at work, the end of the process and the next start (main.rs).   *)
(*                                                                          *)
(* The bot has one request at the server at a time and reads the answers in *)
(* the order they come, between messages of other kinds.  The process may   *)
(* die anywhere; the file and the server's tokens are what survives, and    *)
(* the server may still act on a refresh request the process has sent.      *)
(***************************************************************************)
EXTENDS EnvFile, FiniteSets

CONSTANTS MaxPairs,     \* bound on the pairs the server issues
          MaxInbox      \* bound on messages nobody asked for

VARIABLES
  \* outside the process
  file,        \* the lines of .env, Absent without one
  shell,       \* the pair exported to the process by systemd or k8s, or Absent
  issued,      \* the server: the pair that is in force
  accessLive,  \* the server: its access token has not expired
  session,     \* the server: the account is authorised on this connection
  asked,       \* the server: the request it has not answered yet, or Absent
  orphaned,    \* the server: it may still have a request of a process that has
               \* ended to replace the pair in force
  inbox,       \* messages on their way to the bot
  \* the process
  phase,       \* off, or what it waits for or does
  config,      \* Config.access_token and .refresh_token (None is Absent)
  subscribes,  \* whether any configured symbol is in the catalog
  loaded,      \* what the startup answers have put into AppState
  \* history
  pairAtStart, \* issued when the process started
  refused,     \* the server has refused a startup request of this process
  mishap       \* a new pair was not saved: see Unsaved

serverVars == <<issued, accessLive, session, asked, orphaned>>
vars == <<file, shell, serverVars, inbox, phase, config, subscribes, loaded,
          pairAtStart, refused, mishap>>

\* The requests of main between authentication and serving, in their order.
Steps == <<"symbols", "trader", "asset", "reconcile", "details">>
StepSet == {Steps[i] : i \in DOMAIN Steps}
Handshake == {"app", "account", "refresh", "retry"}
Requests == Handshake \cup StepSet \cup {"spots"}
Phases == {"off", "persist", "write", "serving"} \cup Handshake \cup StepSet

ASSUME StartupAssumption ==
  MaxPairs \in Nat /\ MaxInbox \in Nat /\ Absent \notin Requests

Message == [type : {"answer", "hollow", "refusal", "invalid", "other"}]
             \cup [type : {"pair"}, pair : Nat]

-----------------------------------------------------------------------------
(* Config::from_env *)

\* dotenvy leaves variables that are set alone, so an exported pair hides the file.
Variable(key) ==
  IF shell # Absent THEN shell
  ELSE IF file = Absent THEN Absent ELSE Lookup(file, key)

Config ==
  [access  |-> Variable("access"),
   refresh |-> IF Variable("refresh") = Blank THEN Absent ELSE Variable("refresh")]

-----------------------------------------------------------------------------
\* The request is sent, and its answer awaited.
Ask(request) == phase' = request /\ asked' = request

\* Mutant of Persisted: only the access token is written.
PersistedAccessOnly(lines) == Replace(lines, "access", config.access)

\* persist_rotated_tokens: the tokens of config take the place of the old ones.
Persisted(lines) ==
  Replace(Replace(lines, "access", config.access), "refresh", config.refresh)

\* A pair the server has issued to this process is in memory only, or in a
\* message to it.
Unsaved ==
  \/ phase = "refresh" /\ issued # pairAtStart
  \/ phase \in {"persist", "write"}

\* The process ends, by an error that reaches main or by a crash: the connection
\* and the memory go.  A request that was sent is not taken back by that: only a
\* refresh means anything to the server without the connection, and only while its
\* token is the one in force.
ProcessEnds ==
  /\ phase' = "off"
  /\ inbox' = << >>
  /\ asked' = Absent
  /\ session' = FALSE
  /\ orphaned' = (orphaned \/ (asked = "refresh" /\ config.refresh = issued))
  /\ loaded' = {}
  /\ mishap' = (mishap \/ Unsaved)
  /\ UNCHANGED <<shell, issued, accessLive, config, subscribes, pairAtStart, refused>>

Start ==
  /\ phase = "off"
  /\ Config.access # Absent
  /\ config' = Config
  /\ Ask("app")
  /\ pairAtStart' = issued
  /\ refused' = FALSE
  /\ UNCHANGED <<file, shell, issued, accessLive, session, orphaned, inbox, subscribes,
                 loaded, mishap>>

\* The process is killed, or the connection breaks while it awaits an answer.  A
\* crash within fs::write leaves a part of the file.
Crash ==
  /\ phase # "off"
  /\ ProcessEnds
  /\ IF phase = "write"
       THEN \E lines \in Prefixes(Persisted(file)) : file' = lines
       ELSE UNCHANGED file

-----------------------------------------------------------------------------
(* auth::authenticate *)

Received == inbox # << >>
Take == inbox' = Tail(inbox)

\* Mutant of Expired: every error answer counts.
ExpiredOrRefused(m) == m.type \in {"invalid", "refusal"}

\* AccessTokenInvalid: of the error codes, CH_ACCESS_TOKEN_INVALID alone.
Expired(m) == m.type = "invalid"

\* recv_msg and try_account_auth stop at any message but the awaited one.
HandshakeFails ==
  /\ Received
  /\ \/ phase = "app" /\ Head(inbox).type \notin {"answer", "hollow"}
     \/ /\ phase = "account" /\ Head(inbox).type \notin {"answer", "hollow"}
        /\ Expired(Head(inbox)) => config.refresh = Absent
     \/ phase = "refresh" /\ Head(inbox).type \notin {"pair", "hollow"}
     \/ phase = "retry" /\ Head(inbox).type \notin {"answer", "hollow"}
  /\ ProcessEnds
  /\ UNCHANGED file

ApplicationAuthorised ==
  /\ phase = "app" /\ Received /\ Head(inbox).type \in {"answer", "hollow"}
  /\ Take
  /\ Ask("account")
  /\ UNCHANGED <<file, shell, issued, accessLive, session, orphaned, config, subscribes,
                 loaded, pairAtStart, refused, mishap>>

AccountAuthorised ==
  /\ phase \in {"account", "retry"} /\ Received /\ Head(inbox).type \in {"answer", "hollow"}
  /\ Take
  /\ Ask(Steps[1])
  /\ UNCHANGED <<file, shell, issued, accessLive, session, orphaned, config, subscribes,
                 loaded, pairAtStart, refused, mishap>>

\* Mutant of Refreshable: a second refresh after the retry.
RefreshableAgain == phase \in {"account", "retry"}

\* Only the first account auth of a process may lead to a refresh.
Refreshable == phase = "account"

\* The access token is refused, with a refresh token at hand.
RequestRefresh ==
  /\ Refreshable /\ Received /\ Expired(Head(inbox))
  /\ config.refresh # Absent
  /\ Take
  /\ Ask("refresh")
  /\ UNCHANGED <<file, shell, issued, accessLive, session, orphaned, config, subscribes,
                 loaded, pairAtStart, refused, mishap>>

\* The new pair goes into config; an answer without a payload decodes to empty
\* tokens.
TakePair ==
  /\ phase = "refresh" /\ Received /\ Head(inbox).type \in {"pair", "hollow"}
  /\ LET token == IF Head(inbox).type = "pair" THEN Head(inbox).pair ELSE Blank
     IN config' = [access |-> token, refresh |-> token]
  /\ mishap' = (mishap \/ (Head(inbox).type = "hollow"))
  /\ Take
  /\ phase' = "persist"
  /\ UNCHANGED <<file, shell, serverVars, subscribes, loaded, pairAtStart, refused>>

\* fs::write opens the file, and thereby empties it ...
BeginWrite ==
  /\ phase = "persist" /\ file # Absent
  /\ Persisted(file) # file
  /\ phase' = "write"
  /\ UNCHANGED <<file, shell, serverVars, inbox, config, subscribes, loaded, pairAtStart,
                 refused, mishap>>

\* ... and writes the lines.
EndWrite ==
  /\ phase = "write"
  /\ file' = Persisted(file)
  /\ Ask("retry")
  /\ UNCHANGED <<shell, issued, accessLive, session, orphaned, inbox, config,
                 subscribes, loaded, pairAtStart, refused, mishap>>

\* Without a file, or when it says so already, nothing is written; a failed read or
\* write is only warned about.  The bot goes on with the tokens in memory.
NotPersisted ==
  /\ \/ phase = "persist" /\ UNCHANGED file
     \/ phase = "write" /\ \E lines \in Prefixes(Persisted(file)) : file' = lines
  /\ mishap' = TRUE
  /\ Ask("retry")
  /\ UNCHANGED <<shell, issued, accessLive, session, orphaned, inbox, config,
                 subscribes, loaded, pairAtStart, refused>>

-----------------------------------------------------------------------------
(* The startup requests, and the work *)

StepAfter == Steps[1 + CHOOSE i \in DOMAIN Steps : Steps[i] = phase]

\* main looks the configured names up in the catalog; without one fetch_symbol_details
\* returns at once.
NothingToDetail == ~subscribes \/ "symbols" \notin loaded
LastAnswered == phase = "details" \/ (phase = "reconcile" /\ NothingToDetail)

\* The spots are asked for and nobody waits for the answer.
Serve ==
  /\ phase' = "serving"
  /\ asked' = IF NothingToDetail THEN asked ELSE "spots"

\* Mutants of NextStep: the asset list is not asked for; the details are awaited
\* although there was no symbol to ask about; they are asked for and not awaited.
NextStepNoAsset ==
  IF LastAnswered THEN Serve
  ELSE IF phase = "trader" THEN Ask("reconcile") ELSE Ask(StepAfter)

NextStepAwaitsNothing ==
  IF phase = "details" THEN Serve
  ELSE IF LastAnswered THEN phase' = StepAfter /\ UNCHANGED asked ELSE Ask(StepAfter)

NextStepAwaitsLess ==
  IF phase = "reconcile" THEN phase' = "serving" /\ asked' = StepAfter ELSE Ask(StepAfter)

\* After the last answer main subscribes to the spots, spawns run and opens the API.
NextStep == IF LastAnswered THEN Serve ELSE Ask(StepAfter)

\* An answer without a payload is skipped over, but ends fetch_trader.
HollowEnds ==
  /\ phase \in {"trader", "asset"} /\ Received /\ Head(inbox).type = "hollow"
  /\ ProcessEnds
  /\ UNCHANGED file

StepAnswered ==
  /\ phase \in StepSet /\ Received
  /\ \/ Head(inbox).type = "answer" /\ loaded' = loaded \cup {phase}
     \/ Head(inbox).type = "hollow" /\ phase \notin {"trader", "asset"} /\ UNCHANGED loaded
  /\ Take
  /\ NextStep
  /\ UNCHANGED <<file, shell, issued, accessLive, session, orphaned, config, subscribes,
                 pairAtStart, refused, mishap>>

\* handle_incoming: from authentication on, errors and every other message that is
\* not awaited are dealt with in passing.
PassOver ==
  /\ Received
  /\ \/ phase \in StepSet /\ Head(inbox).type \notin {"answer", "hollow"}
     \/ phase = "serving"
  /\ Take
  /\ UNCHANGED <<file, shell, serverVars, phase, config, subscribes, loaded, pairAtStart,
                 refused, mishap>>

-----------------------------------------------------------------------------
(* The server: external *)

Reply(m) == inbox' = Append(inbox, m)

\* The server answers a request by what it knows, or refuses it.
AnswerLogin ==
  /\ asked \in {"app", "account", "retry"}
  /\ \/ /\ asked # "app" => config.access = issued /\ accessLive
        /\ Reply([type |-> "answer"])
        /\ session' = (asked # "app")
     \/ /\ asked # "app" /\ ~(config.access = issued /\ accessLive)
        /\ Reply([type |-> "invalid"])
        /\ UNCHANGED session
     \/ Reply([type |-> "refusal"]) /\ UNCHANGED session
  /\ asked' = Absent
  /\ UNCHANGED <<file, shell, issued, accessLive, orphaned, phase, config, subscribes,
                 loaded, pairAtStart, refused, mishap>>

\* A refresh token is good once: its pair is replaced by the next.
Rotate == issued' = issued + 1 /\ accessLive' = TRUE /\ orphaned' = FALSE

AnswerRefresh ==
  /\ asked = "refresh"
  /\ \/ /\ config.refresh = issued /\ issued < MaxPairs
        /\ Rotate
        /\ \/ Reply([type |-> "pair", pair |-> issued + 1])
           \/ Reply([type |-> "hollow"])
     \/ UNCHANGED <<issued, accessLive, orphaned>> /\ Reply([type |-> "refusal"])
  /\ asked' = Absent
  /\ UNCHANGED <<file, shell, session, phase, config, subscribes, loaded, pairAtStart,
                 refused, mishap>>

\* The refresh request of a process that has ended is dealt with now, perhaps under the
\* eyes of the next process; the answer reaches nobody.
RotateLate ==
  /\ orphaned /\ issued < MaxPairs
  /\ Rotate
  /\ mishap' = TRUE
  /\ UNCHANGED <<file, shell, session, asked, inbox, phase, config, subscribes, loaded,
                 pairAtStart, refused>>

AnswerStep ==
  /\ asked \in StepSet
  /\ \/ session /\ Reply([type |-> "answer"]) /\ UNCHANGED refused
     \/ session /\ Reply([type |-> "hollow"]) /\ UNCHANGED refused
     \/ Reply([type |-> "refusal"]) /\ refused' = TRUE
  /\ asked' = Absent
  /\ UNCHANGED <<file, shell, issued, accessLive, session, orphaned, phase, config,
                 subscribes, loaded, pairAtStart, mishap>>

AnswerSpots ==
  /\ asked = "spots"
  /\ (session /\ Reply([type |-> "answer"])) \/ Reply([type |-> "refusal"])
  /\ asked' = Absent
  /\ UNCHANGED <<file, shell, issued, accessLive, session, orphaned, phase, config,
                 subscribes, loaded, pairAtStart, refused, mishap>>

\* A heartbeat, a spot or an execution event.
Unasked ==
  /\ phase # "off" /\ Len(inbox) < MaxInbox
  /\ Reply([type |-> "other"])
  /\ UNCHANGED <<file, shell, serverVars, phase, config, subscribes, loaded, pairAtStart,
                 refused, mishap>>

\* The access token expires: the server ends the account's session and says so
\* by an event the bot has no case for.
Expire ==
  /\ accessLive
  /\ accessLive' = FALSE
  /\ session' = FALSE
  /\ inbox' = IF session THEN Append(inbox, [type |-> "other"]) ELSE inbox
  /\ UNCHANGED <<file, shell, issued, asked, orphaned, phase, config, subscribes, loaded,
                 pairAtStart, refused, mishap>>

-----------------------------------------------------------------------------
\* Installed from .env.example, or with exported variables, or both: pair 0, with or
\* without its refresh token, lines of the file in any order and possibly twice.
InitialLines == {Entry("access", 0), Entry("refresh", 0), Entry("refresh", Blank), OtherLine}

Init ==
  /\ file \in {Absent} \cup {<<a>> : a \in InitialLines}
                       \cup {<<a, b>> : a \in InitialLines, b \in InitialLines}
  /\ shell \in {0, Absent}
  /\ shell # Absent \/ (file # Absent /\ Lookup(file, "access") = 0)
  /\ issued = 0 /\ accessLive = TRUE /\ session = FALSE /\ asked = Absent
  /\ orphaned = FALSE
  /\ inbox = << >>
  /\ phase = "off"
  /\ config = [access |-> Absent, refresh |-> Absent]
  /\ subscribes \in BOOLEAN
  /\ loaded = {}
  /\ pairAtStart = 0
  /\ refused = FALSE
  /\ mishap = FALSE

Authenticate ==
  \/ HandshakeFails \/ ApplicationAuthorised \/ AccountAuthorised
  \/ RequestRefresh \/ TakePair \/ BeginWrite \/ EndWrite \/ NotPersisted

Proceed == StepAnswered \/ HollowEnds \/ PassOver

Server == AnswerLogin \/ AnswerRefresh \/ AnswerStep \/ AnswerSpots

Next ==
  \/ Start \/ Crash \/ Authenticate \/ Proceed
  \/ Server \/ RotateLate \/ Unasked \/ Expire

Spec == Init /\ [][Next]_vars

\* A started process runs, and the server answers what it is asked, if only by a
\* refusal.  Nobody has to start the process.
FairSpec ==
  /\ Spec
  /\ WF_vars(Authenticate)
  /\ WF_vars(Proceed)
  /\ WF_vars(Server)

-----------------------------------------------------------------------------
(* Properties *)

TypeOK ==
  /\ file \in Seq(Line) \cup {Absent}
  /\ shell \in {0, Absent}
  /\ issued \in Nat /\ issued <= MaxPairs
  /\ accessLive \in BOOLEAN /\ session \in BOOLEAN
  /\ asked \in {Absent} \cup Requests
  /\ asked # Absent => asked = phase \/ (asked = "spots" /\ phase = "serving")
  /\ orphaned \in BOOLEAN
  /\ inbox \in Seq(Message)
  /\ phase \in Phases
  /\ config \in [access : Tokens \cup {Absent}, refresh : Tokens \cup {Absent}]
  /\ subscribes \in BOOLEAN
  /\ loaded \in SUBSET StepSet
  /\ pairAtStart \in 0 .. issued
  /\ refused \in BOOLEAN /\ mishap \in BOOLEAN

\* auth.rs:163-169 and main.rs:20-24: the next start finds the pair in force, also
\* its refresh token, whatever was rotated, refused or crashed before.  It can be
\* lost only with a process that ends between sending the refresh request and the
\* end of fs::write, by an answer without a payload, by a failed write or for want of
\* a file (mishap); and an exported pair hides the file.
NextStartHoldsPair ==
  phase = "off" /\ ~mishap /\ shell = Absent =>
    /\ Config.access = issued
    /\ issued > 0 => Config.refresh = issued

\* auth.rs:9-13: account auth is retried exactly once: however a process fares, it
\* spends at most one refresh token, one spent late by the process before it
\* included.
OneRefreshPerStart == phase # "off" => issued <= pairAtStart + 1

\* auth.rs:76-78: the refresh token is for a dead access token: the server is never
\* made to rotate while the access token the process holds is the one in force and
\* lives, whatever else an account auth was refused for.
NeverReplacesLivePair ==
  [][issued' # issued => ~(config.access = issued /\ accessLive)]_vars

\* routes/account.rs answers 503 until trader info "has arrived": clients are let
\* in only then, and never after a startup request the server refused.
ServesWhatWasLoaded == phase = "serving" => {"trader", "asset"} \subseteq loaded /\ ~refused

\* There is no timeout: a start leads to a serving bot or ends, unless the server
\* has refused a startup request; only that leaves the process waiting.
OnlyRefusalStalls == phase # "off" ~> phase \in {"off", "serving"} \/ refused

(* What the sources say and the code does not do *)

\* main.rs:35-37: with a refresh token "the bot can recover from an expired access
\* token at startup (or later)".  authenticate runs at startup only.
RecoversLater ==
  phase = "serving" /\ ~accessLive /\ config.refresh = issued ~> accessLive \/ phase = "off"
=============================================================================
