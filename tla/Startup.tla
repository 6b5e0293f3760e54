------------------------------- MODULE Startup -------------------------------
(***************************************************************************)
(* The start of the daemon up to its running bots: the chain of secret     *)
(* providers, the credentials that are put into the environment, the Slack *)
(* tokens, the queues, and one Buzz monitor per persona that has a key;    *)
(* and the operator who sets and deletes secrets of the keystore meanwhile.*)
(*                                                                         *)
(* Every provider is asked in a goroutine of its own, so that its answer   *)
(* and the timeout race.                                                   *)
(*                                                                         *)
(* Abstracted: a secret's value is the place it comes from; the syntax of  *)
(* the credentials file, of a key and of an attestation tag, which is      *)
(* valid or not.                                                           *)
(*                                                                         *)
(* Init, Next and their like bear the name of the start, and what other    *)
(* services have too is named apart, so that one module can extend this    *)
(* one and theirs.                                                         *)
(***************************************************************************)
EXTENDS Integers, Sequences, FiniteSets

CONSTANTS
  Bots,          \* bot names
  NoBot,         \* no bot: a secret of everybody
  Setups,        \* what an operator may have set up: see IsSetup
  MaxEdits,      \* bound on the operator's changes of the keystore and the file's mode
  MaxStartFaults, \* bound on timeouts and failures
  MaxBoots       \* bound on the restarts of the process

VARIABLES
  setup,       \* team.yaml, the configurations and the secrets outside the keystore
  keystore,    \* the OS keystore: per secret the number of its value, 0 if there is none
  readable,    \* the credentials file is world-readable
  env,         \* the credentials of the process environment
  phase,       \* how far run has come
  pos,         \* the persona whose monitor is being built
  wanted,      \* the secrets to be resolved next
  at,          \* the provider that is asked for the first of them
  answer,      \* its answer
  got,         \* the secrets resolved for the current monitor
  queues,      \* the registered queues
  monitors,    \* the monitors
  used,        \* buzzBotNamesUsed
  edits, startFaults, boots,
  atStart,     \* history: the keystore as it was when the process was started
  absent       \* history: the secrets that it has lacked at some time since

startVars == <<setup, keystore, readable, env, phase, pos, wanted, at, answer, got, queues,
               monitors, used, edits, startFaults, boots, atStart, absent>>

Globals == <<"anthropic_api_key", "boabot_backup_token">>
SlackTokens == <<"slack_bot_token", "slack_app_token">>
BuzzSecrets == <<"buzz_private_key", "buzz_api_token", "buzz_auth_tag">>
SecretNames == {Globals[i] : i \in 1 .. 2} \cup {SlackTokens[i] : i \in 1 .. 2}
               \cup {BuzzSecrets[i] : i \in 1 .. 3}
Refs == [name : SecretNames, bot : Bots \cup {NoBot}]

\* A persona of team.yaml: its name and the bot name of its Buzz configuration, if it has one.
Persona == [name : Bots, enabled : BOOLEAN, buzz : Bots \cup {NoBot}]
IsSetup(s) ==
  /\ s.team \in Seq(Persona)
  /\ s.slack \in Bots \cup {NoBot}
  /\ s.home \in BOOLEAN
  /\ s.inEnv \subseteq SecretNames
  /\ s.inSystemd \subseteq Refs
  /\ s.inKeystore \subseteq Refs
  /\ s.inFile \subseteq Refs

\* What is assumed of the constants.
ASSUME SetupAssumption ==
  /\ \A s \in Setups : IsSetup(s)
  /\ NoBot \notin Bots
  /\ {MaxEdits, MaxStartFaults, MaxBoots} \subseteq Nat

Value == [from : {"env", "systemd", "keystore", "file"}, bot : Bots \cup {NoBot}, number : Nat]
Held(from, bot, number) == [from |-> from, bot |-> bot, number |-> number]
NoValue == [from |-> "none", bot |-> NoBot, number |-> 0]
Failed == [from |-> "failed", bot |-> NoBot, number |-> 0]
NotYet == [from |-> "pending", bot |-> NoBot, number |-> 0]
IsHit(v) == v.from \notin {"none", "failed", "pending"}

Phases == {"off", "refused", "panicked", "globals", "slack", "team", "personas", "monitor",
           "running"}

StartTypeOK ==
  /\ setup \in Setups
  /\ keystore \in [Refs -> Nat]
  /\ readable \in BOOLEAN
  /\ env \in [SecretNames -> Value \cup {NoValue}]
  /\ phase \in Phases
  /\ pos \in 1 .. Len(setup.team) + 1
  /\ wanted \in Seq(Refs)
  /\ at \in 1 .. 4
  /\ answer \in Value \cup {NoValue, Failed, NotYet}
  /\ got \in [SecretNames -> Value \cup {NoValue}]
  /\ queues \subseteq Bots
  /\ used \subseteq Bots
  /\ edits \in 0 .. MaxEdits
  /\ startFaults \in 0 .. MaxStartFaults
  /\ boots \in 0 .. MaxBoots

operator == <<keystore, readable, edits, absent>>
process == <<env, phase, pos, wanted, at, answer, got, queues, monitors, used>>

-----------------------------------------------------------------------------
(* The providers *)

FileFirst == IF setup.home THEN <<"env", "file", "systemd", "keystore">>
             ELSE <<"env", "systemd", "keystore">>

Chain == IF setup.home THEN <<"env", "systemd", "keystore", "file">>
         ELSE <<"env", "systemd", "keystore">>

envLookup(ref) == env[ref.name]

systemdLookup(ref) ==
  IF ref \in setup.inSystemd THEN Held("systemd", ref.bot, 0) ELSE NoValue

keystoreLookup(ref) ==
  IF keystore[ref] > 0 THEN Held("keystore", ref.bot, keystore[ref]) ELSE NoValue

\* The credentials file is refused if everybody can read it.
LoadFile == ~readable

\* The key of a secret in the active profile.
parseINI(ref) == IF ref \in setup.inFile THEN Held("file", ref.bot, 0) ELSE NoValue

fileFallsBack(ref) ==
  IF parseINI(ref) # NoValue THEN parseINI(ref) ELSE parseINI([ref EXCEPT !.bot = NoBot])

\* The secret of a bot is not replaced by that of everybody.
fileLookup(ref) == IF LoadFile THEN parseINI(ref) ELSE Failed

Lookup(provider, ref) ==
  CASE provider = "env" -> envLookup(ref)
    [] provider = "systemd" -> systemdLookup(ref)
    [] provider = "keystore" -> keystoreLookup(ref)
    [] provider = "file" -> fileLookup(ref)

-----------------------------------------------------------------------------
(* Get: the first provider that has the secret *)

OneFault == startFaults < MaxStartFaults /\ startFaults' = startFaults + 1

\* The provider's goroutine has looked; the environment cannot fail.
callProvider ==
  /\ wanted # <<>>
  /\ answer = NotYet
  /\ \/ answer' = Lookup(Chain[at], Head(wanted)) /\ UNCHANGED startFaults
     \/ Chain[at] # "env" /\ OneFault /\ answer' = Failed
  /\ UNCHANGED <<setup, operator, env, phase, pos, wanted, at, got, queues, monitors, used,
                 boots, atStart>>

\* What is done with the value that Get returns, or with its error.
Resolved(v) ==
  LET ref == Head(wanted)
  IN /\ at' = 1
     /\ answer' = NotYet
     /\ \/ /\ phase = "globals"                                 \* applyCredentialFromStore
           /\ env' = IF v = NoValue THEN env ELSE [env EXCEPT ![ref.name] = v]
           /\ wanted' = Tail(wanted)
           /\ UNCHANGED <<phase, pos, got>>
        \/ /\ phase = "slack"                                   \* resolveSlackToken
           /\ got' = [got EXCEPT ![ref.name] = v]
           /\ wanted' = Tail(wanted)
           /\ UNCHANGED <<env, phase, pos>>
        \/ /\ phase = "monitor"
           /\ ref.name = "buzz_private_key" => v # NoValue
           /\ got' = [got EXCEPT ![ref.name] = v]
           /\ wanted' = Tail(wanted)
           /\ UNCHANGED <<env, phase, pos>>
        \/ /\ phase = "monitor"                                 \* LoadKeypair fails
           /\ ref.name = "buzz_private_key"
           /\ v = NoValue
           /\ wanted' = <<>>
           /\ phase' = "personas"
           /\ pos' = pos + 1
           /\ UNCHANGED <<env, got>>

\* The next provider is asked, or there is none.
NextProvider ==
  \/ /\ at < Len(Chain)
     /\ at' = at + 1
     /\ answer' = NotYet
     /\ UNCHANGED <<env, phase, pos, wanted, got>>
  \/ at = Len(Chain) /\ Resolved(NoValue)

GetAnswer ==
  /\ answer # NotYet
  /\ \/ IsHit(answer) /\ Resolved(answer)
     \/ ~IsHit(answer) /\ NextProvider
  /\ UNCHANGED <<setup, operator, queues, monitors, used, startFaults, boots, atStart>>

\* The timeout is over first, or as soon as the answer; what the goroutine finds is dropped.
GetTimeout ==
  /\ wanted # <<>>
  /\ Chain[at] # "env"
  /\ OneFault
  /\ NextProvider
  /\ UNCHANGED <<setup, operator, queues, monitors, used, boots, atStart>>

\* A key or an attestation tag is malformed.
Malformed ==
  /\ IsHit(answer)
  /\ Head(wanted).name \in {"buzz_private_key", "buzz_auth_tag"}
  /\ OneFault
  /\ Resolved(NoValue)
  /\ UNCHANGED <<setup, operator, queues, monitors, used, boots, atStart>>

-----------------------------------------------------------------------------
(* run *)

RefsOf(names, bot) == [i \in DOMAIN names |-> [name |-> names[i], bot |-> bot]]
Nothing == [n \in SecretNames |-> NoValue]

Step(from) ==
  /\ phase = from
  /\ wanted = <<>>
  /\ at' = 1 /\ answer' = NotYet
  /\ UNCHANGED <<setup, operator, boots, atStart>>

\* A credentials file that cannot be loaded ends the process.
buildSecretProviders ==
  /\ Step("off")
  /\ IF setup.home /\ ~LoadFile THEN phase' = "refused" /\ UNCHANGED wanted
     ELSE phase' = "globals" /\ wanted' = RefsOf(Globals, NoBot)
  /\ UNCHANGED <<env, pos, got, queues, monitors, used, startFaults>>

\* A Slack token that config.yaml has is not looked up.
ResolveSecrets ==
  /\ Step("globals")
  /\ phase' = "slack"
  /\ wanted' = IF setup.slack = NoBot THEN <<>> ELSE RefsOf(SlackTokens, setup.slack)
  /\ UNCHANGED <<env, pos, got, queues, monitors, used, startFaults>>

\* Register panics on a name that has a queue.
RegisterQueues(names, next) ==
  IF names \cap queues # {} THEN phase' = "panicked" /\ UNCHANGED queues
  ELSE phase' = next /\ queues' = queues \cup names

All(names) == names

\* Who looks the names up first registers those that have none.
Unregistered(names) == names \ queues

WireSlack ==
  /\ Step("slack")
  /\ IF setup.slack # NoBot /\ \A i \in 1 .. 2 : got[SlackTokens[i]] # NoValue
     THEN /\ RegisterQueues({setup.slack}, "team")
          /\ monitors' = monitors \cup {[kind |-> "slack", bot |-> setup.slack, key |-> NoValue]}
     ELSE phase' = "team" /\ UNCHANGED <<queues, monitors>>
  /\ got' = Nothing
  /\ UNCHANGED <<env, pos, wanted, used, startFaults>>

Enabled == {setup.team[i].name : i \in {j \in DOMAIN setup.team : setup.team[j].enabled}}

\* The queue of the orchestrator, of the first bot if there is none, is asked for by name: a
\* team without an enabled bot has no such queue, and the process panics.
RunTeam ==
  /\ Step("team")
  /\ \/ /\ OneFault                                                  \* loadTeamConfig
        /\ phase' = "refused"
        /\ UNCHANGED queues
     \/ /\ RegisterQueues(Unregistered(Enabled), IF Enabled = {} THEN "panicked" ELSE "personas")
        /\ UNCHANGED startFaults
  /\ UNCHANGED <<env, pos, wanted, got, monitors, used>>

\* The persona has no Buzz identity of its own, or its configuration cannot be read.
SkipPersona ==
  /\ Step("personas")
  /\ pos <= Len(setup.team)
  /\ \/ /\ \/ ~setup.team[pos].enabled
           \/ setup.team[pos].buzz \in {NoBot} \cup used
        /\ UNCHANGED startFaults
     \/ setup.team[pos].enabled /\ OneFault
  /\ pos' = pos + 1
  /\ UNCHANGED <<env, phase, wanted, got, queues, monitors, used>>

StartPersona ==
  /\ Step("personas")
  /\ pos <= Len(setup.team)
  /\ setup.team[pos].enabled
  /\ setup.team[pos].buzz \notin {NoBot} \cup used
  /\ phase' = "monitor"
  /\ wanted' = RefsOf(BuzzSecrets, setup.team[pos].buzz)
  /\ UNCHANGED <<env, pos, got, queues, monitors, used, startFaults>>

\* The queue is registered unless it is.  A memory directory that cannot be made ends this
\* monitor only.
buildBuzzMonitor ==
  LET bot == setup.team[pos].buzz
  IN /\ Step("monitor")
     /\ RegisterQueues(Unregistered({bot}), "personas")
     /\ pos' = pos + 1
     /\ \/ /\ monitors' = monitors \cup
                          {[kind |-> "buzz", bot |-> bot, key |-> got["buzz_private_key"]]}
           /\ used' = used \cup {bot}
           /\ UNCHANGED startFaults
        \/ OneFault /\ UNCHANGED <<monitors, used>>
     /\ got' = Nothing
     /\ UNCHANGED <<env, wanted>>

StartBots ==
  /\ Step("personas")
  /\ pos > Len(setup.team)
  /\ phase' = "running"
  /\ UNCHANGED <<env, pos, wanted, got, queues, monitors, used, startFaults>>

-----------------------------------------------------------------------------
(* The operator *)

Managed == {r \in Refs : r.name = "buzz_private_key"}

Edit ==
  /\ edits < MaxEdits /\ edits' = edits + 1
  /\ UNCHANGED <<setup, process, startFaults, boots, atStart>>

SecretSet ==
  /\ Edit
  /\ \E r \in Managed : keystore' = [keystore EXCEPT ![r] = edits + 2]
  /\ UNCHANGED <<readable, absent>>

SecretDelete ==
  /\ Edit
  /\ \E r \in Managed : keystore[r] > 0 /\ keystore' = [keystore EXCEPT ![r] = 0]
                        /\ absent' = absent \cup {r}
  /\ UNCHANGED readable

ChangeMode == Edit /\ readable' = ~readable /\ UNCHANGED <<keystore, absent>>

GivenEnv(s) == [n \in SecretNames |-> IF n \in s.inEnv THEN Held("env", NoBot, 0) ELSE NoValue]

\* The process has ended, whatever it was doing, and is started again.
StartAgain ==
  /\ boots < MaxBoots
  /\ boots' = boots + 1
  /\ phase # "off"
  /\ env' = GivenEnv(setup)
  /\ phase' = "off" /\ pos' = 1 /\ wanted' = <<>> /\ at' = 1 /\ answer' = NotYet
  /\ got' = Nothing /\ queues' = {} /\ monitors' = {} /\ used' = {}
  /\ atStart' = keystore
  /\ absent' = {r \in Refs : keystore[r] = 0}
  /\ UNCHANGED <<setup, keystore, readable, edits, startFaults>>

StartInit ==
  /\ setup \in Setups
  /\ keystore = [r \in Refs |-> IF r \in setup.inKeystore THEN 1 ELSE 0]
  /\ readable = FALSE
  /\ env = GivenEnv(setup)
  /\ phase = "off" /\ pos = 1 /\ wanted = <<>> /\ at = 1 /\ answer = NotYet
  /\ got = Nothing /\ queues = {} /\ monitors = {} /\ used = {}
  /\ edits = 0 /\ startFaults = 0 /\ boots = 0
  /\ atStart = keystore
  /\ absent = {r \in Refs : keystore[r] = 0}

StartNext ==
  \/ callProvider \/ GetAnswer \/ GetTimeout \/ Malformed
  \/ buildSecretProviders \/ ResolveSecrets \/ WireSlack \/ RunTeam
  \/ SkipPersona \/ StartPersona \/ buildBuzzMonitor \/ StartBots
  \/ SecretSet \/ SecretDelete \/ ChangeMode
  \/ StartAgain

StartSpec == StartInit /\ [][StartNext]_startVars
-----------------------------------------------------------------------------
(* Properties *)

Buzz == {m \in monitors : m.kind = "buzz"}

\* A bot appears on the relay with a key of its own, unless the environment has one for all
\* ("two bots must never end up sharing one private key", file/provider.go), and once.
OwnIdentity ==
  /\ \A m \in Buzz : m.key.bot = m.bot \/ m.key.from = "env"
  /\ \A m, n \in Buzz : m.bot = n.bot => m = n

\* A rotated key is the one in use: what comes from the keystore is no older than the start
\* of the process, and the file, the last of the chain, serves only a bot whose secret the
\* keystore has lacked since, unless the keystore had failed (callProvider, Get).
KeyIsCurrent ==
  \A m \in Buzz :
     LET ref == [name |-> "buzz_private_key", bot |-> m.bot]
     IN /\ m.key.from = "keystore" => m.key.number >= atStart[ref]
        /\ m.key.from = "file" => ref \in absent \/ startFaults > 0

\* The process panics only for want of a bot: no queue is registered twice, whatever names
\* Slack, the team and the personas share.
PanicsOnlyWithoutBots == phase = "panicked" => Enabled = {}

\* All three, as a run checks them together.
IdentityIsOwn == OwnIdentity /\ KeyIsCurrent /\ PanicsOnlyWithoutBots
=============================================================================
