--------------------------- MODULE MCBuzzIdentity ---------------------------
(***************************************************************************)
(* What a bot's identity on the relay rests on: the start of the process,  *)
(* which gives it its key, the lock that keeps other processes from using  *)
(* the identity, and the client with its connections.  They share nothing  *)
(* that they keep; "part" says which of them takes the steps.              *)
(***************************************************************************)
EXTENDS FileLock, RelayClient, Startup

CONSTANTS b1, b2

VARIABLE part

allVars == <<part, lockVars, vars, startVars>>

Key(owner) == [name |-> "buzz_private_key", bot |-> owner]
Speaker(name, speaks) == [name |-> name, enabled |-> TRUE, buzz |-> speaks]
TwoSpeakers ==
  [team |-> <<Speaker(b1, b1), Speaker(b2, b2)>>, slack |-> NoBot, home |-> TRUE, inEnv |-> {},
   inSystemd |-> {}, inKeystore |-> {Key(b1)}, inFile |-> {Key(b1), Key(NoBot)}]
NoSpeaker == [TwoSpeakers EXCEPT !.team = <<[Speaker(b1, NoBot) EXCEPT !.enabled = FALSE]>>]

\* Two bots with a key for one of them; two personas of one bot name, which Slack has too; one
\* key in the environment and no credentials file; a bot that speaks under the other's name;
\* and a team without a bot.
StartSetups ==
  {TwoSpeakers,
   [TwoSpeakers EXCEPT !.team = <<Speaker(b1, b1), Speaker(b2, b1)>>, !.slack = b1,
      !.inEnv = {"slack_bot_token"},
      !.inSystemd = {[name |-> "slack_app_token", bot |-> b1]}],
   [TwoSpeakers EXCEPT !.slack = b2, !.home = FALSE,
      !.inEnv = {"buzz_private_key", "slack_bot_token", "slack_app_token"}],
   [TwoSpeakers EXCEPT !.team = <<Speaker(b1, b2), Speaker(b2, NoBot)>>,
      !.inFile = {Key(NoBot), Key(b2)},
      !.inSystemd = {[name |-> "anthropic_api_key", bot |-> NoBot]}],
   NoSpeaker}

-----------------------------------------------------------------------------
IdentityInit ==
  /\ part \in {"start", "lock", "relay"}
  /\ LockInit /\ Init /\ StartInit
  /\ part = "start" \/ setup = NoSpeaker

StartPart(A) == part = "start" /\ A /\ UNCHANGED <<part, lockVars, vars>>
LockPart(A) == part = "lock" /\ A /\ UNCHANGED <<part, vars, startVars>>
ClientPart(A) == part = "relay" /\ A /\ UNCHANGED <<part, lockVars, startVars>>

IdentityNext == StartPart(StartNext) \/ LockPart(LockNext) \/ ClientPart(Next)

\* The fairness of FileLock and of RelayClient.
IdentitySpec ==
  /\ IdentityInit /\ [][IdentityNext]_allVars
  /\ \A p \in Procs : WF_allVars(LockPart(Attempt(p)))
  /\ WF_allVars(ClientPart(LoopStep)) /\ WF_allVars(ClientPart(CloseStep))
  /\ \A s \in Subs : WF_allVars(ClientPart(SubscribeStep(s)))
  /\ \A s \in Subs : WF_allVars(ClientPart(RemoverStep(s)))
  /\ \A s \in Subs, g \in Gens : WF_allVars(ClientPart(PumpStep(s, g)))
=============================================================================
