----------------------------- MODULE Onboarding -------------------------------
(***************************************************************************)
(* The first key of an instance and what the operator's tools make of it:  *)
(* the setup, key and config commands of the command line with their       *)
(* configuration file, the wizard and the settings page of the browser.    *)
(* A request is one step here; how the server treats overlapping ones is   *)
(* the subject of Credentials.                                             *)
(***************************************************************************)
EXTENDS Naturals, Sequences, FiniteSets

CONSTANTS
    Absent,     \* no key, no file, no page, no command
    Terminals,  \* 1..n: where commands run at the same time, lowest free one first
    MaxOps      \* bound on commands, clicks and accidents

VARIABLES
    seed,       \* MCP_API_KEY in the environment of the api and of the UI, or Absent
    key,        \* the key the api expects, or Absent
    token,      \* whether a named token was issued
    done,       \* onboarding_completed
    file,       \* the api_key of the configuration file, or Absent
    cli,        \* terminal -> Absent or a command
    page,       \* Absent or the wizard: what it knows of the key, and the key it shows
    mislaid,    \* history: a key was lost to an accident the code cannot repair
    ops

onboardingVars == <<seed, key, token, done, file, cli, page, mislaid, ops>>

\* Credentials: 0 is the key of the environment, 1.. those minted here.
Seed  == 0
Token == MaxOps + 1
Wrong == MaxOps + 2
Keys  == Seed..Wrong

\* What the browser holds, a command, and what it may have left to do.
Page    == [configured : BOOLEAN, key : Keys \union {Absent}]
Plans   ==
    {<<"config", "generate", "save", "complete">>, <<"generate", "save", "complete">>,
     <<"save", "complete">>, <<"complete">>,
     <<"config", "generate", "save", "openai", "mode", "complete">>,
     <<"generate", "save", "openai", "mode", "complete">>,
     <<"save", "openai", "mode", "complete">>, <<"openai", "mode", "complete">>,
     <<"mode", "complete">>,
     <<"generate", "save">>, <<"rotate", "save">>, <<"save">>, <<"openai">>, <<>>}
Command == [cmd : {"setup", "generate", "rotate", "openai-key", "init"},
            header : Keys \union {Absent}, todo : Plans, result : Keys \union {Absent},
            exit : {Absent, "ok", "error", "gone"}, alone : BOOLEAN]

ASSUME OnboardingAssumption == MaxOps \in Nat /\ Absent \notin Keys \union Page \union Command

---------------------------------------------------------------------------
(* The gates of the configuration endpoints.                               *)

Configured == key # Absent

Accepted(header) == header # Absent /\ (header = key \/ (token /\ header = Token))

Proved(header) == header # Absent /\ (Configured \/ token => Accepted(header))

Open(header, session) == Configured => Proved(header) \/ session

LetsIn(call, header, session) ==
    CASE call = "config" -> TRUE
      [] call = "rotate" -> Configured /\ Proved(header)
      [] OTHER -> Open(header, session)

Happens == ops < MaxOps /\ ops' = ops + 1

\* Keys are random: the n-th operation mints the n-th key.
Minted == ops'

OnboardingInit ==
    /\ seed \in {Absent, Seed} /\ key = seed
    /\ token \in BOOLEAN /\ done = FALSE
    /\ file \in {Absent, seed} \union (IF token THEN {Token} ELSE {})
    /\ cli = [s \in Terminals |-> Absent] /\ page = Absent
    /\ mislaid = FALSE /\ ops = 0

---------------------------------------------------------------------------
(* The command line.                                                       *)

\* The header is fixed for the whole command, before its first call.
ResolveSettings(override) == IF override # Absent THEN override ELSE file

Calls(cmd) ==
    CASE cmd = "setup"      -> {<<"config", "generate", "save", "complete">>,
                                <<"config", "generate", "save", "openai", "mode", "complete">>}
      [] cmd = "generate"   -> {<<"generate", "save">>}
      [] cmd = "rotate"     -> {<<"rotate", "save">>}
      [] cmd = "openai-key" -> {<<"openai">>}
      [] cmd = "init"       -> {<<"save">>}

Running(s) == cli[s] # Absent /\ cli[s].exit = Absent
Next1(s, call) == Running(s) /\ cli[s].todo # <<>> /\ Head(cli[s].todo) = call

\* A command starts at a free terminal, with a flag or a variable of the
\* environment or without.
Dispatch(s, cmd, override) ==
    /\ Happens /\ ~Running(s) /\ \A o \in 1..(s - 1) : Running(o)
    /\ \E todo \in Calls(cmd) :
        cli' = [cli EXCEPT ![s] =
            [cmd |-> cmd, header |-> ResolveSettings(override), todo |-> todo,
             result |-> IF cmd = "init" THEN ResolveSettings(override) ELSE Absent,
             exit |-> Absent, alone |-> override = Absent \/ cmd # "init"]]
    /\ UNCHANGED <<seed, key, token, done, file, page, mislaid>>

\* A step of s that others may have to know of: their file or key is old.
Proceed(s, record) ==
    cli' = [o \in Terminals |-> IF o = s THEN record
                            ELSE IF Running(o) THEN [cli[o] EXCEPT !.alone = FALSE] ELSE cli[o]]

Ended(s, how) == [cli[s] EXCEPT !.exit = how, !.todo = <<>>, !.header = Absent, !.alone = TRUE]

CallDone(s) == IF Len(cli[s].todo) = 1 THEN Ended(s, "ok") ELSE [cli[s] EXCEPT !.todo = Tail(@)]

\* 401 and 409 end a command.
Refused(s) ==
    /\ Running(s) /\ cli[s].todo # <<>> /\ Head(cli[s].todo) # "save"
    /\ ~LetsIn(Head(cli[s].todo), cli[s].header, FALSE)
    /\ cli' = [cli EXCEPT ![s] = Ended(s, "error")]
    /\ UNCHANGED <<seed, key, token, done, file, page, mislaid, ops>>

\* An instance that has a key is left as it is.
GetConfig(s) ==
    /\ Next1(s, "config")
    /\ cli' = [cli EXCEPT ![s] = IF Configured THEN Ended(s, "ok") ELSE CallDone(s)]
    /\ UNCHANGED <<seed, key, token, done, file, page, mislaid, ops>>

MintKey(s, call) ==
    /\ call \in {"generate", "rotate"}
    /\ Next1(s, call) /\ LetsIn(call, cli[s].header, FALSE)
    /\ Happens /\ key' = Minted
    /\ Proceed(s, [CallDone(s) EXCEPT !.result = Minted])
    /\ UNCHANGED <<seed, token, done, file, page, mislaid>>

\* Mutant: the settings of the command are written back, not the new key.
SaveResolved(s) ==
    /\ Next1(s, "save")
    /\ file' = cli[s].header /\ Proceed(s, CallDone(s))
    /\ mislaid' = (mislaid \/ ~cli[s].alone)
    /\ UNCHANGED <<seed, key, token, done, page, ops>>

\* The file is overwritten, whatever was written to it since the command
\* read it.
WriteConfigFile(s) ==
    /\ Next1(s, "save")
    /\ file' = cli[s].result /\ Proceed(s, CallDone(s))
    /\ mislaid' = (mislaid \/ ~cli[s].alone)
    /\ UNCHANGED <<seed, key, token, done, page, ops>>

SetOpenaiKey(s) ==
    /\ \E call \in {"openai", "mode"} : Next1(s, call) /\ LetsIn(call, cli[s].header, FALSE)
    /\ cli' = [cli EXCEPT ![s] = CallDone(s)]
    /\ UNCHANGED <<seed, key, token, done, file, page, mislaid, ops>>

CompleteOnboarding(s) ==
    /\ Next1(s, "complete") /\ LetsIn("complete", cli[s].header, FALSE)
    /\ done' = TRUE /\ cli' = [cli EXCEPT ![s] = CallDone(s)]
    /\ UNCHANGED <<seed, key, token, file, page, mislaid, ops>>

\* Interrupted, or no answer in time: the api may have served the call.
GiveUp(s) ==
    /\ Happens /\ Running(s)
    /\ cli' = [cli EXCEPT ![s] = Ended(s, "gone")]
    /\ \/ UNCHANGED key /\ mislaid' = (mislaid \/ Next1(s, "save"))
       \/ /\ \E call \in {"generate", "rotate"} :
                Next1(s, call) /\ LetsIn(call, cli[s].header, FALSE)
          /\ key' = Minted /\ mislaid' = TRUE
    /\ UNCHANGED <<seed, token, done, file, page>>

---------------------------------------------------------------------------
(* The browser.  The middleware adds the key of the environment to every   *)
(* call; a session counts where the endpoint looks at it.                  *)

\* Loading the page forgets the key it showed.
LoadPage ==
    /\ Happens
    /\ page' = [configured |-> Configured, key |-> Absent]
    /\ mislaid' = (mislaid \/ (page # Absent /\ page.key # Absent))
    /\ UNCHANGED <<seed, key, token, done, file, cli>>

\* After a mutation the configuration is fetched again.
Refetch ==
    /\ page # Absent /\ page.configured # Configured
    /\ page' = [page EXCEPT !.configured = Configured]
    /\ UNCHANGED <<seed, key, token, done, file, cli, mislaid, ops>>

ShowsMinted ==
    /\ page' = [page EXCEPT !.key = Minted]
    /\ key' = Minted
    /\ cli' = [s \in Terminals |-> IF Running(s) THEN [cli[s] EXCEPT !.alone = FALSE] ELSE cli[s]]
    /\ UNCHANGED <<seed, token, done, file, mislaid>>

\* The button is there until the page knows of a key.
ClickGenerate(session) ==
    /\ page # Absent /\ page.key = Absent /\ ~page.configured
    /\ Happens /\ LetsIn("generate", seed, session)
    /\ ShowsMinted

\* The settings page.
ClickRegenerate ==
    /\ page # Absent
    /\ Happens /\ LetsIn("rotate", seed, FALSE)
    /\ ShowsMinted

ClickFinish(session) ==
    /\ page # Absent /\ ~done /\ LetsIn("complete", seed, session)
    /\ done' = TRUE
    /\ UNCHANGED <<seed, key, token, file, cli, page, mislaid, ops>>

---------------------------------------------------------------------------
OnboardingNext ==
    \/ \E s \in Terminals :
        \/ \E cmd \in {"setup", "generate", "rotate", "openai-key", "init"},
              override \in {Absent, seed, Wrong} \union (IF token THEN {Token} ELSE {}) :
                Dispatch(s, cmd, override)
        \/ Refused(s) \/ GetConfig(s)
        \/ \E call \in {"generate", "rotate"} : MintKey(s, call)
        \/ WriteConfigFile(s) \/ SetOpenaiKey(s) \/ CompleteOnboarding(s) \/ GiveUp(s)
    \/ LoadPage \/ Refetch \/ ClickRegenerate
    \/ \E session \in BOOLEAN : ClickGenerate(session) \/ ClickFinish(session)

OnboardingSpec == OnboardingInit /\ [][OnboardingNext]_onboardingVars

---------------------------------------------------------------------------
\* A key the api expects is never lost to everybody: it is the one of the
\* environment, or the file has it, or a page shows it, or a command is
\* about to save it.  The exceptions are accidents the tools cannot see: an
\* answer nobody waited for, a page left, a file overwritten by a command
\* that had read it earlier or was told to.
KeyNotLost ==
    ~mislaid /\ Configured =>
        \/ key \in {seed, file}
        \/ page # Absent /\ page.key = key
        \/ \E s \in Terminals : Next1(s, "save") /\ cli[s].result = key

\* What the plan of the command says (docs/superpowers/plans/
\* 2026-06-13-onboarding-setup-cli.md:1133): a setup that made the key, and
\* was not interrupted, ends with the onboarding completed.
SetupCompletes ==
    \A s \in Terminals :
        /\ cli[s] # Absent /\ cli[s].cmd = "setup" /\ cli[s].result # Absent
        /\ cli[s].exit \in {"ok", "error"}
        => done
=============================================================================
