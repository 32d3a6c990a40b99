-------------------------- MODULE OnboardingProofs --------------------------
(***************************************************************************)
(* The key of an instance is not lost by the operator's tools, for any     *)
(* number of commands, clicks and accidents.  The inductive invariant adds *)
(* to the property what a command has left to do, and that a command that  *)
(* is about to save, and that nobody overtook, saves the key or the file   *)
(* as it is: whoever mints or saves makes the others' knowledge old.       *)
(***************************************************************************)
EXTENDS Onboarding, TLAPS

TypeInv ==
    /\ seed \in Keys \union {Absent} /\ file \in Keys \union {Absent}
    /\ cli \in [Terminals -> Command \union {Absent}]
    /\ page \in Page \union {Absent}
    /\ token \in BOOLEAN /\ mislaid \in BOOLEAN
    /\ ops \in 0..MaxOps

Saves(c) == c # Absent /\ c.exit = Absent /\ c.todo # <<>> /\ Head(c.todo) = "save"

\* A command that nobody overtook saves the key, or the file as it is.
SavesNothingOld ==
    ~mislaid => \A s \in Terminals :
        Saves(cli[s]) /\ cli[s].alone => cli[s].result \in {key, file}

Inv == TypeInv /\ SavesNothingOld /\ KeyNotLost

---------------------------------------------------------------------------
(* Only after a key is minted comes its saving.                            *)
LEMMA PlanSteps ==
    \A p \in Plans : p # <<>> =>
        /\ Len(p) # 1 => Tail(p) \in Plans /\ Tail(p) # <<>>
        /\ Len(p) # 1 /\ Head(p) \notin {"generate", "rotate"} => Head(Tail(p)) # "save"
        /\ Head(p) \in {"generate", "rotate"} => Len(p) # 1 /\ Head(Tail(p)) = "save"
<1>1. \A a : Len(<<a>>) = 1 /\ Head(<<a>>) = a
  OBVIOUS
<1>2. \A a, b : Len(<<a, b>>) = 2 /\ Head(<<a, b>>) = a /\ Tail(<<a, b>>) = <<b>>
  OBVIOUS
<1>3. \A a, b, c : /\ Len(<<a, b, c>>) = 3 /\ Head(<<a, b, c>>) = a
                   /\ Tail(<<a, b, c>>) = <<b, c>>
  OBVIOUS
<1>4. \A a, b, c, d : /\ Len(<<a, b, c, d>>) = 4 /\ Head(<<a, b, c, d>>) = a
                      /\ Tail(<<a, b, c, d>>) = <<b, c, d>>
  OBVIOUS
<1>5. \A a, b, c, d, e : /\ Len(<<a, b, c, d, e>>) = 5 /\ Head(<<a, b, c, d, e>>) = a
                         /\ Tail(<<a, b, c, d, e>>) = <<b, c, d, e>>
  OBVIOUS
<1>6. \A a, b, c, d, e, f : /\ Len(<<a, b, c, d, e, f>>) = 6
                            /\ Head(<<a, b, c, d, e, f>>) = a
                            /\ Tail(<<a, b, c, d, e, f>>) = <<b, c, d, e, f>>
  OBVIOUS
<1> SUFFICES ASSUME NEW p \in Plans, p # <<>>
             PROVE  /\ Len(p) # 1 => Tail(p) \in Plans /\ Tail(p) # <<>>
                    /\ Len(p) # 1 /\ Head(p) \notin {"generate", "rotate"} => Head(Tail(p)) # "save"
                    /\ Head(p) \in {"generate", "rotate"} => Len(p) # 1 /\ Head(Tail(p)) = "save"
  OBVIOUS
<1>c1. CASE p = <<"config", "generate", "save", "complete">>
  BY <1>4, <1>c1 DEF Plans
<1>c2. CASE p = <<"generate", "save", "complete">>
  BY <1>3, <1>c2 DEF Plans
<1>c3. CASE p = <<"save", "complete">>
  BY <1>2, <1>c3 DEF Plans
<1>c4. CASE p = <<"complete">>
  BY <1>1, <1>c4 DEF Plans
<1>c5. CASE p = <<"config", "generate", "save", "openai", "mode", "complete">>
  BY <1>6, <1>c5 DEF Plans
<1>c6. CASE p = <<"generate", "save", "openai", "mode", "complete">>
  BY <1>5, <1>c6 DEF Plans
<1>c7. CASE p = <<"save", "openai", "mode", "complete">>
  BY <1>4, <1>c7 DEF Plans
<1>c8. CASE p = <<"openai", "mode", "complete">>
  BY <1>3, <1>c8 DEF Plans
<1>c9. CASE p = <<"mode", "complete">>
  BY <1>2, <1>c9 DEF Plans
<1>c10. CASE p = <<"generate", "save">>
  BY <1>2, <1>c10 DEF Plans
<1>c11. CASE p = <<"rotate", "save">>
  BY <1>2, <1>c11 DEF Plans
<1>c12. CASE p = <<"save">>
  BY <1>1, <1>c12 DEF Plans
<1>c13. CASE p = <<"openai">>
  BY <1>1, <1>c13 DEF Plans
<1> QED
  BY <1>c1, <1>c2, <1>c3, <1>c4, <1>c5, <1>c6, <1>c7, <1>c8, <1>c9,
     <1>c10, <1>c11, <1>c12, <1>c13 DEF Plans

(* A command is its fields.                                                *)
LEMMA CommandFields ==
    ASSUME NEW q \in Command
    PROVE  q = [cmd |-> q.cmd, header |-> q.header, todo |-> q.todo, result |-> q.result,
                exit |-> q.exit, alone |-> q.alone]
  BY Zenon DEF Command

(* A command that is ended keeps what it was, and saves nothing.           *)
LEMMA EndedTyped ==
    ASSUME TypeInv, NEW s \in Terminals, cli[s] # Absent, NEW how \in {"ok", "error", "gone"}
    PROVE  /\ Ended(s, how) \in Command /\ Ended(s, how).result = cli[s].result
           /\ ~Saves(Ended(s, how))
<1> PICK q \in Command : q = cli[s]
  BY DEF TypeInv
<1> DEFINE c == [cmd |-> q.cmd, header |-> Absent, todo |-> <<>>, result |-> q.result,
                 exit |-> how, alone |-> TRUE]
<1>1. Ended(s, how) = c
  <2>1. Ended(s, how) = [q EXCEPT !.exit = how, !.todo = <<>>, !.header = Absent, !.alone = TRUE]
    BY DEF Ended
  <2>2. q = [cmd |-> q.cmd, header |-> q.header, todo |-> q.todo, result |-> q.result,
             exit |-> q.exit, alone |-> q.alone]
    BY CommandFields
  <2> QED
    BY <2>1, <2>2
<1>2. c \in Command
  <2>1. <<>> \in Plans
    BY DEF Plans
  <2> QED
    BY <2>1 DEF Command
<1> QED
  BY <1>1, <1>2 DEF Saves

(* A command goes on to its next call or ends; what it minted stays.       *)
LEMMA CallDoneTyped ==
    ASSUME TypeInv, NEW s \in Terminals, cli[s] # Absent, cli[s].todo # <<>>
    PROVE  \E c \in Command :
              /\ c = CallDone(s)
              /\ c.result = cli[s].result
              /\ Head(cli[s].todo) \notin {"generate", "rotate"} => ~Saves(c)
<1> PICK q \in Command : q = cli[s]
  BY DEF TypeInv
<1>1. q.todo \in Plans /\ q.todo # <<>>
  BY DEF TypeInv, Command
<1>2. CASE Len(q.todo) = 1
  BY <1>2, EndedTyped DEF CallDone
<1>3. CASE Len(q.todo) # 1
  <2> PICK rest \in Plans : rest = Tail(q.todo) /\ rest # <<>>
    BY <1>1, <1>3, PlanSteps
  <2> DEFINE c == [q EXCEPT !.todo = rest]
  <2>2. c \in Command /\ c.todo = rest /\ c.result = q.result
    BY DEF Command
  <2>3. c = CallDone(s)
    BY <1>3 DEF CallDone
  <2>4. Head(q.todo) \notin {"generate", "rotate"} => Head(rest) # "save"
    BY <1>1, <1>3, PlanSteps
  <2> QED
    BY <2>2, <2>3, <2>4 DEF Saves
<1> QED
  BY <1>2, <1>3

(* What the property says of the commands.                                 *)
LEMMA HeldTwice ==
    KeyNotLost <=> (~mislaid /\ key # Absent =>
        \/ key \in {seed, file}
        \/ page # Absent /\ page.key = key
        \/ \E s \in Terminals : Saves(cli[s]) /\ cli[s].result = key)
  BY DEF KeyNotLost, Configured, Next1, Running, Saves

(* A command that was not about to save does something else; the key, the  *)
(* file and the pages stay.                                                *)
LEMMA CommandStep ==
    ASSUME Inv, NEW s \in Terminals, NEW c \in Command, cli' = [cli EXCEPT ![s] = c],
           Saves(c) /\ ~mislaid' /\ c.alone => c.result \in {key, file},
           ~Saves(cli[s]) \/ mislaid',
           UNCHANGED <<seed, key, token, file, page>>,
           mislaid => mislaid', mislaid' \in BOOLEAN, ops' \in 0..MaxOps
    PROVE  Inv'
<1>1. cli'[s] = c /\ \A o \in Terminals \ {s} : cli'[o] = cli[o]
  BY DEF Inv, TypeInv
<1>2. TypeInv'
  BY <1>1 DEF Inv, TypeInv
<1>3. SavesNothingOld'
  BY <1>1 DEF Inv, SavesNothingOld, Saves
<1>4. KeyNotLost'
  <2> SUFFICES ASSUME ~mislaid', key # Absent
               PROVE  \/ key \in {seed, file}
                      \/ page # Absent /\ page.key = key
                      \/ \E o \in Terminals : Saves(cli'[o]) /\ cli'[o].result = key
    BY HeldTwice DEF KeyNotLost, Configured, Next1, Running, Saves
  <2>1. CASE \E o \in Terminals : Saves(cli[o]) /\ cli[o].result = key
    <3> PICK o \in Terminals : Saves(cli[o]) /\ cli[o].result = key
      BY <2>1
    <3>1. cli'[o] = cli[o]
      BY <1>1
    <3> QED
      BY <3>1
  <2> QED
    BY <2>1, HeldTwice DEF Inv
<1> QED
  BY <1>2, <1>3, <1>4 DEF Inv

(* Nothing the invariant looks at changes for the worse.                   *)
LEMMA QuietStep ==
    ASSUME Inv, UNCHANGED <<seed, key, token, file, cli>>,
           mislaid => mislaid', mislaid' \in BOOLEAN, ops' \in 0..MaxOps,
           page' \in Page \union {Absent},
           ~mislaid' /\ page # Absent /\ page.key # Absent => page' # Absent /\ page'.key = page.key
    PROVE  Inv'
<1>1. TypeInv' /\ SavesNothingOld'
  BY DEF Inv, TypeInv, SavesNothingOld, Saves
<1>2. KeyNotLost'
  BY DEF Inv, KeyNotLost, Configured, Next1, Running
<1> QED
  BY <1>1, <1>2 DEF Inv

---------------------------------------------------------------------------
(* No command runs, and the key is the one of the environment.             *)
LEMMA InitInv == OnboardingInit => Inv
<1> SUFFICES ASSUME OnboardingInit PROVE Inv
  OBVIOUS
<1>1. seed \in Keys \union {Absent} /\ file \in Keys \union {Absent} /\ ops \in 0..MaxOps
  BY OnboardingAssumption DEF OnboardingInit, Keys, Seed, Token, Wrong
<1>2. cli = [s \in Terminals |-> Absent] /\ page = Absent /\ mislaid = FALSE /\ token \in BOOLEAN
      /\ key = seed
  BY DEF OnboardingInit
<1>3. SavesNothingOld
  BY <1>2 DEF SavesNothingOld, Saves
<1> QED
  BY <1>1, <1>2, <1>3 DEF Inv, TypeInv, KeyNotLost

(* A command starts, knowing the file as it is.                            *)
LEMMA DispatchInv ==
    ASSUME Inv, NEW s \in Terminals,
           NEW cmd \in {"setup", "generate", "rotate", "openai-key", "init"},
           NEW override \in {Absent, seed, Wrong} \union (IF token THEN {Token} ELSE {}),
           Dispatch(s, cmd, override)
    PROVE  Inv'
<1> DEFINE header == ResolveSettings(override)
<1>1. override \in Keys \union {Absent} /\ header \in Keys \union {Absent}
  BY OnboardingAssumption DEF Inv, TypeInv, ResolveSettings, Keys, Seed, Token, Wrong
<1> PICK alone \in BOOLEAN : alone = (override = Absent \/ cmd # "init")
  OBVIOUS
<1> PICK h \in Keys \union {Absent} : h = header
  BY <1>1
<1> PICK todo \in Calls(cmd) :
        cli' = [cli EXCEPT ![s] =
            [cmd |-> cmd, header |-> h, todo |-> todo,
             result |-> IF cmd = "init" THEN h ELSE Absent, exit |-> Absent, alone |-> alone]]
  BY DEF Dispatch
<1>2. todo \in Plans
  BY DEF Calls, Plans
<1>3. cmd # "init" => Head(todo) # "save"
  BY DEF Calls
<1> DEFINE c == [cmd |-> cmd, header |-> h, todo |-> todo,
                 result |-> IF cmd = "init" THEN h ELSE Absent, exit |-> Absent, alone |-> alone]
<1>4. c \in Command
  BY <1>2 DEF Command
<1>5. cmd = "init" /\ alone => h = file
  BY DEF ResolveSettings
<1>6. Saves(c) /\ c.alone => c.result \in {key, file}
  BY <1>3, <1>5 DEF Saves
<1>7. ops' \in 0..MaxOps /\ UNCHANGED <<seed, key, token, file, page, mislaid>>
  BY OnboardingAssumption DEF Dispatch, Happens, Inv, TypeInv
<1>8. ~Saves(cli[s])
  BY DEF Dispatch, Running, Saves
<1> HIDE DEF c
<1>9. mislaid' \in BOOLEAN
  BY <1>2, <1>7 DEF c, Inv, TypeInv
<1>10. cli' = [cli EXCEPT ![s] = c]
  BY DEF c
<1> QED
  BY <1>4, <1>6, <1>7, <1>8, <1>9, <1>10, CommandStep

(* The calls that neither mint nor save.                                   *)
LEMMA CallsInv ==
    ASSUME Inv, NEW s \in Terminals,
           Refused(s) \/ GetConfig(s) \/ SetOpenaiKey(s) \/ CompleteOnboarding(s)
    PROVE  Inv'
<1>1. /\ cli[s] # Absent /\ cli[s].todo # <<>> /\ Head(cli[s].todo) # "save"
      /\ UNCHANGED <<seed, key, token, file, page, mislaid, ops>>
  BY DEF Refused, GetConfig, SetOpenaiKey, CompleteOnboarding, Next1, Running
<1>2. ~Saves(cli[s]) /\ mislaid' \in BOOLEAN /\ ops' \in 0..MaxOps
  BY <1>1 DEF Saves, Inv, TypeInv
<1>3. CASE \E how \in {"ok", "error", "gone"} : cli' = [cli EXCEPT ![s] = Ended(s, how)]
  BY <1>1, <1>2, <1>3, EndedTyped, CommandStep DEF Inv
<1>4. CASE cli' = [cli EXCEPT ![s] = CallDone(s)] /\ Head(cli[s].todo) \notin {"generate", "rotate"}
  <2> PICK c \in Command : c = CallDone(s) /\ ~Saves(c)
    BY <1>1, <1>4, CallDoneTyped DEF Inv
  <2> QED
    BY <1>1, <1>2, <1>4, CommandStep
<1> QED
  BY <1>3, <1>4 DEF Refused, GetConfig, SetOpenaiKey, CompleteOnboarding, Next1

(* A command is given up: what it was about to save, or had minted without *)
(* an answer, is lost, and called so.                                      *)
LEMMA GiveUpInv ==
    ASSUME Inv, NEW s \in Terminals, GiveUp(s)
    PROVE  Inv'
<1> PICK c \in Command : c = Ended(s, "gone") /\ ~Saves(c)
  BY EndedTyped DEF GiveUp, Running, Inv
<1>1. /\ cli' = [cli EXCEPT ![s] = c] /\ ops' \in 0..MaxOps
      /\ UNCHANGED <<seed, token, file, page>>
  BY OnboardingAssumption DEF GiveUp, Happens, Inv, TypeInv
<1>2. CASE UNCHANGED key /\ mislaid' = (mislaid \/ Next1(s, "save"))
  <2>1. Saves(cli[s]) => mislaid'
    BY <1>2 DEF Saves, Next1, Running
  <2>2. mislaid' \in BOOLEAN /\ (mislaid => mislaid')
    BY <1>2 DEF Next1, Running
  <2> QED
    BY <1>1, <1>2, <2>1, <2>2, CommandStep
<1>3. CASE mislaid' = TRUE
  BY <1>1, <1>3 DEF Inv, TypeInv, SavesNothingOld, KeyNotLost
<1> QED
  BY <1>2, <1>3 DEF GiveUp

(* A step that makes what the other commands know old.                     *)
LEMMA ProceedTyped ==
    ASSUME TypeInv, NEW s \in Terminals, NEW c \in Command, Proceed(s, c)
    PROVE  /\ cli' \in [Terminals -> Command \union {Absent}]
           /\ cli'[s] = c
           /\ \A o \in Terminals \ {s} :
                 /\ Saves(cli'[o]) <=> Saves(cli[o])
                 /\ Saves(cli[o]) => ~cli'[o].alone /\ cli'[o].result = cli[o].result
<1>1. cli' = [o \in Terminals |-> IF o = s THEN c
                ELSE IF Running(o) THEN [cli[o] EXCEPT !.alone = FALSE] ELSE cli[o]]
  BY DEF Proceed
<1>2. ASSUME NEW o \in Terminals \ {s}
      PROVE  /\ cli'[o] \in Command \union {Absent}
             /\ Saves(cli'[o]) <=> Saves(cli[o])
             /\ Saves(cli[o]) => ~cli'[o].alone /\ cli'[o].result = cli[o].result
  <2>1. CASE ~Running(o)
    <3>1. cli'[o] = cli[o] /\ ~Saves(cli[o])
      BY <1>1, <2>1 DEF Running, Saves
    <3> QED
      BY <3>1 DEF TypeInv
  <2>2. CASE Running(o)
    <3> PICK q \in Command : q = cli[o]
      BY <2>2 DEF TypeInv, Running
    <3> DEFINE d == [q EXCEPT !.alone = FALSE]
    <3>1. /\ d \in Command /\ d.todo = q.todo /\ d.exit = q.exit /\ d.alone = FALSE
          /\ d.result = q.result
      BY DEF Command
    <3>2. cli'[o] = d
      BY <1>1, <2>2
    <3> HIDE DEF d
    <3> QED
      BY <3>1, <3>2, OnboardingAssumption DEF Saves
  <2> QED
    BY <2>1, <2>2
<1> QED
  BY <1>1, <1>2

(* The fields of a command that another result is written into.            *)
LEMMA CommandWithResult ==
    ASSUME NEW d \in Command, NEW k
    PROVE  [d EXCEPT !.result = k]
             = [cmd |-> d.cmd, header |-> d.header, todo |-> d.todo, result |-> k,
                exit |-> d.exit, alone |-> d.alone]
<1> PICK cmd, header, todo, result, exit, alone :
        d = [cmd |-> cmd, header |-> header, todo |-> todo, result |-> result,
             exit |-> exit, alone |-> alone]
  BY CommandFields
<1> QED
  OBVIOUS

(* A key is minted: the command that minted it saves it next, and the key  *)
(* that was, is the instance's no more.                                    *)
LEMMA MintInv ==
    ASSUME Inv, NEW s \in Terminals, NEW call, MintKey(s, call)
    PROVE  Inv'
<1>1. /\ cli[s] # Absent /\ cli[s].exit = Absent /\ cli[s].todo # <<>>
      /\ Head(cli[s].todo) \in {"generate", "rotate"}
      /\ ops' \in 0..MaxOps /\ key' = ops'
      /\ UNCHANGED <<seed, token, file, page, mislaid>>
  BY OnboardingAssumption DEF MintKey, Next1, Running, Happens, Minted, Inv, TypeInv
<1> PICK k \in Keys : k = ops'
  BY <1>1, OnboardingAssumption DEF Keys, Seed, Wrong
<1> PICK q \in Command : q = cli[s]
  BY <1>1 DEF Inv, TypeInv
<1>2. q.todo \in Plans
  BY DEF Command
<1>3. /\ Len(q.todo) # 1 /\ Tail(q.todo) \in Plans /\ Tail(q.todo) # <<>>
      /\ Head(Tail(q.todo)) = "save"
  BY <1>1, <1>2, PlanSteps
<1> DEFINE c == [cmd |-> q.cmd, header |-> q.header, todo |-> Tail(q.todo), result |-> k,
                 exit |-> q.exit, alone |-> q.alone]
<1>4. c \in Command
  BY <1>3 DEF Command
<1>5. [CallDone(s) EXCEPT !.result = Minted] = c
  <2> PICK d \in Command : d = CallDone(s)
    BY <1>1, CallDoneTyped DEF Inv
  <2>1. d = [q EXCEPT !.todo = Tail(q.todo)]
    BY <1>3 DEF CallDone
  <2>2. /\ d.cmd = q.cmd /\ d.header = q.header /\ d.todo = Tail(q.todo)
        /\ d.exit = q.exit /\ d.alone = q.alone
    BY <2>1 DEF Command
  <2>3. [d EXCEPT !.result = k]
          = [cmd |-> d.cmd, header |-> d.header, todo |-> d.todo, result |-> k,
             exit |-> d.exit, alone |-> d.alone]
    BY CommandWithResult
  <2>4. Minted = k
    BY DEF Minted
  <2> QED
    BY <2>2, <2>3, <2>4
<1>6. Proceed(s, c)
  BY <1>5 DEF MintKey
<1>7. Saves(c) /\ c.result = k
  BY <1>1, <1>3, <1>4, OnboardingAssumption DEF Saves
<1> HIDE DEF c
<1>8. /\ cli' \in [Terminals -> Command \union {Absent}] /\ cli'[s] = c
      /\ \A o \in Terminals \ {s} : Saves(cli'[o]) => ~cli'[o].alone
  BY <1>4, <1>6, ProceedTyped DEF Inv
<1>9. TypeInv'
  BY <1>1, <1>8 DEF Inv, TypeInv
<1>10. SavesNothingOld'
  BY <1>1, <1>7, <1>8 DEF SavesNothingOld, Saves
<1>11. KeyNotLost'
  BY <1>1, <1>7, <1>8 DEF KeyNotLost, Next1, Running, Saves
<1> QED
  BY <1>9, <1>10, <1>11 DEF Inv

(* The file is written: by a command that nobody overtook it gets the key  *)
(* or what it had; otherwise what it had is lost, and called so.           *)
LEMMA SaveInv ==
    ASSUME Inv, NEW s \in Terminals, WriteConfigFile(s)
    PROVE  Inv'
<1> PICK q \in Command : q = cli[s]
  BY DEF WriteConfigFile, Next1, Running, Inv, TypeInv
<1>1. /\ Saves(q) /\ q # Absent /\ q.todo # <<>> /\ Head(q.todo) = "save"
      /\ UNCHANGED <<seed, key, token, page, ops>>
      /\ file' = q.result /\ mislaid' = (mislaid \/ ~q.alone)
  BY DEF WriteConfigFile, Next1, Running, Saves
<1> PICK c \in Command : c = CallDone(s) /\ ~Saves(c)
  BY <1>1, CallDoneTyped DEF Inv
<1>2. Proceed(s, c)
  BY DEF WriteConfigFile
<1>3. /\ cli' \in [Terminals -> Command \union {Absent}] /\ cli'[s] = c
      /\ \A o \in Terminals \ {s} :
            /\ Saves(cli'[o]) <=> Saves(cli[o])
            /\ Saves(cli[o]) => ~cli'[o].alone /\ cli'[o].result = cli[o].result
  BY <1>2, ProceedTyped DEF Inv
<1>4. q.result \in Keys \union {Absent} /\ q.alone \in BOOLEAN
  BY DEF Command
<1>5. TypeInv'
  BY <1>1, <1>3, <1>4 DEF Inv, TypeInv
<1>6. SavesNothingOld'
  BY <1>3 DEF SavesNothingOld, Saves
<1>7. KeyNotLost'
  <2> SUFFICES ASSUME ~mislaid', key # Absent
               PROVE  \/ key \in {seed, file'}
                      \/ page # Absent /\ page.key = key
                      \/ \E o \in Terminals : Saves(cli'[o]) /\ cli'[o].result = key
    BY <1>1 DEF KeyNotLost, Configured, Next1, Running, Saves
  <2>1. q.result \in {key, file} /\ ~mislaid
    BY <1>1 DEF Inv, SavesNothingOld
  <2>2. CASE \E o \in Terminals : Saves(cli[o]) /\ cli[o].result = key
    <3> PICK o \in Terminals : Saves(cli[o]) /\ cli[o].result = key
      BY <2>2
    <3>1. CASE o = s
      BY <1>1, <3>1
    <3>2. CASE o # s
      BY <1>3, <3>2
    <3> QED
      BY <3>1, <3>2
  <2>3. CASE key \in {seed, file} \/ (page # Absent /\ page.key = key)
    BY <1>1, <2>1, <2>3
  <2> QED
    BY <2>1, <2>2, <2>3, HeldTwice DEF Inv
<1> QED
  BY <1>5, <1>6, <1>7 DEF Inv

(* A page with another key, or that knows of a key, is a page.             *)
LEMMA PageFields ==
    ASSUME NEW p \in Page
    PROVE  /\ \A k \in Keys \union {Absent} : \E n \in Page :
                n = [p EXCEPT !.key = k] /\ n.key = k
           /\ \A b \in BOOLEAN : \E n \in Page :
                n = [p EXCEPT !.configured = b] /\ n.key = p.key
<1>1. p = [configured |-> p.configured, key |-> p.key]
  BY Zenon DEF Page
<1>2. p.configured \in BOOLEAN /\ p.key \in Keys \union {Absent}
  BY DEF Page
<1>3. ASSUME NEW k \in Keys \union {Absent}
      PROVE  \E n \in Page : n = [p EXCEPT !.key = k] /\ n.key = k
  <2>1. [p EXCEPT !.key = k] = [configured |-> p.configured, key |-> k]
    BY <1>1
  <2>2. [configured |-> p.configured, key |-> k] \in Page
    BY <1>2 DEF Page
  <2> QED
    BY <2>1, <2>2
<1>4. ASSUME NEW b \in BOOLEAN
      PROVE  \E n \in Page : n = [p EXCEPT !.configured = b] /\ n.key = p.key
  <2>1. [p EXCEPT !.configured = b] = [configured |-> b, key |-> p.key]
    BY <1>1
  <2>2. [configured |-> b, key |-> p.key] \in Page
    BY <1>2 DEF Page
  <2> QED
    BY <2>1, <2>2
<1> QED
  BY <1>3, <1>4

(* The browser mints a key and shows it.                                   *)
LEMMA ShowsInv ==
    ASSUME Inv, page # Absent, Happens, ShowsMinted
    PROVE  Inv'
<1>1. /\ ops' \in 0..MaxOps /\ key' = ops' /\ page' = [page EXCEPT !.key = key']
      /\ UNCHANGED <<seed, token, file, mislaid>>
  BY OnboardingAssumption DEF ShowsMinted, Happens, Minted, Inv, TypeInv
<1> PICK k \in Keys : k = ops'
  BY <1>1, OnboardingAssumption DEF Keys, Seed, Wrong
<1> PICK p \in Page : p = page
  BY DEF Inv, TypeInv
<1> PICK n \in Page : n = [p EXCEPT !.key = k] /\ n.key = k
  BY PageFields
<1>2. page' = n /\ page'.key = key' /\ page' # Absent
  BY <1>1, OnboardingAssumption
<1>3. ASSUME NEW o \in Terminals
      PROVE  /\ cli'[o] \in Command \union {Absent}
             /\ Saves(cli'[o]) => ~cli'[o].alone
  <2>1. cli'[o] = IF Running(o) THEN [cli[o] EXCEPT !.alone = FALSE] ELSE cli[o]
    BY DEF ShowsMinted
  <2>2. CASE ~Running(o)
    <3>1. cli'[o] = cli[o] /\ ~Saves(cli[o])
      BY <2>1, <2>2 DEF Running, Saves
    <3> QED
      BY <3>1 DEF Inv, TypeInv
  <2>3. CASE Running(o)
    <3> PICK q \in Command : q = cli[o]
      BY <2>3 DEF Inv, TypeInv, Running
    <3> DEFINE d == [q EXCEPT !.alone = FALSE]
    <3>1. d \in Command /\ d.alone = FALSE
      BY DEF Command
    <3>2. cli'[o] = d
      BY <2>1, <2>3
    <3> HIDE DEF d
    <3> QED
      BY <3>1, <3>2
  <2> QED
    BY <2>2, <2>3
<1>4. cli' \in [Terminals -> Command \union {Absent}]
  BY <1>3 DEF ShowsMinted
<1>5. TypeInv'
  BY <1>1, <1>2, <1>4 DEF Inv, TypeInv
<1>6. SavesNothingOld'
  BY <1>3 DEF SavesNothingOld, Saves
<1>7. KeyNotLost'
  BY <1>2 DEF KeyNotLost
<1> QED
  BY <1>5, <1>6, <1>7 DEF Inv

(* The page is loaded, which forgets the key it showed; or it learns       *)
(* whether there is a key.                                                 *)
LEMMA PageInv ==
    ASSUME Inv, LoadPage \/ Refetch
    PROVE  Inv'
<1>1. CASE LoadPage
  <2> DEFINE n == [configured |-> Configured, key |-> Absent]
  <2>1. n \in Page /\ page' = n /\ UNCHANGED <<seed, key, token, file, cli>>
    BY <1>1 DEF LoadPage, Configured, Page
  <2>2. /\ ops' \in 0..MaxOps
        /\ mislaid' = (mislaid \/ (page # Absent /\ page.key # Absent))
    BY <1>1, OnboardingAssumption DEF LoadPage, Happens, Inv, TypeInv
  <2>3. mislaid' \in BOOLEAN
    BY <2>2
  <2> HIDE DEF n
  <2> QED
    BY <2>1, <2>2, <2>3, QuietStep
<1>2. CASE Refetch
  <2> PICK p \in Page : p = page
    BY <1>2 DEF Refetch, Inv, TypeInv
  <2> PICK b \in BOOLEAN : b = Configured
    BY DEF Configured
  <2> PICK n \in Page : n = [p EXCEPT !.configured = b] /\ n.key = p.key
    BY PageFields
  <2>1. page' = n /\ n # Absent /\ UNCHANGED <<seed, key, token, file, cli, mislaid, ops>>
    BY <1>2, OnboardingAssumption DEF Refetch
  <2>2. mislaid' \in BOOLEAN /\ ops' \in 0..MaxOps
    BY <2>1 DEF Inv, TypeInv
  <2> QED
    BY <2>1, <2>2, QuietStep
<1> QED
  BY <1>1, <1>2

(* Every step keeps the invariant.                                         *)
LEMMA NextInv == Inv /\ [OnboardingNext]_onboardingVars => Inv'
<1> SUFFICES ASSUME Inv, [OnboardingNext]_onboardingVars
             PROVE  Inv'
  OBVIOUS
<1>1. CASE UNCHANGED onboardingVars
  BY <1>1 DEF onboardingVars, Inv, TypeInv, SavesNothingOld, Saves, KeyNotLost, Configured,
     Next1, Running
<1>2. ASSUME NEW s \in Terminals,
             NEW cmd \in {"setup", "generate", "rotate", "openai-key", "init"},
             NEW override \in {Absent, seed, Wrong} \union (IF token THEN {Token} ELSE {}),
             Dispatch(s, cmd, override)
      PROVE  Inv'
  BY <1>2, DispatchInv
<1>3. ASSUME NEW s \in Terminals,
             \/ Refused(s) \/ GetConfig(s) \/ SetOpenaiKey(s) \/ CompleteOnboarding(s)
             \/ (\E call \in {"generate", "rotate"} : MintKey(s, call))
             \/ WriteConfigFile(s) \/ GiveUp(s)
      PROVE  Inv'
  BY <1>3, CallsInv, MintInv, SaveInv, GiveUpInv
<1>4. ASSUME NEW session \in BOOLEAN, ClickGenerate(session) \/ ClickRegenerate
      PROVE  Inv'
  BY <1>4, ShowsInv DEF ClickGenerate, ClickRegenerate
<1>5. ASSUME NEW session \in BOOLEAN, ClickFinish(session)
      PROVE  Inv'
  <2>1. UNCHANGED <<seed, key, token, file, cli, page, mislaid, ops>>
    BY <1>5 DEF ClickFinish
  <2>2. mislaid' \in BOOLEAN /\ ops' \in 0..MaxOps /\ page' \in Page \union {Absent}
    BY <2>1 DEF Inv, TypeInv
  <2> QED
    BY <2>1, <2>2, QuietStep
<1> QED
  BY <1>1, <1>2, <1>3, <1>4, <1>5, PageInv DEF OnboardingNext

---------------------------------------------------------------------------
(* Types are kept, and no command that nobody overtook saves an old key.   *)
THEOREM OnboardingInvariant == OnboardingSpec => []Inv
  BY InitInv, NextInv, PTL DEF OnboardingSpec

(* A key the api expects is in the environment, in the file, on a page or  *)
(* about to be saved, unless one of the accidents of the history happened: *)
(* for any number of commands at once.                                     *)
THEOREM KeysStay == OnboardingSpec => []KeyNotLost
<1>1. Inv => KeyNotLost
  BY DEF Inv
<1> QED
  BY <1>1, OnboardingInvariant, PTL

=============================================================================
