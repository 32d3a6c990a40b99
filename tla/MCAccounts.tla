----------------------------- MODULE MCAccounts -----------------------------
(* Instances of Accounts and of Onboarding for TLC: one of the two runs,   *)
(* the other stays where it begins.                                        *)
EXTENDS Accounts, Onboarding, TLC

VARIABLE part

Symmetry == Permutations(Users) \union Permutations(Slots)
            \union Permutations(Sessions) \union Permutations(Invites)

MCInit ==
    \/ /\ part = "accounts" /\ Init
       /\ OnboardingInit /\ seed = Absent /\ ~token
    \/ /\ part = "onboarding" /\ OnboardingInit
       /\ Init /\ users = {}

MCNext ==
    \/ part = "accounts" /\ Next /\ UNCHANGED <<part, onboardingVars>>
    \/ part = "onboarding" /\ OnboardingNext /\ UNCHANGED <<part, vars>>

MCSpec == MCInit /\ [][MCNext]_<<part, vars, onboardingVars>>
=============================================================================
