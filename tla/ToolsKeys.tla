------------------------------ MODULE ToolsKeys ------------------------------
(***************************************************************************)
(* The SSH keys of a user and the tools that use them: RegenerateSSHKeys   *)
(* (app/api/usecase/user/interactor.go) beside the requests, the resource  *)
(* and the pod of UserTools.                                               *)
(*                                                                         *)
(* A new pair goes to a secret and then to the user's document.  The pod   *)
(* mounts the private key by a subPath when its containers start           *)
(* (user-tools-operator's statefulset.yaml), so that running tools never   *)
(* see a later one: a regeneration is meant to be refused while they run,  *)
(* but asks once, before its writes, and takes a failed check for no tools.*)
(***************************************************************************)
EXTENDS UserTools

CONSTANTS
    Regenerations,  \* the regenerations that can be under way at once
    MaxKeys         \* how many pairs are generated

ASSUME KeysAssumption == MaxKeys \in Nat

VARIABLES
    secret,     \* the pair in the user's secret
    document,   \* the pair in the user's document
    made,       \* how many pairs have been generated; the first is 0
    mounted,    \* the pair that the containers of the pod started with
    regen,      \* the regenerations
    quiet,      \* history: no regeneration has met a request or a resource
    clean       \* history: the requests that no regeneration has met

keys == <<secret, document, made>>

keysVars == <<vars, keys, mounted, regen, quiet, clean>>

-----------------------------------------------------------------------------

Keys == 0 .. MaxKeys

\* blind is a history: the check of the regeneration has failed.
NoRegeneration == [at |-> "idle", key |-> 0, blind |-> FALSE]

KeysTypeOK ==
    /\ TypeOK
    /\ secret \in Keys /\ document \in Keys /\ made \in Keys
    /\ mounted \in Keys \union {None}
    /\ regen \in [Regenerations ->
                    [at : {"idle", "check", "updateSecret", "updateKey"},
                     key : Keys, blind : BOOLEAN]]
    /\ quiet \in BOOLEAN
    /\ clean \in SUBSET Handlers

KeysInit ==
    /\ Init
    /\ secret = 0 /\ document = 0 /\ made = 0
    /\ mounted = None
    /\ regen = [g \in Regenerations |-> NoRegeneration]
    /\ quiet = TRUE
    /\ clean = {}

\* A regeneration that has passed its check and has not written yet.
Pending(r) == r.at = "updateSecret"

\* The histories, after any step.
Watch ==
    LET pending == {g \in Regenerations : Pending(regen'[g])} IN
    /\ quiet' = (quiet /\ \A g \in pending :
                    /\ ~regen'[g].blind
                    /\ cr' = None /\ \A h \in Handlers : handler'[h].at = "idle")
    /\ clean' = {h \in Handlers : /\ handler'[h].at # "idle"
                                  /\ handler[h].at = "idle" \/ h \in clean
                                  /\ pending = {}}

-----------------------------------------------------------------------------

RegenerateSSHKeys(g) ==
    /\ regen[g].at = "idle"
    /\ regen' = [regen EXCEPT ![g].at = "check"]
    /\ UNCHANGED <<vars, keys, mounted>>

\* sshGenerator.NewKeys: a pair that is nowhere else.
NewKeys(g, blind) ==
    /\ regen[g].at = "check"
    /\ made < MaxKeys
    /\ made' = made + 1
    /\ regen' = [regen EXCEPT ![g] = [at |-> "updateSecret", key |-> made + 1,
                                      blind |-> blind]]
    /\ UNCHANGED <<vars, secret, document, mounted>>

\* Mutant: only a resource counts, not a pod that has outlived it.
FindNoResource(g) ==
    /\ cr = None
    /\ NewKeys(g, FALSE)

\* AreToolsRunning: any pod counts.
FindNoTools(g) ==
    /\ pod = None
    /\ NewKeys(g, FALSE)

\* ErrUserToolsActive.
FindTools(g) ==
    /\ regen[g].at = "check"
    /\ pod # None
    /\ regen' = [regen EXCEPT ![g] = NoRegeneration]
    /\ UNCHANGED <<vars, keys, mounted>>

\* AreToolsRunning drops the error: tools that run are not found.
CheckFails(g) == NewKeys(g, TRUE)

UpdateSecret(g) ==
    /\ Pending(regen[g])
    /\ secret' = regen[g].key
    /\ regen' = [regen EXCEPT ![g].at = "updateKey"]
    /\ UNCHANGED <<vars, document, made, mounted>>

UpdateSSHKey(g) ==
    /\ regen[g].at = "updateKey"
    /\ document' = regen[g].key
    /\ regen' = [regen EXCEPT ![g] = NoRegeneration]
    /\ UNCHANGED <<vars, secret, made, mounted>>

\* A call fails, or the client leaves.
RegenerationFails(g) ==
    /\ regen[g].at # "idle"
    /\ regen' = [regen EXCEPT ![g] = NoRegeneration]
    /\ UNCHANGED <<vars, keys, mounted>>

\* The containers get the key of the moment they start, and keep it.
Mount ==
    mounted' = CASE pod' = None \/ ~pod'.running -> None
                 [] Running -> mounted
                 [] OTHER -> secret

ToolsStep == Next /\ Mount /\ UNCHANGED <<keys, regen>>

RegenerationStep ==
    \E g \in Regenerations :
        \/ RegenerateSSHKeys(g)
        \/ FindNoTools(g)
        \/ FindTools(g)
        \/ CheckFails(g)
        \/ UpdateSecret(g)
        \/ UpdateSSHKey(g)
        \/ RegenerationFails(g)

KeysNext == (ToolsStep \/ RegenerationStep) /\ Watch

KeysSpec == KeysInit /\ [][KeysNext]_keysVars

-----------------------------------------------------------------------------

(***************************************************************************)
(* ErrUserToolsActive's purpose: running tools hold the key of the secret. *)
(* It is kept as long as no regeneration, between its check and its write, *)
(* has met a request for the tools or a resource whose pod is not there,   *)
(* and no check has failed.                                                *)
(***************************************************************************)
QuietToolsHoldTheirKey == quiet /\ Running => mounted = secret

(***************************************************************************)
(* Whatever went wrong before, a restart of the tools repairs it: a start  *)
(* that meets no other request and no regeneration waits for a pod with    *)
(* the key of the secret, not for one that was left with an older key.     *)
(***************************************************************************)
RestartRepairsKeys ==
    \A h \in clean \intersect alone :
        handler[h].at = "up" /\ Running => mounted = secret

=============================================================================
