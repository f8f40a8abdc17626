---------------------------- MODULE Integrations ----------------------------
(***************************************************************************)
(* The parts of the system that talk to other systems than the database    *)
(* and the broker: the resources of a tenant, secrets in Vault, the log of *)
(* model calls and work from Paperclip. They share no state. One of them   *)
(* moves in a behaviour, so that their states add up and do not multiply.  *)
(***************************************************************************)
EXTENDS TenantResources, VaultSecrets, LlmCallLog, PaperclipHeartbeat

VARIABLE part   \* the part that moves

vars == <<part, resourceVars, vaultVars, logVars, beatVars>>

Parts == {"resources", "secrets", "log", "paperclip"}

TypeOK ==
    /\ part \in Parts
    /\ ResourcesTypeOK
    /\ VaultTypeOK
    /\ LogTypeOK
    /\ BeatTypeOK

Init ==
    /\ part \in Parts
    /\ ResourcesInit
    /\ VaultInit
    /\ LogInit
    /\ BeatInit
    /\ part # "resources" => real = CHOOSE e \in Environments : TRUE
    /\ part # "log" => sink = FALSE
    /\ part # "paperclip" => live = FALSE

Next ==
    \/ part = "resources" /\ ResourcesNext /\ UNCHANGED <<part, vaultVars, logVars, beatVars>>
    \/ part = "secrets" /\ VaultNext /\ UNCHANGED <<part, resourceVars, logVars, beatVars>>
    \/ part = "log" /\ LogNext /\ UNCHANGED <<part, resourceVars, vaultVars, beatVars>>
    \/ part = "paperclip" /\ BeatNext /\ UNCHANGED <<part, resourceVars, vaultVars, logVars>>

Spec == Init /\ [][Next]_vars
=============================================================================
