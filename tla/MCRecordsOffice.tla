--------------------------- MODULE MCRecordsOffice ---------------------------
(***************************************************************************)
(* What the server keeps on disk, for TLC: the registry, the status files  *)
(* of the workers, the runs, the settings and the vault. They share no     *)
(* state here: each behaviour is that of one of the Parts, on the same two *)
(* threads.                                                                *)
(***************************************************************************)
EXTENDS Registry, StatusWorkers, Ingest, Settings, Vault, TLC

CONSTANTS
    Threads,
    Parts    \* those this run is about

VARIABLE part

officeVars == <<part, registryVars, statusVars, ingestVars, settingsVars,
                vaultVars>>

Symmetry == Permutations(Threads)

Init ==
    /\ part \in Parts
    /\ RegistryInit /\ StatusInit /\ IngestInit /\ SettingsInit /\ VaultInit
    \* elsewhere one start of these is enough
    /\ part = "status" \/ kind = "demo"
    /\ part = "settings" \/ \A s \in Portals : offers[s] = {}
    /\ part = "vault" \/ given = 0

Next ==
    /\ UNCHANGED part
    /\ \/ /\ part = "registry" /\ RegistryNext
          /\ UNCHANGED <<statusVars, ingestVars, settingsVars, vaultVars>>
       \/ /\ part = "status" /\ StatusNext
          /\ UNCHANGED <<registryVars, ingestVars, settingsVars, vaultVars>>
       \/ /\ part = "ingest" /\ IngestNext
          /\ UNCHANGED <<registryVars, statusVars, settingsVars, vaultVars>>
       \/ /\ part = "settings" /\ SettingsNext
          /\ UNCHANGED <<registryVars, statusVars, ingestVars, vaultVars>>
       \/ /\ part = "vault" /\ VaultNext
          /\ UNCHANGED <<registryVars, statusVars, ingestVars, settingsVars>>

Spec == Init /\ [][Next]_officeVars

(* Every variable of every part has its type. *)
RecordsTypeOK ==
    /\ RegistryTypeOK
    /\ StatusTypeOK
    /\ IngestTypeOK
    /\ SettingsTypeOK
    /\ VaultTypeOK

(* What the operator has saved is what is used, and is kept, until something *)
(* else is saved: the choices for a source, and the secrets.                 *)
SavedIsUsed == ChoicesAreKept /\ SecretsAreTheirOwn
=============================================================================
