------------------------------ MODULE MCCustody ------------------------------
(***************************************************************************)
(* The ways a package is taken into custody, for TLC: the private copy of  *)
(* an installed extension, the vault, a download from the registries and   *)
(* an artifact behind a URL with a pin.  They share no state, so a         *)
(* behaviour is of one of them; the others stay as they are when idle.     *)
(***************************************************************************)
EXTENDS Snapshot, ArtifactStore, MarketDownload, PinnedArtifact, TLC

VARIABLE part

\* Both packages have their objects in one shard.
OneShard == [c \in Contents |-> CHOOSE d \in Shards : TRUE]

CustodyInit ==
    /\ part \in {"snapshot", "vault", "market", "pinned"}
    /\ Init /\ VaultInit /\ MarketInit /\ PinInit
    /\ part # "snapshot" => disk = Empty
    /\ part # "vault" => /\ package = [w \in Calls |-> CHOOSE c \in Contents : TRUE]
                         /\ shard = [d \in Shards |-> "none"]
    /\ part # "market" => ask = [version |-> NoVersion, platform |-> FALSE, lax |-> FALSE]
    /\ part # "pinned" => pin = [kind |-> "plain", valid |-> FALSE, digest |-> "artifact",
                                 inner |-> "other", serves |-> "artifact", held |-> "absent"]

CustodyNext ==
    \/ part = "snapshot" /\ Next /\ UNCHANGED <<part, vaultVars, marketVars, pinVars>>
    \/ part = "vault" /\ VaultNext /\ UNCHANGED <<part, vars, marketVars, pinVars>>
    \/ part = "market" /\ MarketNext /\ UNCHANGED <<part, vars, vaultVars, pinVars>>
    \/ part = "pinned" /\ PinNext /\ UNCHANGED <<part, vars, vaultVars, marketVars>>

Custody == CustodyInit /\ [][CustodyNext]_<<part, vars, vaultVars, marketVars, pinVars>>

\* Calls of preserve differ by their packages alone.
Symmetry == Permutations(Calls)

\* Types of the four.
TypesOK == TypeOK /\ VaultTypeOK /\ MarketTypeOK /\ PinTypeOK

\* A download and a request for an artifact end with no file of theirs left on
\* disk, however they end, but for the errors that no handler catches
\* (registry.py:259-264, 471-499, scanner.py:1517-1518, artifact_input.py:63-110).
CallLeavesNothing == FilesRemoved /\ PinLeavesNothing
=============================================================================
