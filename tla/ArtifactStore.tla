--------------------------- MODULE ArtifactStore ---------------------------
(***************************************************************************)
(* The content-addressed vault of ide_scanner/artifact_store.py: calls of  *)
(* preserve, in threads and processes of their own, stage a package, link  *)
(* it under its hash unless it is there, verify what is there and record   *)
(* it in the catalog.  Calls die, the machine loses power, and objects rot.*)
(*                                                                         *)
(* A content stands for its SHA-256 and size, and for the object's path.   *)
(* The vault's root and its sha256 directory are older and on the medium;  *)
(* the shards below sha256 come with the first object of theirs.           *)
(***************************************************************************)
EXTENDS Integers

CONSTANTS
    Calls,      \* calls of preserve
    Contents,   \* packages
    Shards,     \* directories below sha256, one for each first byte of a hash
    ShardOf,    \* ShardOf[c]: the directory of the object of c
    MaxLosses,  \* bound: losses of power
    MaxDamage   \* bound: objects damaged

ASSUME ShardsOK == ShardOf \in [Contents -> Shards]

VARIABLES
    pc,       \* pc[w]: where a call is
    package,  \* package[w]: what it was given
    staged,   \* the calls whose staged file exists
    object,   \* object[c]: the file at the path of c
    shard,    \* shard[d]: "made" until the entry of d in sha256 is on the medium
    flushed,  \* the contents whose entry in their shard is on the medium
    catalog,  \* the contents recorded in artifacts and observations
    found,    \* the calls that found an object at its path, before linking
    hasty,    \* what such calls recorded that was not flushed (history)
    swept,    \* the contents whose shard went, not flushed since (history)
    tainted,  \* the calls that began when their object was damaged (history)
    losses, damages

store == <<staged, object, shard, flushed, catalog, hasty, swept>>
vaultVars == <<pc, package, store, tainted, found, losses, damages>>

Active == {"stage", "look", "link", "compare", "recheck", "flush", "seal", "record",
           "return", "raise"}

VaultTypeOK ==
    /\ pc \in [Calls -> Active \cup {"idle", "returned", "raised", "dead"}]
    /\ package \in [Calls -> Contents]
    /\ staged \subseteq Calls
    /\ object \in [Contents -> {"none", "good", "damaged"}]
    /\ shard \in [Shards -> {"none", "made", "kept"}]
    /\ flushed \subseteq Contents
    /\ catalog \subseteq Contents
    /\ found \subseteq Calls
    /\ hasty \subseteq Contents /\ swept \subseteq Contents
    /\ tainted \subseteq Calls
    /\ losses \in Nat
    /\ damages \in Nat

VaultInit ==
    /\ pc = [w \in Calls |-> "idle"]
    /\ package \in [Calls -> Contents]
    /\ staged = {}
    /\ object = [c \in Contents |-> "none"]
    /\ shard \in [Shards -> {"none", "kept"}]
    /\ flushed = {} /\ catalog = {} /\ found = {} /\ hasty = {} /\ swept = {} /\ tainted = {}
    /\ losses = 0 /\ damages = 0

-----------------------------------------------------------------------------
(* preserve.                                                                *)

Goto(w, next) == pc' = [pc EXCEPT ![w] = next]

Call(w) ==
    /\ pc[w] = "idle"
    /\ Goto(w, "stage")
    /\ staged' = staged \cup {w}
    /\ tainted' = IF object[package[w]] = "damaged" THEN tainted \cup {w} ELSE tainted
    /\ UNCHANGED <<package, object, shard, flushed, catalog, hasty, swept, found, losses, damages>>

\* The identity is invalid or the source is not a regular file.
Reject(w) ==
    /\ pc[w] = "idle"
    /\ Goto(w, "raised")
    /\ UNCHANGED <<package, store, tainted, found, losses, damages>>

Stage(w) ==
    /\ pc[w] = "stage"
    /\ Goto(w, "look")
    /\ UNCHANGED <<package, store, tainted, found, losses, damages>>

Look(w) ==
    /\ pc[w] = "look"
    /\ shard' = [shard EXCEPT ![ShardOf[package[w]]] = IF @ = "none" THEN "made" ELSE @]
    /\ IF object[package[w]] = "none"
       THEN Goto(w, "link") /\ UNCHANGED found
       ELSE Goto(w, "compare") /\ found' = found \cup {w}
    /\ UNCHANGED <<package, staged, object, flushed, catalog, hasty, swept, tainted, losses, damages>>

\* os.link; FileExistsError when another call was first.
Link(w) ==
    /\ pc[w] = "link"
    /\ IF object[package[w]] = "none"
       THEN object' = [object EXCEPT ![package[w]] = "good"] /\ Goto(w, "flush")
       ELSE Goto(w, "recheck") /\ UNCHANGED object
    /\ UNCHANGED <<package, staged, shard, flushed, catalog, hasty, swept, tainted, found, losses, damages>>

\* Variant: any file at the path is taken for the content.
MatchesIfThere(c) == object[c] # "none"

\* _verify: raises when the file is not there, or is not the content.
Matches(c) == object[c] = "good"

Verify(w) ==
    /\ \/ pc[w] = "compare" /\ Goto(w, IF Matches(package[w]) THEN "seal" ELSE "raise")
       \/ pc[w] = "recheck" /\ Goto(w, IF Matches(package[w]) THEN "flush" ELSE "raise")
       \/ pc[w] = "seal" /\ Goto(w, IF Matches(package[w]) THEN "record" ELSE "raise")
    /\ UNCHANGED <<package, store, tainted, found, losses, damages>>

\* Variant: the directory is left to the operating system.
FlushLater(w) ==
    /\ pc[w] = "flush"
    /\ Goto(w, "seal")
    /\ UNCHANGED <<package, store, tainted, found, losses, damages>>

\* fsync of the shard: the entries in it, not its own entry in sha256.
Flush(w) ==
    /\ pc[w] = "flush"
    /\ flushed' = flushed \cup {package[w]}
    /\ swept' = swept \ {package[w]}
    /\ Goto(w, "seal")
    /\ UNCHANGED <<package, staged, object, shard, catalog, hasty, tainted, found, losses, damages>>

\* One transaction of the catalog.
Record(w) ==
    /\ pc[w] = "record"
    /\ catalog' = catalog \cup {package[w]}
    /\ hasty' = IF w \in found /\ package[w] \notin flushed THEN hasty \cup {package[w]} ELSE hasty
    /\ Goto(w, "return")
    /\ UNCHANGED <<package, staged, object, shard, flushed, swept, tainted, found, losses, damages>>

\* An empty or unreadable source, a full disk, a busy catalog.
Raise(w) ==
    /\ pc[w] \in Active \ {"return", "raise"}
    /\ Goto(w, "raise")
    /\ UNCHANGED <<package, store, tainted, found, losses, damages>>

\* finally.
Unlink(w) ==
    /\ pc[w] \in {"return", "raise"}
    /\ Goto(w, IF pc[w] = "return" THEN "returned" ELSE "raised")
    /\ staged' = staged \ {w}
    /\ UNCHANGED <<package, object, shard, flushed, catalog, hasty, swept, tainted, found, losses, damages>>

\* The staged file cannot be removed: its OSError replaces the result.
UnlinkRaises(w) ==
    /\ pc[w] \in {"return", "raise"}
    /\ Goto(w, "raised")
    /\ UNCHANGED <<package, store, tainted, found, losses, damages>>

-----------------------------------------------------------------------------
(* The rest of the world.                                                   *)

Die(w) ==
    /\ pc[w] \in Active
    /\ Goto(w, "dead")
    /\ UNCHANGED <<package, store, tainted, found, losses, damages>>

\* The system writes a new shard's entry back in its own time.
Settle(d) ==
    /\ shard[d] = "made"
    /\ shard' = [shard EXCEPT ![d] = "kept"]
    /\ UNCHANGED <<pc, package, staged, object, flushed, catalog, hasty, swept, tainted, found, losses, damages>>

\* Entries that were not flushed may be lost, and with them their objects: of
\* one package, or of a whole shard with all that was flushed into it.
LosePower ==
    /\ losses < MaxLosses
    /\ losses' = losses + 1
    /\ pc' = [w \in Calls |-> IF pc[w] \in Active THEN "dead" ELSE pc[w]]
    /\ \E gone \in SUBSET {d \in Shards : shard[d] = "made"} :
       LET under == {c \in Contents : ShardOf[c] \in gone} IN
       /\ shard' = [d \in Shards |-> IF shard[d] = "none" \/ d \in gone THEN "none" ELSE "kept"]
       /\ flushed' = flushed \ under
       /\ swept' = swept \cup under
       /\ \E lost \in SUBSET (Contents \ flushed) :
            object' = [c \in Contents |-> IF c \in lost \cup under THEN "none" ELSE object[c]]
    /\ staged' \in SUBSET staged
    /\ UNCHANGED <<package, catalog, hasty, tainted, found, damages>>

Damage(c) ==
    /\ damages < MaxDamage
    /\ object[c] = "good"
    /\ object' = [object EXCEPT ![c] = "damaged"]
    /\ damages' = damages + 1
    /\ UNCHANGED <<pc, package, staged, shard, flushed, catalog, hasty, swept, tainted, found, losses>>

-----------------------------------------------------------------------------
CallStep(w) ==
    \/ Call(w) \/ Reject(w) \/ Stage(w) \/ Look(w) \/ Link(w) \/ Verify(w) \/ Flush(w)
    \/ Record(w) \/ Raise(w) \/ Unlink(w) \/ UnlinkRaises(w) \/ Die(w)

VaultNext == (\E w \in Calls : CallStep(w)) \/ LosePower
             \/ (\E c \in Contents : Damage(c)) \/ \E d \in Shards : Settle(d)

VaultSpec == VaultInit /\ [][VaultNext]_vaultVars

-----------------------------------------------------------------------------
(* Properties.                                                              *)

\* What the catalog records is in the vault, even after a loss of power, with
\* two exceptions: a package that one call recorded on finding an object that
\* another had linked and not flushed, and the packages of a new shard, whose
\* own entry no call flushes, if it went before the system wrote it back.
CatalogHasObject == \A c \in catalog \ (hasty \cup swept) : object[c] # "none"

\* A call never returns, nor records anything, for an object that was damaged
\* when it began, whatever runs beside it.
DamageIsNoticed == \A w \in tainted : pc[w] \notin {"record", "return", "returned"}

\* A damaged object is evidence: no call writes over it.
NeverReplaced ==
    [][\A c \in Contents : object[c] = "damaged" => object'[c] \in {"damaged", "none"}]_vaultVars
=============================================================================
