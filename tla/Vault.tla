-------------------------------- MODULE Vault --------------------------------
(***************************************************************************)
(* The Photo-Vault protocols with calls that overlap: VaultMedia, which    *)
(* this module extends, and IdempotencyKeys and ContinuityPacks as         *)
(* instances.  They share no table, so that `part` says, for a whole       *)
(* behaviour, which of them moves.                                         *)
(***************************************************************************)
EXTENDS VaultMedia

CONSTANTS
    KeyBodies, MaxEffects,           \* IdempotencyKeys
    Items, Recipients, MaxArmings    \* ContinuityPacks

ASSUME KeysAssumption == MaxEffects \in Nat
ASSUME PacksAssumption == MaxArmings \in Nat

VARIABLES part, key, kOp, effects, excuse, pack, people, given, pOp, arming, blurred

\* As configured: IDEMPOTENCY_ALLOW_CONCURRENT is false unless it is set.
Keys == INSTANCE IdempotencyKeys WITH Bodies <- KeyBodies, AllowConcurrent <- FALSE, op <- kOp
Packs == INSTANCE ContinuityPacks WITH op <- pOp

keys == <<key, kOp, effects, excuse>>
packs == <<pack, people, given, pOp, arming, blurred>>
vaultVars == <<vars, keys, packs, part>>

VaultInit ==
    /\ part \in {"media", "keys", "packs"}
    /\ Init /\ Keys!Init /\ Packs!Init

VaultNext ==
    /\ UNCHANGED part
    /\ \/ part = "media" /\ Next /\ UNCHANGED <<keys, packs>>
       \/ part = "keys" /\ Keys!Next /\ UNCHANGED <<vars, packs>>
       \/ part = "packs" /\ Packs!Next /\ UNCHANGED <<vars, keys>>

VaultSpec == VaultInit /\ [][VaultNext]_vaultVars

-----------------------------------------------------------------------------
\* A request repeated with its key has its effect once.
KeyProtects == Keys!KeyProtects

\* What the owner sees in a released pack is what its recipients were given.
ReleasedAsShown == Packs!ReleasedAsShown
=============================================================================
