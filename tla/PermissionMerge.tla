---------------------------- MODULE PermissionMerge ----------------------------
(***************************************************************************)
(* How the effect of one permission of an identity connection comes about: *)
(* resolveConnectionPermissionsCore puts the policy template through five  *)
(* layers, each with guardrails of its own.                                *)
(*                                                                         *)
(* Layers treat each permission by itself, so that a behaviour is one      *)
(* permission on its way.  The templates and the tables of the identity    *)
(* and relationship behaviours are left open: any effect, or none, is      *)
(* possible; trust states and the guarded keys are those of the code.      *)
(* Limits and the trace are left out.                                      *)
(***************************************************************************)
EXTENDS Integers

\* EFFECT_RANK: an effect is its rank.
Deny == 0
RequestApproval == 1
AllowWithLimits == 2
Allow == 3
Effects == Deny .. Allow
NoChange == -1    \* a table without an entry for the permission

Messaging == {"textSend", "voiceSend", "imageSend", "videoSend", "documentSend"}
Calls == {"voiceStart", "videoStart"}
Contact == {"phoneView", "emailView"}
Ai == {"summaryUse", "replyUse"}
Reading == {"itemView", "itemDownload"}

\* What no layer but an override may grant, and what no layer may withdraw.
Sealed == {"export", "itemReshare"}
System == {"block", "report"}

\* CORE_CONNECTION_TEMPLATE_PERMISSION_KEYS
Keys == Messaging \cup Calls \cup Contact \cup Ai \cup Reading \cup Sealed \cup System
    \cup {"directRing", "protectedSend", "download", "forward", "itemAttach", "basicView",
          "fullView", "mute", "bookingRequestCreate", "paymentRequestCreate",
          "supportTicketCreate"}

Permissive == {"BASIC_VERIFIED", "STRONG_VERIFIED", "TRUSTED_BY_USER"}
Restrictive == {"UNVERIFIED", "HIGH_RISK", "RESTRICTED", "BLOCKED"}
TrustStates == Permissive \cup Restrictive

Signals == {"DEVICE_COMPROMISED", "SPAM_FLAGGED", "ABUSE_REPORTED", "PAYMENT_RISK",
            "AI_SAFETY_RISK", "SCREEN_CAPTURE_RISK", "CASTING_RISK",
            "HIGH_FRAUD_PROBABILITY", "IDENTITY_UNDER_REVIEW", "RATE_LIMITED"}

VARIABLES
    key,         \* the permission
    trust,       \* the connection's trust state
    partner,     \* the template is couple.partner
    template,    \* the effect that the template gives it
    effect,      \* the effect so far
    stage,       \* the layer that comes next
    overridden   \* the connection has an override of the permission

vars == <<key, trust, partner, template, effect, stage, overridden>>

Stages == {"identity", "relationship", "trust", "override", "risk", "resolved"}

-----------------------------------------------------------------------------
Lower(a, b) == IF a < b THEN a ELSE b
Higher(a, b) == IF a < b THEN b ELSE a

\* Mutant of Behaved: what the template denies may be granted.
BehavedOpenly(base, adjustment) ==
    IF adjustment = NoChange \/ key \in System THEN base ELSE adjustment

\* mergeBehaviorValue and mergeRelationshipValue: an adjustment replaces the effect.
Behaved(base, adjustment) ==
    IF \/ adjustment = NoChange
       \/ key \in System
       \/ key \in Sealed /\ base = Deny
    THEN base ELSE adjustment

\* The permissions that a trust state denies, limits and allows.
Denied ==
    [BLOCKED |-> Messaging \cup Calls \cup Reading \cup Contact \cup Ai
                 \cup {"directRing", "itemAttach", "itemReshare", "fullView",
                       "bookingRequestCreate", "paymentRequestCreate", "supportTicketCreate"},
     HIGH_RISK |-> Calls \cup Sealed \cup Contact \cup Ai \cup {"paymentRequestCreate"},
     RESTRICTED |-> Calls \cup Sealed \cup {"paymentRequestCreate"}]
Limited ==
    [UNVERIFIED |-> Contact \cup {"paymentRequestCreate"},
     BASIC_VERIFIED |-> Ai,
     STRONG_VERIFIED |-> Contact,
     RESTRICTED |-> Contact \cup {"protectedSend"}]
Allowed ==
    [BASIC_VERIFIED |-> {"basicView"},
     STRONG_VERIFIED |-> Calls,
     TRUSTED_BY_USER |-> Calls \cup Reading \cup Ai,
     BLOCKED |-> System \cup {"mute"}]

\* TRUST_STATE_ADJUSTMENTS
Named(table) == trust \in DOMAIN table /\ key \in table[trust]
Adjustment ==
    IF Named(Denied) THEN Deny
    ELSE IF Named(Limited) THEN AllowWithLimits
    ELSE IF Named(Allowed) THEN Allow ELSE NoChange

\* mergePermissionMap
Trusted(base) ==
    IF \/ Adjustment = NoChange
       \/ key \in Sealed /\ trust \in Permissive /\ base = Deny
    THEN base
    ELSE IF trust \in Restrictive THEN Lower(base, Adjustment) ELSE Higher(base, Adjustment)

\* BLOCKED_TRUST_HARD_DENY_KEYS
HardDenied == Messaging \cup Calls \cup Reading \cup Ai

\* evaluateManualOverrideGuardrail: where an override is passed over.
Guarded(base) ==
    \/ trust = "BLOCKED" /\ key \in HardDenied /\ base = Deny
    \/ partner /\ key \in Sealed /\ base = Deny
    \/ key \in System /\ base = Allow

Overriding(base, override) ==
    IF override = NoChange \/ Guarded(base) THEN base ELSE override

\* deriveRiskSignalsFromTrustState
Derived ==
    CASE trust = "HIGH_RISK" -> {"HIGH_FRAUD_PROBABILITY"}
      [] trust = "BLOCKED" -> {"ABUSE_REPORTED", "SPAM_FLAGGED"}
      [] OTHER -> {}

\* RISK_RESTRICTIONS: the permissions that a signal denies ...
Cut ==
    [DEVICE_COMPROMISED |-> {"protectedSend"} \cup Sealed \cup Reading \cup Calls,
     SPAM_FLAGGED |-> Messaging \cup Calls,
     ABUSE_REPORTED |-> Calls \cup Ai \cup {"paymentRequestCreate"},
     PAYMENT_RISK |-> {"paymentRequestCreate"},
     AI_SAFETY_RISK |-> Ai,
     SCREEN_CAPTURE_RISK |-> {"protectedSend", "export"},
     CASTING_RISK |-> {"videoStart", "protectedSend"},
     HIGH_FRAUD_PROBABILITY |-> Contact \cup {"paymentRequestCreate"},
     IDENTITY_UNDER_REVIEW |-> {"paymentRequestCreate", "directRing"},
     RATE_LIMITED |-> Calls]

\* applyRiskOverlay; RATE_LIMITED limits text messages.
Risked(base, signals) ==
    IF key \in System /\ base = Allow THEN base
    ELSE IF \E s \in signals : key \in Cut[s] THEN Deny
    ELSE IF "RATE_LIMITED" \in signals /\ key = "textSend" THEN Lower(base, AllowWithLimits)
    ELSE base

-----------------------------------------------------------------------------
Advance(from, to) ==
    /\ stage = from /\ stage' = to
    /\ UNCHANGED <<key, trust, partner, template>>

\* applyIdentityTypeBehavior: the source's behaviour, then that of the pair.
IdentityLayer(source, pair) ==
    /\ Advance("identity", "relationship")
    /\ effect' = Behaved(Behaved(effect, source), pair)
    /\ UNCHANGED overridden

\* applyRelationshipBehavior
RelationshipLayer(adjustment) ==
    /\ Advance("relationship", "trust")
    /\ effect' = Behaved(effect, adjustment)
    /\ UNCHANGED overridden

\* applyTrustStateAdjustment
TrustLayer ==
    /\ Advance("trust", "override")
    /\ effect' = Trusted(effect)
    /\ UNCHANGED overridden

\* applyManualOverrides
OverrideLayer(override) ==
    /\ Advance("override", "risk")
    /\ effect' = Overriding(effect, override)
    /\ overridden' = (override # NoChange)

\* The overlay, with at most one signal besides the derived ones: only the most restrictive
\* of several would show.  A caller may ask to leave it out.
RiskLayer ==
    /\ Advance("risk", "resolved")
    /\ \/ \E preview \in {{}} \cup {{s} : s \in Signals} :
              effect' = Risked(effect, Derived \cup preview)
       \/ UNCHANGED effect
    /\ UNCHANGED overridden

Init ==
    /\ key \in Keys /\ trust \in TrustStates /\ partner \in BOOLEAN
    /\ template \in Effects /\ effect = template
    /\ stage = "identity" /\ overridden = FALSE

Next ==
    \/ \E s, p \in Effects \cup {NoChange} : IdentityLayer(s, p)
    \/ \E a \in Effects \cup {NoChange} : RelationshipLayer(a) \/ OverrideLayer(a)
    \/ TrustLayer \/ RiskLayer

Spec == Init /\ [][Next]_vars

-----------------------------------------------------------------------------
\* Every variable has its type.
TypeOK ==
    /\ key \in Keys /\ trust \in TrustStates /\ partner \in BOOLEAN
    /\ template \in Effects /\ effect \in Effects
    /\ stage \in Stages /\ overridden \in BOOLEAN

\* Behind the trust layer, whoever is blocked is denied the hard-denied permissions, whatever
\* template, behaviours and override say, and with or without the risk overlay.
BlockedIsDenied ==
    trust = "BLOCKED" /\ key \in HardDenied /\ stage \in {"override", "risk", "resolved"}
        => effect = Deny

\* What the template denies of sealed permissions only an override grants, and under the
\* couple.partner template nothing does.
SealedStaysDenied ==
    key \in Sealed /\ template = Deny /\ effect # Deny => overridden /\ ~partner

\* Blocking and reporting stay allowed through every layer.
SystemStaysAllowed == key \in System /\ template = Allow => effect = Allow

\* The guardrails of five layers, written in five files, agree from the template to the end.
Guardrails == BlockedIsDenied /\ SealedStaysDenied /\ SystemStaysAllowed
=============================================================================
