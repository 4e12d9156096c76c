--------------------------- MODULE QuickConnectQr ---------------------------
(***************************************************************************)
(* One quick connect QR token and the scanners that redeem it at the same  *)
(* time: QrService.connectQuickConnectQr over the QRAccessToken row.       *)
(*                                                                         *)
(* A scan reads the token first and consumes a use later, with a           *)
(* conditional updateMany that repeats the token's conditions and holds    *)
(* the token's row lock until its transaction ends; everything the         *)
(* transaction did is undone when the scanner already has a contact.  The  *)
(* expiry that assertResolvableToken writes before it throws is undone in  *)
(* the same way, so a refused scan changes nothing.                        *)
(*                                                                         *)
(* A statement that fails aborts a PostgreSQL transaction even when the    *)
(* code catches its error: the statements after it fail, and COMMIT rolls  *)
(* back without an error.                                                  *)
(***************************************************************************)
EXTENDS Integers, FiniteSets

CONSTANTS
    Handlers,   \* scans being served concurrently
    Scanners,   \* personas that scan the token
    MaxUses,    \* the token's maxUses, or Unlimited
    EndsAt,     \* the token's endsAt; it starts at time 0
    Duration,   \* how long a scanner's access lasts
    MaxTime     \* bound of the clock

Unlimited == -1

ASSUME QrAssumption ==
    /\ MaxUses \in (Nat \ {0}) \cup {Unlimited}
    /\ EndsAt \in Nat /\ Duration \in Nat /\ MaxTime \in Nat

VARIABLES
    token,    \* the token's status and usedCount
    access,   \* when each scanner's instant access ends, or NoAccess
    op,       \* what each scan has read
    now,      \* the clock
    connects, \* history: connections made through the token
    unstored  \* history: scanners answered "connected" by a scan that stored nothing

vars == <<token, access, op, now, connects, unstored>>

NoAccess == -1
Idle == [kind |-> "idle"]
Scan == [kind : {"scanning"}, by : Scanners, at : Nat, used : Nat]

\* Every variable has its type, and what a scan has read is no newer than the token.
TypeOK ==
    /\ token \in [status : {"active", "expired"}, used : Nat]
    /\ access \in [Scanners -> Nat \cup {NoAccess}]
    /\ op \in [Handlers -> Scan \cup {Idle}]
    /\ \A h \in Handlers : op[h] # Idle => op[h].at <= now /\ op[h].used <= token.used
    /\ now \in Nat
    /\ connects \in Nat
    /\ unstored \subseteq Scanners

-----------------------------------------------------------------------------
\* Mutant of Spent: the token is spent one use too early.
SpentEarly(used) == MaxUses # Unlimited /\ used + 1 >= MaxUses

Spent(used) == MaxUses # Unlimited /\ used >= MaxUses

\* Mutants of Resolvable: the uses are not checked when one is taken; and the token
\* still resolves at its end.
ResolvableSpent(t) == token.status = "active" /\ t < EndsAt
ResolvableAtEnd(t) == token.status = "active" /\ t <= EndsAt /\ ~Spent(token.used)

\* assertResolvableToken at time t; it throws otherwise.
Resolvable(t) ==
    /\ token.status = "active"
    /\ t < EndsAt
    /\ ~Spent(token.used)

\* createOrRefreshInstantAccessRelationship refuses a scanner whose access is open.
HasContact(s) == access[s] # NoAccess /\ access[s] >= now

ScanBegin(h, s) ==
    /\ op[h] = Idle
    /\ Resolvable(now)
    /\ op' = [op EXCEPT ![h] =
                  [kind |-> "scanning", by |-> s, at |-> now, used |-> token.used]]
    /\ UNCHANGED <<token, access, now, connects, unstored>>

\* The consuming updateMany, the relationship, and the expiry of a token whose last
\* use, by the count this scan read at its start, has just been taken.
ScanCommit(h) ==
    LET scan == op[h]
    IN  /\ scan.kind = "scanning"
        /\ Resolvable(scan.at)
        /\ access[scan.by] = NoAccess
        /\ token' = [status |-> IF Spent(scan.used + 1) THEN "expired" ELSE token.status,
                     used |-> token.used + 1]
        /\ access' = [access EXCEPT ![scan.by] = scan.at + Duration]
        /\ connects' = connects + 1
        /\ op' = [op EXCEPT ![h] = Idle]
        /\ UNCHANGED <<now, unstored>>

\* A scanner whose access has lapsed: the row is refreshed, but its CONTACT_CREATED
\* event is there already, so that tracking it again violates the unique index of
\* AnalyticsEvent.  trackSafe and createSafe swallow this error and the next; only
\* the expiry of the token, on its last use, lets one out.  Nothing is stored.
ScanAgain(h) ==
    LET scan == op[h]
    IN  /\ scan.kind = "scanning"
        /\ Resolvable(scan.at)
        /\ access[scan.by] # NoAccess /\ ~HasContact(scan.by)
        /\ ~Spent(scan.used + 1)
        /\ unstored' = unstored \cup {scan.by}
        /\ op' = [op EXCEPT ![h] = Idle]
        /\ UNCHANGED <<token, access, now, connects>>

\* A refused or broken scan: its transaction is rolled back.
Abort(h) ==
    /\ op[h] # Idle
    /\ op' = [op EXCEPT ![h] = Idle]
    /\ UNCHANGED <<token, access, now, connects, unstored>>

Tick ==
    /\ now < MaxTime
    /\ now' = now + 1
    /\ UNCHANGED <<token, access, op, connects, unstored>>

Init ==
    /\ token = [status |-> "active", used |-> 0]
    /\ access = [s \in Scanners |-> NoAccess]
    /\ op = [h \in Handlers |-> Idle]
    /\ now = 0
    /\ connects = 0
    /\ unstored = {}

ScanStep(h) ==
    (\E s \in Scanners : ScanBegin(h, s)) \/ ScanCommit(h) \/ ScanAgain(h) \/ Abort(h)

Next ==
    \/ \E h \in Handlers : ScanStep(h)
    \/ Tick

Spec == Init /\ [][Next]_vars

-----------------------------------------------------------------------------
\* However many scans race for the last use, a limited token makes at most MaxUses
\* connections, and no use is lost to a scan that failed after it.
UsesAreConnections ==
    /\ token.used = connects
    /\ MaxUses # Unlimited => connects <= MaxUses

\* A token is only ever retired by its uses, never by one scan too early, although a
\* scan decides by the count it read before others took theirs.
RetiredOnlyWhenSpent ==
    token.status = "expired" => MaxUses # Unlimited /\ token.used >= MaxUses

\* A connection gives access for no longer than Duration after the scan began, and
\* never begins once the token has ended.
AccessStartsInWindow ==
    \A s \in Scanners : access[s] # NoAccess => access[s] < EndsAt + Duration

\* The answer `status: "connected"`: a scan that returns it has made a connection.
ConnectedIsStored == unstored = {}
=============================================================================
