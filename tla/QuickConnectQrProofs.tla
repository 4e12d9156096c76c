------------------------ MODULE QuickConnectQrProofs ------------------------
(***************************************************************************)
(* Theorems about QuickConnectQr, for any number of scans and scanners and *)
(* any limit and end of the token.  The invariants are inductive together: *)
(* retiring a token by the count a scan read is right only because that    *)
(* count is no newer than the token's, which TypeOK says.                  *)
(***************************************************************************)
EXTENDS QuickConnectQr, TLAPS

IInv == TypeOK /\ UsesAreConnections /\ RetiredOnlyWhenSpent /\ AccessStartsInWindow

LEMMA InitIInv ==
    ASSUME Init
    PROVE  IInv
  <1>1. TypeOK
    BY DEF Init, TypeOK, NoAccess, Idle
  <1>2. UsesAreConnections
    BY QrAssumption DEF Init, UsesAreConnections, Unlimited
  <1> QED
    BY <1>1, <1>2 DEF Init, IInv, RetiredOnlyWhenSpent, AccessStartsInWindow, NoAccess

LEMMA BeginKeeps ==
    ASSUME IInv, NEW h \in Handlers, NEW s \in Scanners, ScanBegin(h, s)
    PROVE  IInv'
  <1> DEFINE scan == [kind |-> "scanning", by |-> s, at |-> now, used |-> token.used]
  <1>1. scan \in Scan /\ scan.at <= now /\ scan.used <= token.used
    BY DEF IInv, TypeOK, Scan
  <1>2. op' = [op EXCEPT ![h] = scan] /\ UNCHANGED <<token, access, now, connects, unstored>>
    BY DEF ScanBegin
  <1>3. /\ op' \in [Handlers -> Scan \cup {Idle}]
        /\ \A g \in Handlers : op'[g] = IF g = h THEN scan ELSE op[g]
    BY <1>1, <1>2 DEF IInv, TypeOK
  <1>4. TypeOK'
    BY <1>1, <1>2, <1>3 DEF IInv, TypeOK
  <1> QED
    BY <1>2, <1>4 DEF IInv, UsesAreConnections, RetiredOnlyWhenSpent, AccessStartsInWindow

\* A scan that ends and stores nothing.
LEMMA EndKeeps ==
    ASSUME IInv, NEW h \in Handlers, op' = [op EXCEPT ![h] = Idle],
           unstored' \subseteq Scanners, UNCHANGED <<token, access, now, connects>>
    PROVE  IInv'
  <1>1. /\ op' \in [Handlers -> Scan \cup {Idle}]
        /\ \A g \in Handlers : op'[g] # Idle => op'[g] = op[g]
    BY DEF IInv, TypeOK
  <1>2. TypeOK'
    BY <1>1 DEF IInv, TypeOK
  <1> QED
    BY <1>2 DEF IInv, UsesAreConnections, RetiredOnlyWhenSpent, AccessStartsInWindow

LEMMA CommitKeeps ==
    ASSUME IInv, NEW h \in Handlers, ScanCommit(h)
    PROVE  IInv'
  <1> DEFINE scan == op[h]
  <1>0. TypeOK
    BY DEF IInv
  <1>1. scan \in Scan /\ scan.at <= now /\ scan.used <= token.used
    BY <1>0 DEF ScanCommit, TypeOK, Scan, Idle
  <1>2. scan.by \in Scanners /\ scan.at \in Nat /\ scan.used \in Nat /\ token.used \in Nat
    BY <1>0, <1>1 DEF Scan, TypeOK
  <1>3. /\ token'.used = token.used + 1
        /\ token'.status = IF Spent(scan.used + 1) THEN "expired" ELSE token.status
        /\ token' \in [status : {"active", "expired"}, used : Nat]
    BY <1>0, <1>2 DEF ScanCommit, TypeOK
  <1>4. /\ access' \in [Scanners -> Nat \cup {NoAccess}]
        /\ access'[scan.by] = scan.at + Duration
        /\ \A s \in Scanners \ {scan.by} : access'[s] = access[s]
    BY <1>0, <1>2, QrAssumption DEF ScanCommit, TypeOK
  <1>5. /\ op' \in [Handlers -> Scan \cup {Idle}]
        /\ \A g \in Handlers : op'[g] # Idle => op'[g] = op[g]
    BY <1>0 DEF ScanCommit, TypeOK
  <1>6. connects' = connects + 1 /\ UNCHANGED <<now, unstored>>
    BY DEF ScanCommit
  <1>7. TypeOK'
    <2>1. \A g \in Handlers : op'[g] # Idle => op'[g].at <= now /\ op'[g].used <= token'.used
      <3> SUFFICES ASSUME NEW g \in Handlers, op'[g] # Idle
                   PROVE  op'[g].at <= now /\ op'[g].used <= token'.used
        OBVIOUS
      <3>1. op'[g] \in Scan /\ op'[g].at <= now /\ op'[g].used <= token.used
        BY <1>0, <1>5 DEF TypeOK
      <3> QED
        BY <1>2, <1>3, <3>1 DEF Scan
    <2> QED
      BY <1>0, <1>3, <1>4, <1>5, <1>6, <2>1 DEF TypeOK
  <1>8. UsesAreConnections'
    <2>1. MaxUses # Unlimited => token.used < MaxUses
      BY <1>2, QrAssumption DEF ScanCommit, Resolvable, Spent
    <2> QED
      BY <1>0, <1>2, <1>3, <1>6, <2>1, QrAssumption DEF IInv, UsesAreConnections, TypeOK
  <1>9. RetiredOnlyWhenSpent'
    <2>1. token.status = "active"
      BY DEF ScanCommit, Resolvable
    <2>2. token'.status = "expired" => MaxUses # Unlimited /\ scan.used + 1 >= MaxUses
      BY <1>3, <2>1 DEF Spent
    <2> QED
      BY <1>1, <1>2, <1>3, <2>2, QrAssumption DEF RetiredOnlyWhenSpent
  <1>10. AccessStartsInWindow'
    <2>1. scan.at + Duration < EndsAt + Duration
      BY <1>2, QrAssumption DEF ScanCommit, Resolvable
    <2> QED
      BY <1>4, <2>1 DEF IInv, AccessStartsInWindow
  <1> QED
    BY <1>7, <1>8, <1>9, <1>10 DEF IInv

LEMMA NextIInv ==
    ASSUME IInv, [Next]_vars
    PROVE  IInv'
  <1>1. ASSUME NEW h \in Handlers, ScanAgain(h) \/ Abort(h)
        PROVE  IInv'
    <2>1. CASE ScanAgain(h)
      <3>1. op[h].by \in Scanners
        BY <2>1 DEF ScanAgain, IInv, TypeOK, Scan, Idle
      <3> QED
        BY <2>1, <3>1, EndKeeps DEF ScanAgain, IInv, TypeOK
    <2>2. CASE Abort(h)
      BY <2>2, EndKeeps DEF Abort, IInv, TypeOK
    <2> QED
      BY <1>1, <2>1, <2>2
  <1>2. CASE Tick
    <2>1. TypeOK'
      BY <1>2 DEF Tick, IInv, TypeOK, Scan
    <2> QED
      BY <1>2, <2>1
      DEF Tick, IInv, UsesAreConnections, RetiredOnlyWhenSpent, AccessStartsInWindow
  <1>3. CASE UNCHANGED vars
    BY <1>3 DEF vars, IInv, TypeOK, UsesAreConnections, RetiredOnlyWhenSpent,
                AccessStartsInWindow
  <1> QED
    BY <1>1, <1>2, <1>3, BeginKeeps, CommitKeeps DEF Next, ScanStep

\* The three invariants hold in every reachable state, with the types they need.
THEOREM InductiveInvariant == Spec => []IInv
  <1>1. Init => IInv
    BY InitIInv
  <1>2. IInv /\ [Next]_vars => IInv'
    BY NextIInv
  <1> QED
    BY <1>1, <1>2, PTL DEF Spec

\* However many scans race for the last use, a limited token never makes more than
\* MaxUses connections, and each use it counts is a connection.
THEOREM UsesCounted == Spec => []UsesAreConnections
  <1>1. IInv => UsesAreConnections
    BY DEF IInv
  <1> QED
    BY <1>1, InductiveInvariant, PTL

\* A scan retires the token by the count it read at its start, and still no token is
\* retired before its last use is taken.
THEOREM RetiredInTime == Spec => []RetiredOnlyWhenSpent
  <1>1. IInv => RetiredOnlyWhenSpent
    BY DEF IInv
  <1> QED
    BY <1>1, InductiveInvariant, PTL

\* No access begins after the token's end, however late its scan commits.
THEOREM AccessInWindow == Spec => []AccessStartsInWindow
  <1>1. IInv => AccessStartsInWindow
    BY DEF IInv
  <1> QED
    BY <1>1, InductiveInvariant, PTL
=============================================================================
