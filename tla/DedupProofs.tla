---------------------------- MODULE DedupProofs ----------------------------
(***************************************************************************)
(* Proofs about the deduplicator, for any number of callers and keys, any  *)
(* window and any bound on the wait for the mutex.                         *)
(***************************************************************************)
EXTENDS Dedup, TLAPS

(***************************************************************************)
(* isDuplicate answers false only when the abstract limiter may grant: the *)
(* key was never granted, or its window (less the lag) is over.            *)
(***************************************************************************)
LEMMA AcceptIsDue ==
    ASSUME IInv, NEW h \in Handlers, Accept(h)
    PROVE  Limiter!Due(arg[h])
<1> DEFINE k == arg[h]
<1>1. /\ k \in Keys /\ now[h] \in Nat /\ now[h] <= clock
      /\ Window \in Nat /\ MaxLag \in Nat /\ clock \in Nat /\ Never \notin Int
  BY DedupAssumption DEF IInv, TypeOK, CallersHaveKeys, WaitersAreRecent, Accept
<1>2. CASE seen[k] = Never
  BY <1>1, <1>2 DEF IInv, ForgottenIsDue, Limiter!Due
<1>3. CASE seen[k] # Never
  <2>1. /\ seen[k] \in Nat
        /\ grantedAt[k] \in Nat
        /\ grantedAt[k] - seen[k] <= MaxLag
    BY <1>1, <1>3 DEF IInv, TypeOK, RecordMatchesGrant
  <2>2. \/ clock - seen[k] >= Window
        \/ now[h] - seen[k] >= Window
    BY <1>1, <1>3, <2>1 DEF Accept, Duplicate, Purged, Expired
  <2> QED BY <1>1, <2>1, <2>2 DEF Limiter!Due
<1> QED BY <1>2, <1>3

(***************************************************************************)
(* The inductive invariant holds initially and is preserved by every step. *)
(***************************************************************************)
LEMMA InitIInv == Init => IInv
BY DedupAssumption DEF Init, IInv, TypeOK, CallersHaveKeys, WaitersAreRecent,
                       RecordMatchesGrant,
                       ForgottenIsDue

LEMMA TickIInv == IInv /\ Tick => IInv'
BY DedupAssumption DEF Tick, IInv, TypeOK, CallersHaveKeys, WaitersAreRecent,
                       RecordMatchesGrant,
                       ForgottenIsDue

LEMMA EnterIInv ==
    ASSUME IInv, NEW h \in Handlers, NEW k \in Keys, Enter(h, k)
    PROVE  IInv'
<1>1. TypeOK'
  BY DEF Enter, IInv, TypeOK
<1>2. CallersHaveKeys' /\ WaitersAreRecent'
  BY DedupAssumption DEF Enter, IInv, TypeOK, CallersHaveKeys, WaitersAreRecent
<1>3. RecordMatchesGrant' /\ ForgottenIsDue'
  BY DEF Enter, IInv, RecordMatchesGrant, ForgottenIsDue
<1> QED BY <1>1, <1>2, <1>3 DEF IInv

(***************************************************************************)
(* Purging alone keeps the records consistent: what it forgets is due.     *)
(***************************************************************************)
LEMMA PurgedIsConsistent ==
    ASSUME IInv, NEW k \in Keys
    PROVE  /\ Purged \in [Keys -> Nat \cup {Never}]
           /\ Purged[k] # Never => Purged[k] = seen[k]
           /\ Purged[k] = Never =>
                \/ grantedAt[k] = Never
                \/ clock - grantedAt[k] >= Window - MaxLag
<1>1. Purged \in [Keys -> Nat \cup {Never}]
  BY DEF Purged, IInv, TypeOK
<1>2. Purged[k] # Never => Purged[k] = seen[k]
  BY DEF Purged
<1>3. ASSUME Purged[k] = Never
      PROVE  \/ grantedAt[k] = Never
             \/ clock - grantedAt[k] >= Window - MaxLag
  <2>1. CASE seen[k] = Never
    BY <2>1 DEF IInv, ForgottenIsDue
  <2>2. CASE seen[k] # Never
    <3>1. /\ seen[k] \in Nat /\ grantedAt[k] \in Nat
          /\ grantedAt[k] - seen[k] <= MaxLag
          /\ clock \in Nat /\ Window \in Nat /\ MaxLag \in Nat
      BY <2>2, DedupAssumption DEF IInv, TypeOK, RecordMatchesGrant
    <3>2. clock - seen[k] >= Window
      BY <1>3, <2>2 DEF Purged, Expired
    <3> QED BY <3>1, <3>2
  <2> QED BY <2>1, <2>2
<1> QED BY <1>1, <1>2, <1>3

LEMMA SuppressIInv ==
    ASSUME IInv, NEW h \in Handlers, Suppress(h)
    PROVE  IInv'
<1>1. TypeOK'
  <2>1. seen' \in [Keys -> Nat \cup {Never}]
    BY DEF Suppress, Purged, IInv, TypeOK
  <2> QED BY <2>1 DEF Suppress, IInv, TypeOK
<1>2. CallersHaveKeys' /\ WaitersAreRecent'
  BY DEF Suppress, IInv, TypeOK, CallersHaveKeys, WaitersAreRecent
<1>3. RecordMatchesGrant'
  BY PurgedIsConsistent DEF Suppress, IInv, RecordMatchesGrant
<1>4. ForgottenIsDue'
  BY PurgedIsConsistent DEF Suppress, ForgottenIsDue
<1> QED BY <1>1, <1>2, <1>3, <1>4 DEF IInv

LEMMA AcceptIInv ==
    ASSUME IInv, NEW h \in Handlers, Accept(h)
    PROVE  IInv'
<1>1. /\ arg[h] \in Keys /\ now[h] \in Nat /\ now[h] <= clock
      /\ clock - now[h] <= MaxLag /\ clock \in Nat /\ MaxLag \in Nat
      /\ Never \notin Int
  BY DedupAssumption DEF IInv, TypeOK, CallersHaveKeys, WaitersAreRecent, Accept
<1>2. TypeOK'
  <2>1. seen' \in [Keys -> Nat \cup {Never}]
    BY <1>1 DEF Accept, Purged, IInv, TypeOK
  <2> QED BY <1>1, <2>1 DEF Accept, IInv, TypeOK
<1>3. CallersHaveKeys' /\ WaitersAreRecent'
  BY DEF Accept, IInv, TypeOK, CallersHaveKeys, WaitersAreRecent
<1>4. ASSUME NEW k \in Keys
      PROVE  /\ k = arg[h] => seen'[k] = now[h] /\ grantedAt'[k] = clock
             /\ k # arg[h] =>
                    seen'[k] = Purged[k] /\ grantedAt'[k] = grantedAt[k]
  BY <1>1, PurgedIsConsistent DEF Accept, IInv, TypeOK
<1>5. RecordMatchesGrant'
  BY <1>1, <1>4, PurgedIsConsistent DEF Accept, IInv, RecordMatchesGrant
<1>6. ForgottenIsDue'
  BY <1>1, <1>4, PurgedIsConsistent DEF Accept, ForgottenIsDue
<1> QED BY <1>2, <1>3, <1>5, <1>6 DEF IInv

LEMMA LeaveIInv ==
    ASSUME IInv, NEW h \in Handlers, Leave(h)
    PROVE  IInv'
BY DEF Leave, IInv, TypeOK, CallersHaveKeys, WaitersAreRecent,
       RecordMatchesGrant, ForgottenIsDue

LEMMA StutterIInv == IInv /\ UNCHANGED vars => IInv'
BY DEF vars, IInv, TypeOK, CallersHaveKeys, WaitersAreRecent,
       RecordMatchesGrant, ForgottenIsDue

(***************************************************************************)
(* The deduplicator's state is always consistent: waiting callers hold a   *)
(* recent clock reading, records lag grants by at most MaxLag, and a key    *)
(* absent from the map is due (dedup.go:29-57).                            *)
(***************************************************************************)
THEOREM Consistent == Spec => []IInv
<1>1. IInv /\ [Next]_vars => IInv'
  BY TickIInv, EnterIInv, SuppressIInv, AcceptIInv, LeaveIInv, StutterIInv
     DEF Next
<1> QED BY InitIInv, <1>1, PTL DEF Spec

(***************************************************************************)
(* A failure is suppressed only within the window that its last grant      *)
(* opened; duplicates do not extend the window (dedup.go:51-53).           *)
(***************************************************************************)
THEOREM SuppressionEnds == Spec => SuppressedOnlyWithinWindow
<1>1. ASSUME IInv, NEW h \in Handlers, Suppress(h)
      PROVE  /\ grantedAt[arg[h]] # Never
             /\ clock - grantedAt[arg[h]] < Window
  <2> DEFINE k == arg[h]
  <2>1. /\ k \in Keys /\ Purged[k] # Never /\ seen[k] # Never
        /\ ~Expired(k)
    BY <1>1 DEF Suppress, Duplicate, Purged, IInv, CallersHaveKeys,
                WaitersAreRecent
  <2>2. clock - seen[k] < Window
    BY <1>1, <2>1, DedupAssumption DEF Expired, IInv, TypeOK
  <2>3. /\ seen[k] \in Nat /\ grantedAt[k] \in Nat /\ seen[k] <= grantedAt[k]
        /\ clock \in Nat /\ Window \in Nat /\ Never \notin Int
    BY <1>1, <2>1, DedupAssumption DEF IInv, TypeOK, RecordMatchesGrant
  <2> QED BY <2>2, <2>3
<1>2. IInv => [\A h \in Handlers : Suppress(h) =>
                /\ grantedAt[arg[h]] # Never
                /\ clock - grantedAt[arg[h]] < Window]_vars
  BY <1>1
<1> QED BY Consistent, <1>2, PTL DEF SuppressedOnlyWithinWindow

(***************************************************************************)
(* The deduplicator implements the abstract rate limiter: concurrent       *)
(* callers together are granted a key at most once per window, less the    *)
(* longest wait for the mutex (dedup.go:40-57).                            *)
(***************************************************************************)
THEOREM ImplementsRateLimit == Spec => RateLimited
<1>1. Init => Limiter!Init
  BY DEF Init, Limiter!Init
<1>2. IInv /\ [Next]_vars => [Limiter!Next]_(Limiter!vars)
  <2> SUFFICES ASSUME IInv, [Next]_vars
               PROVE  [Limiter!Next]_(Limiter!vars)
    OBVIOUS
  <2>1. CASE Tick
    BY <2>1 DEF Tick, Limiter!Tick, Limiter!Next
  <2>2. ASSUME NEW h \in Handlers, Accept(h)
        PROVE  Limiter!Next
    <3>1. arg[h] \in Keys
      BY <2>2 DEF Accept, IInv, CallersHaveKeys, WaitersAreRecent
    <3>2. Limiter!Grant(arg[h])
      BY <2>2, AcceptIsDue DEF Accept, Limiter!Grant
    <3> QED BY <3>1, <3>2 DEF Limiter!Next
  <2>3. ASSUME NEW h \in Handlers,
               \/ \E k \in Keys : Enter(h, k)
               \/ Suppress(h)
               \/ Leave(h)
        PROVE  UNCHANGED Limiter!vars
    BY <2>3 DEF Enter, Suppress, Leave, Limiter!vars
  <2>4. CASE UNCHANGED vars
    BY <2>4 DEF vars, Limiter!vars
  <2> QED BY <2>1, <2>2, <2>3, <2>4 DEF Next
<1> QED BY <1>1, <1>2, Consistent, PTL DEF Spec, RateLimited, Limiter!Spec

(***************************************************************************)
(* The deduplicator implements the untimed suppression window that the     *)
(* model of the watcher is built on (dedup.go:40-57).                      *)
(***************************************************************************)
THEOREM ImplementsWindows == Spec => WindowsRespected
<1>1. Init => Windows!Init
  BY DEF Init, Windows!Init, OpenKeys, Held
<1>2. IInv /\ [Next]_vars => [Windows!Next]_(Windows!vars)
  <2> SUFFICES ASSUME IInv, [Next]_vars
               PROVE  [Windows!Next]_(Windows!vars)
    OBVIOUS
  <2>1. CASE Tick
    <3> DEFINE S == OpenKeys \ OpenKeys'
    <3>1. OpenKeys' = OpenKeys \ S
      BY <2>1, DedupAssumption DEF Tick, OpenKeys, IInv, TypeOK
    <3>2. S \in SUBSET Keys /\ S \subseteq OpenKeys
      BY DEF OpenKeys
    <3>3. Windows!Expire(S)
      BY <2>1, <3>1, <3>2 DEF Windows!Expire, Held, Tick
    <3> QED BY <3>2, <3>3 DEF Windows!Next
  <2>2. ASSUME NEW h \in Handlers, Accept(h)
        PROVE  Windows!Next
    <3> DEFINE k == arg[h]
    <3>1. /\ k \in Keys /\ now[h] \in Nat /\ now[h] <= clock /\ clock \in Nat
          /\ clock - now[h] < Window /\ Window \in Nat /\ Never \notin Int
      BY <2>2, DedupAssumption DEF Accept, IInv, TypeOK, CallersHaveKeys,
                                   WaitersAreRecent
    <3>2. k \notin OpenKeys
      BY <2>2, <3>1 DEF Accept, Duplicate, Purged, Expired, OpenKeys, IInv,
                        TypeOK
    <3>3. k \in OpenKeys'
      BY <2>2, <3>1 DEF Accept, OpenKeys, Purged
    <3>4. ASSUME NEW j \in Keys, j # k
          PROVE  j \in OpenKeys' <=> j \in OpenKeys
      BY <2>2, <3>1, <3>4, DedupAssumption DEF Accept, OpenKeys, Purged,
                                               Expired, IInv, TypeOK
    <3>5. OpenKeys' = OpenKeys \cup {k}
      BY <3>1, <3>3, <3>4 DEF OpenKeys
    <3>6. Held' = [Held EXCEPT ![h] = k] /\ Held[h] = Never
      BY <2>2 DEF Accept, Held, IInv, TypeOK
    <3> QED BY <3>1, <3>2, <3>5, <3>6 DEF Windows!Grant, Windows!Next
  <2>3. ASSUME NEW h \in Handlers, Leave(h)
        PROVE  Windows!Next
    <3>1. UNCHANGED OpenKeys
      BY <2>3 DEF Leave, OpenKeys
    <3>2. /\ Held' = [Held EXCEPT ![h] = Never]
          /\ Held[h] = arg[h] /\ arg[h] \in Keys
      BY <2>3 DEF Leave, Held, IInv, TypeOK, CallersHaveKeys
    <3>3. arg[h] # Never
      BY <3>2, DedupAssumption
    <3> QED BY <3>1, <3>2, <3>3 DEF Windows!Release, Windows!Next
  <2>4. ASSUME NEW h \in Handlers,
               Suppress(h) \/ \E k \in Keys : Enter(h, k)
        PROVE  UNCHANGED Windows!vars
    <3>1. UNCHANGED OpenKeys
      BY <2>4, DedupAssumption DEF Suppress, Enter, OpenKeys, Purged, Expired,
                                   IInv, TypeOK
    <3>2. UNCHANGED Held
      BY <2>4 DEF Suppress, Enter, Held, IInv, TypeOK
    <3> QED BY <3>1, <3>2 DEF Windows!vars
  <2>5. CASE UNCHANGED vars
    BY <2>5 DEF vars, OpenKeys, Held, Windows!vars
  <2> QED BY <2>1, <2>2, <2>3, <2>4, <2>5 DEF Next
<1> QED BY <1>1, <1>2, Consistent, PTL DEF Spec, WindowsRespected, Windows!Spec
=============================================================================
