----------------------------- MODULE TransportProofs -----------------------------
(***************************************************************************)
(* Proofs about Transport, for any number of goroutines, cookies and       *)
(* operations.  TypeOK alone does not carry the safety properties: what    *)
(* carries them is LockInv, which ties each program counter to its part of *)
(* the lock, and GlobalsInv, which says what the two globals hold at each  *)
(* point of the one operation that may have changed them.                  *)
(***************************************************************************)
EXTENDS Transport, TLAPS

\* Goroutine p is past transportMu.Lock and before transportMu.Unlock.
Exclusive(p) == pc[p] \in Inside /\ ~Shared(op[p])

LockInv ==
  /\ \A p \in Proc : p \in readers <=> pc[p] \in Inside /\ Shared(op[p])
  /\ \A p \in Proc : writer = p <=> pc[p] = "drain" \/ Exclusive(p)
  /\ \A p \in Proc : Exclusive(p) => readers = {}
  /\ \A p \in Proc : pc[p] = "parked" => Shared(op[p])
  /\ \A p \in Proc : pc[p] \in {"drain", "install"} => ~Shared(op[p])

\* The goroutine holding the lock has installed its client, or its capabilities.
HasInstalled(p) == pc[p] \in {"setCaps", "ready", "session", "restoreCaps", "restoreClient"}
HasSetCaps(p) == pc[p] \in {"ready", "session", "restoreCaps"}

GlobalsInv ==
  /\ client = IF writer \in Proc /\ HasInstalled(writer)
                THEN Settings(op[writer]).client ELSE Default
  /\ caps = IF writer \in Proc /\ HasSetCaps(writer)
              THEN Settings(op[writer]).caps ELSE Default
  /\ \A p \in Proc : saved[p] = Default

\* An operation that has not opened its last session has one left to open.
LeftInv == \A p \in Proc : pc[p] \in Waiting \union {"install", "setCaps", "ready"}
                             => left[p] # 0

TypeInv == TypeOK /\ LeftInv

IInv == TypeInv /\ LockInv /\ GlobalsInv

----------------------------------------------------------------------------------
\* The initial states satisfy the invariant.
LEMMA InitIInv == Init => IInv
BY ConstantsAssumption
DEF Init, IInv, TypeInv, TypeOK, LeftInv, LockInv, GlobalsInv, PC, Waiting, Inside, Exclusive

\* Every step keeps the types.
LEMMA StepTypeInv == TypeInv /\ [Next]_vars => TypeInv'
<1> SUFFICES ASSUME TypeInv, [Next]_vars PROVE TypeInv'
  OBVIOUS
<1> USE ConstantsAssumption DEF TypeInv, TypeOK, LeftInv, PC, Waiting, Inside, Goto
<1>1. ASSUME NEW p \in Proc, Call(p) PROVE TypeInv'
  <2>1. PICK o \in Op : op' = [op EXCEPT ![p] = o] /\ left' = [left EXCEPT ![p] = Sessions(o)]
    BY <1>1 DEF Call
  <2>2. Sessions(o) \in 1..2
    BY DEF Sessions
  <2> QED BY <1>1, <2>1, <2>2 DEF Call
<1>2. ASSUME NEW p \in Proc, RLock(p) PROVE TypeInv'
  BY <1>2 DEF RLock
<1>3. ASSUME NEW p \in Proc, Announce(p) PROVE TypeInv'
  BY <1>3 DEF Announce
<1>4. ASSUME NEW p \in Proc, Drain(p) PROVE TypeInv'
  BY <1>4 DEF Drain
<1>5. ASSUME NEW p \in Proc, Install(p) PROVE TypeInv'
  BY <1>5 DEF Install, HasClient
<1>6. ASSUME NEW p \in Proc, SetCaps(p) PROVE TypeInv'
  BY <1>6 DEF SetCaps
<1>7. ASSUME NEW p \in Proc, OpenSession(p) PROVE TypeInv'
  BY <1>7 DEF OpenSession
<1>8. ASSUME NEW p \in Proc, CloseSession(p) PROVE TypeInv'
  BY <1>8 DEF CloseSession
<1>9. ASSUME NEW p \in Proc, RestoreCaps(p) PROVE TypeInv'
  BY <1>9 DEF RestoreCaps
<1>10. ASSUME NEW p \in Proc, RestoreClient(p) PROVE TypeInv'
  BY <1>10 DEF RestoreClient
<1>11. ASSUME NEW p \in Proc, RUnlock(p) PROVE TypeInv'
  BY <1>11 DEF RUnlock, Leave
<1>12. ASSUME NEW p \in Proc, Unlock(p) PROVE TypeInv'
  BY <1>12 DEF Unlock, Leave
<1>13. CASE UNCHANGED vars
  BY <1>13 DEF vars
<1> QED
  BY <1>1, <1>2, <1>3, <1>4, <1>5, <1>6, <1>7, <1>8, <1>9, <1>10, <1>11, <1>12, <1>13
  DEF Next, Step
----------------------------------------------------------------------------------
\* The lock is held by the goroutines whose program counter says so.
LEMMA StepLockInv == TypeInv /\ LockInv /\ [Next]_vars => LockInv'
<1> SUFFICES ASSUME TypeInv, LockInv, [Next]_vars PROVE LockInv'
  OBVIOUS
<1> USE ConstantsAssumption
    DEF TypeInv, TypeOK, LockInv, Exclusive, PC, Waiting, Inside, Goto
<1>1. ASSUME NEW p \in Proc, Call(p) PROVE LockInv'
  <2>1. PICK o \in Op : op' = [op EXCEPT ![p] = o]
    BY <1>1 DEF Call
  <2>2. /\ pc[p] = "idle"
        /\ pc' = [pc EXCEPT ![p] = "acquire"]
        /\ UNCHANGED <<readers, writer>>
    BY <1>1 DEF Call
  <2>3. \A q \in Proc : q # p => op'[q] = op[q] /\ pc'[q] = pc[q]
    BY <2>1, <2>2
  <2> QED BY <2>1, <2>2, <2>3 DEF Shared
<1>2. ASSUME NEW p \in Proc, RLock(p) PROVE LockInv'
  <2>1. CASE writer = NoProc
    BY <1>2, <2>1 DEF RLock, Shared
  <2>2. CASE writer # NoProc
    BY <1>2, <2>2 DEF RLock, Shared
  <2> QED BY <2>1, <2>2
<1>3. ASSUME NEW p \in Proc, Announce(p) PROVE LockInv'
  BY <1>3 DEF Announce
<1>4. ASSUME NEW p \in Proc, Drain(p) PROVE LockInv'
  BY <1>4 DEF Drain
<1>5. ASSUME NEW p \in Proc, Install(p) PROVE LockInv'
  BY <1>5 DEF Install
<1>6. ASSUME NEW p \in Proc, SetCaps(p) PROVE LockInv'
  BY <1>6 DEF SetCaps
<1>7. ASSUME NEW p \in Proc, OpenSession(p) PROVE LockInv'
  BY <1>7 DEF OpenSession
<1>8. ASSUME NEW p \in Proc, CloseSession(p) PROVE LockInv'
  BY <1>8 DEF CloseSession
<1>9. ASSUME NEW p \in Proc, RestoreCaps(p) PROVE LockInv'
  BY <1>9 DEF RestoreCaps
<1>10. ASSUME NEW p \in Proc, RestoreClient(p) PROVE LockInv'
  BY <1>10 DEF RestoreClient
<1>11. ASSUME NEW p \in Proc, RUnlock(p) PROVE LockInv'
  BY <1>11 DEF RUnlock, Leave
<1>12. ASSUME NEW p \in Proc, Unlock(p) PROVE LockInv'
  BY <1>12 DEF Unlock, Leave
<1>13. CASE UNCHANGED vars
  BY <1>13 DEF vars
<1> QED
  BY <1>1, <1>2, <1>3, <1>4, <1>5, <1>6, <1>7, <1>8, <1>9, <1>10, <1>11, <1>12, <1>13
  DEF Next, Step
----------------------------------------------------------------------------------
\* At most one goroutine has changed the globals, and it knows what they held.
LEMMA StepGlobalsInv == IInv /\ [Next]_vars => GlobalsInv'
<1> SUFFICES ASSUME IInv, [Next]_vars PROVE GlobalsInv'
  OBVIOUS
<1> USE ConstantsAssumption
    DEF IInv, TypeInv, TypeOK, LockInv, GlobalsInv, Exclusive, HasInstalled, HasSetCaps,
        PC, Waiting, Inside, Goto
<1>1. ASSUME NEW p \in Proc, Call(p) PROVE GlobalsInv'
  <2>1. PICK o \in Op : op' = [op EXCEPT ![p] = o]
    BY <1>1 DEF Call
  <2>2. /\ pc[p] = "idle"
        /\ pc' = [pc EXCEPT ![p] = "acquire"]
        /\ UNCHANGED <<client, caps, writer, saved>>
    BY <1>1 DEF Call
  <2>3. \A q \in Proc : q # p => op'[q] = op[q] /\ pc'[q] = pc[q]
    BY <2>1, <2>2
  <2>4. writer # p
    BY <2>2
  <2> QED BY <2>2, <2>3, <2>4
<1>2. ASSUME NEW p \in Proc, RLock(p) PROVE GlobalsInv'
  <2>1. CASE writer = NoProc
    BY <1>2, <2>1 DEF RLock, Shared
  <2>2. CASE writer # NoProc
    BY <1>2, <2>2 DEF RLock, Shared
  <2> QED BY <2>1, <2>2
<1>3. ASSUME NEW p \in Proc, Announce(p) PROVE GlobalsInv'
  BY <1>3 DEF Announce
<1>4. ASSUME NEW p \in Proc, Drain(p) PROVE GlobalsInv'
  BY <1>4 DEF Drain
<1>5. ASSUME NEW p \in Proc, Install(p) PROVE GlobalsInv'
  BY <1>5 DEF Install, Settings
<1>6. ASSUME NEW p \in Proc, SetCaps(p) PROVE GlobalsInv'
  <2>1. CASE AssignsCaps(op[p])
    <3>1. writer = p
      BY <1>6, <2>1 DEF SetCaps, Shared, MutatesGlobals
    <3> QED BY <1>6, <2>1, <3>1 DEF SetCaps, Settings
  <2>2. CASE ~AssignsCaps(op[p])
    BY <1>6, <2>2 DEF SetCaps, Settings
  <2> QED BY <2>1, <2>2
<1>7. ASSUME NEW p \in Proc, OpenSession(p) PROVE GlobalsInv'
  BY <1>7 DEF OpenSession
<1>8. ASSUME NEW p \in Proc, CloseSession(p) PROVE GlobalsInv'
  BY <1>8 DEF CloseSession
<1>9. ASSUME NEW p \in Proc, RestoreCaps(p) PROVE GlobalsInv'
  BY <1>9 DEF RestoreCaps, Settings
<1>10. ASSUME NEW p \in Proc, RestoreClient(p) PROVE GlobalsInv'
  BY <1>10 DEF RestoreClient, Settings
<1>11. ASSUME NEW p \in Proc, RUnlock(p) PROVE GlobalsInv'
  BY <1>11 DEF RUnlock, Leave
<1>12. ASSUME NEW p \in Proc, Unlock(p) PROVE GlobalsInv'
  BY <1>12 DEF Unlock, Leave
<1>13. CASE UNCHANGED vars
  BY <1>13 DEF vars
<1> QED
  BY <1>1, <1>2, <1>3, <1>4, <1>5, <1>6, <1>7, <1>8, <1>9, <1>10, <1>11, <1>12, <1>13
  DEF Next, Step

\* The invariant that carries all the safety properties below.
THEOREM Invariance == Spec => []IInv
<1>1. IInv /\ [Next]_vars => IInv'
  BY StepTypeInv, StepLockInv, StepGlobalsInv DEF IInv
<1> QED BY InitIInv, <1>1, PTL DEF Spec

\* Type correctness of the transport lock and the go-git globals.
THEOREM TypeCorrect == Spec => []TypeOK
<1>1. IInv => TypeOK
  BY DEF IInv, TypeInv
<1> QED BY Invariance, <1>1, PTL

(* The registry map and the capability list are never written while        *)
(* another goroutine is inside a remote operation.                         *)
THEOREM RegistryNeverRaces == Spec => []NoRegistryRace
<1>1. IInv => NoRegistryRace
  BY ConstantsAssumption
  DEF IInv, TypeInv, TypeOK, LockInv, NoRegistryRace, Exclusive, Writes, Inside, Shared, MutatesGlobals
<1> QED BY Invariance, <1>1, PTL

\* A shared session sees the defaults, an exclusive one what its operation assigned.
LEMMA InvariantOwnSettings == IInv => OwnSettings
<1>1. ASSUME IInv PROVE OwnSettings
  <2> SUFFICES ASSUME NEW p \in Proc, pc[p] = "session"
               PROVE  [client |-> client, caps |-> caps] = Settings(op[p])
    BY DEF OwnSettings
  <2>1. CASE Shared(op[p])
    <3>1. p \in readers
      BY <1>1, <2>1 DEF IInv, LockInv, Inside
    <3>2. ~(writer \in Proc /\ HasInstalled(writer)) /\ ~(writer \in Proc /\ HasSetCaps(writer))
      BY <1>1, <3>1 DEF IInv, TypeInv, TypeOK, LockInv, Exclusive, HasInstalled, HasSetCaps,
                        Inside
    <3>3. client = Default /\ caps = Default
      BY <1>1, <3>2 DEF IInv, GlobalsInv
    <3> QED BY <2>1, <3>3 DEF Settings, Shared, MutatesGlobals
  <2>2. CASE ~Shared(op[p])
    <3>1. writer = p
      BY <1>1, <2>2 DEF IInv, LockInv, Exclusive, Inside
    <3>2. client = Settings(op[p]).client /\ caps = Settings(op[p]).caps
      BY <1>1, <3>1 DEF IInv, GlobalsInv, HasInstalled, HasSetCaps
    <3> QED BY <3>2 DEF Settings
  <2> QED BY <2>1, <2>2
<1> QED BY <1>1

(* In every session the globals hold what the session's own operation      *)
(* asked for.                                                              *)
THEOREM SessionsUseOwnSettings == Spec => []OwnSettings
BY Invariance, InvariantOwnSettings, PTL

(* Whenever no operation holds the lock exclusively, the globals are       *)
(* go-git's own again.                                                     *)
THEOREM GlobalsAreRestored == Spec => []DefaultsRestored
<1>1. IInv => DefaultsRestored
  BY ConstantsAssumption DEF IInv, GlobalsInv, DefaultsRestored
<1> QED BY Invariance, <1>1, PTL
----------------------------------------------------------------------------------
(* The refinement.  By OwnSettings the session that the mapping reads off  *)
(* the globals is a function of the goroutine's own variables, so a step   *)
(* of one goroutine leaves the sessions of all the others alone, the steps *)
(* that write the globals included.                                        *)

MappedSession == [p \in Proc |-> IF pc[p] = "session"
                                   THEN {[client |-> client, caps |-> caps]} ELSE {}]

OwnSession == [p \in Proc |-> IF pc[p] = "session" THEN {Settings(op[p])} ELSE {}]

\* Under the invariant the mapped sessions are those the operations asked for.
LEMMA SessionsAreOwn == OwnSettings => MappedSession = OwnSession
BY DEF OwnSettings, MappedSession, OwnSession

\* A step of the operations under the lock is a step of the abstract ones, or a stutter.
LEMMA StepImplements ==
  IInv /\ IInv' /\ [Next]_vars => [Abstract!Next]_(Abstract!vars)
<1> SUFFICES ASSUME IInv, IInv', [Next]_vars PROVE [Abstract!Next]_(Abstract!vars)
  OBVIOUS
<1>1. OwnSettings /\ OwnSettings'
  BY InvariantOwnSettings, PTL
<1>2. MappedSession = OwnSession
  BY <1>1, SessionsAreOwn
<1>3. MappedSession' = OwnSession'
  BY <1>1 DEF OwnSettings, MappedSession, OwnSession
<1>4. /\ op \in [Proc -> Op \union {NoOp}]
      /\ \A p \in Proc : op[p] = NoOp <=> pc[p] = "idle"
      /\ NoOp \notin Op
      /\ pc \in [Proc -> PC]
  BY ConstantsAssumption DEF IInv, TypeInv, TypeOK
<1> HIDE DEF MappedSession
<1>5. SUFFICES \/ UNCHANGED <<op, MappedSession>>
               \/ \E p \in Proc :
                    \/ /\ op[p] = NoOp
                       /\ \E o \in Op : op' = [op EXCEPT ![p] = o]
                       /\ UNCHANGED MappedSession
                    \/ /\ op[p] \in Op
                       /\ MappedSession[p] = {}
                       /\ MappedSession' = [MappedSession EXCEPT ![p] = {Settings(op[p])}]
                       /\ UNCHANGED op
                    \/ /\ MappedSession[p] # {}
                       /\ MappedSession' = [MappedSession EXCEPT ![p] = {}]
                       /\ UNCHANGED op
                    \/ /\ op[p] \in Op
                       /\ MappedSession[p] = {}
                       /\ op' = [op EXCEPT ![p] = NoOp]
                       /\ UNCHANGED MappedSession
  BY DEF Abstract!Next, Abstract!vars, Abstract!Call, Abstract!Open, Abstract!Close,
         Abstract!Return, MappedSession
<1> USE <1>2, <1>3, <1>4 DEF OwnSession, Goto, PC, Waiting, Inside
<1>6. ASSUME NEW p \in Proc, Call(p) PROVE \E o \in Op : op' = [op EXCEPT ![p] = o]
  BY <1>6 DEF Call
<1>7. ASSUME NEW p \in Proc, Call(p) PROVE UNCHANGED MappedSession
  BY <1>7 DEF Call
<1>8. ASSUME NEW p \in Proc, OpenSession(p)
      PROVE MappedSession' = [MappedSession EXCEPT ![p] = {Settings(op[p])}]
  BY <1>8 DEF OpenSession
<1>9. ASSUME NEW p \in Proc, CloseSession(p)
      PROVE MappedSession' = [MappedSession EXCEPT ![p] = {}]
  BY <1>9 DEF CloseSession
<1>10. ASSUME NEW p \in Proc, RUnlock(p) \/ Unlock(p)
       PROVE op' = [op EXCEPT ![p] = NoOp] /\ UNCHANGED MappedSession
  <2>1. op' = [op EXCEPT ![p] = NoOp]
    BY <1>10 DEF RUnlock, Unlock, Leave
  <2>2. pc[p] = "unlock"
    BY <1>10 DEF RUnlock, Unlock
  <2>3. \A q \in Proc : pc'[q] = "session" <=> pc[q] = "session"
    <3>1. CASE RUnlock(p)
      BY <3>1 DEF RUnlock
    <3>2. CASE Unlock(p)
      BY <3>2 DEF Unlock
    <3> QED BY <1>10, <3>1, <3>2
  <2>4. \A q \in Proc : pc[q] = "session" => op'[q] = op[q]
    BY <2>1, <2>2
  <2>5. OwnSession' = OwnSession
    BY <2>3, <2>4
  <2> QED BY <2>1, <2>5
<1>11. ASSUME NEW p \in Proc, \/ RLock(p) \/ Announce(p) \/ Drain(p) \/ Install(p)
                              \/ SetCaps(p) \/ RestoreCaps(p) \/ RestoreClient(p)
       PROVE UNCHANGED <<op, MappedSession>>
  BY <1>11 DEF RLock, Announce, Drain, Install, SetCaps, RestoreCaps, RestoreClient
<1>12. CASE UNCHANGED vars
  BY <1>12 DEF vars
<1> QED
  BY <1>6, <1>7, <1>8, <1>9, <1>10, <1>11, <1>12
  DEF Next, Step, Call, OpenSession, CloseSession, RUnlock, Unlock

(* The operations that share go-git's globals under transportMu implement  *)
(* operations that each have globals of their own.                         *)
THEOREM TransportImplementsSpec == Spec => ImplementsAbstract
<1>1. Init => Abstract!Init
  BY DEF Init, Abstract!Init
<1> QED BY Invariance, <1>1, StepImplements, PTL DEF Spec, ImplementsAbstract, Abstract!Spec
==================================================================================
