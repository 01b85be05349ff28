-------------------------------- MODULE Transport --------------------------------
(***************************************************************************)
(* The remote git operations of internal/clients/git/git.go and the lock   *)
(* they take, transportMu.  go-git has two process-global variables: the   *)
(* transport registry, of which only the https entry is ever replaced, and *)
(* transport.UnsupportedCapabilities.  An operation with a usable git      *)
(* cookie installs its own https client; a clone from a server that needs  *)
(* the capability workaround assigns the capability list.  Both hold       *)
(* transportMu exclusively; every other operation shares it.               *)
(*                                                                         *)
(* sync.RWMutex is modelled as Go implements it: a writer first takes the  *)
(* mutex between writers and announces itself, which parks every reader    *)
(* that arrives from then on, waits for the readers inside to leave, and   *)
(* on Unlock admits all the parked readers at once.                        *)
(***************************************************************************)
EXTENDS Naturals

CONSTANTS Proc,    \* goroutines that reconcile Repos and LocalResources
          NoProc,  \* nobody holds the mutex between writers
          NoOp,    \* the goroutine is in no remote operation
          Cookie,  \* the git cookies with the seven fields of a usable one
          Op       \* the remote operations called, see OpType

Default == "default"    \* githttp.DefaultClient, and go-git's own capability list
ThinPack == "thinpack"  \* the capability list of the Azure DevOps workaround

(* cookie: "none" or "short" when cookieJarClient finds nothing usable;    *)
(* azure: the URL is of dev.azure.com; unsupported: the field of the same  *)
(* name of CloneOptions, which only a clone has.                           *)
OpType == [kind : {"list", "history", "clone", "push", "pull"},
           cookie : Cookie \union {"none", "short"},
           azure : BOOLEAN,
           unsupported : BOOLEAN]

ASSUME ConstantsAssumption ==
          /\ NoProc \notin Proc
          /\ NoOp \notin Op
          /\ Op \subseteq OpType

VARIABLES client,  \* the https entry of the registry
          caps,    \* transport.UnsupportedCapabilities
          readers, \* goroutines holding transportMu.RLock
          writer,  \* the goroutine that holds the mutex between writers
          pc, op,  \* where each goroutine is, and the operation it is in
          saved,   \* oldUnsupportedCaps, local to the operation
          left     \* sessions the operation still has to open

vars == <<client, caps, readers, writer, pc, op, saved, left>>

----------------------------------------------------------------------------------
(* What an operation asks of the globals.                                  *)

HasClient(o) == o.cookie \in Cookie

\* The workaround is applied by clones that ask for it and, on Azure DevOps, by
\* every clone of a branch or of its history.
AssignsCaps(o) == \/ o.kind = "clone" /\ (o.unsupported \/ o.azure)
                  \/ o.kind = "history" /\ o.azure

\* Mutant: a history check that forgets to tell lockTransport.
MutatesGlobalsOnlyOnClone(o) == o.kind = "clone" /\ AssignsCaps(o)

\* The argument each caller passes to lockTransport.
MutatesGlobals(o) == AssignsCaps(o)

Shared(o) == ~HasClient(o) /\ ~MutatesGlobals(o)

Settings(o) == [client |-> IF HasClient(o) THEN o.cookie ELSE Default,
                caps |-> IF AssignsCaps(o) THEN ThinPack ELSE Default]

\* A clone looks the branch up on the remote, then clones: two sessions.
Sessions(o) == IF o.kind = "clone" THEN 2 ELSE 1

----------------------------------------------------------------------------------
(* Program counters.                                                       *)

Waiting == {"acquire", "parked", "drain"}
Inside == {"install", "setCaps", "ready", "session", "restoreCaps", "restoreClient", "unlock"}
PC == {"idle"} \union Waiting \union Inside

Goto(p, l) == pc' = [pc EXCEPT ![p] = l]

Init == /\ client = Default
        /\ caps = Default
        /\ readers = {}
        /\ writer = NoProc
        /\ pc = [p \in Proc |-> "idle"]
        /\ op = [p \in Proc |-> NoOp]
        /\ saved = [p \in Proc |-> Default]
        /\ left = [p \in Proc |-> 0]

Call(p) == /\ pc[p] = "idle"
           /\ \E o \in Op : /\ op' = [op EXCEPT ![p] = o]
                            /\ left' = [left EXCEPT ![p] = Sessions(o)]
           /\ Goto(p, "acquire")
           /\ UNCHANGED <<client, caps, readers, writer, saved>>

\* transportMu.RLock: admitted at once unless a writer has announced itself.
RLock(p) == /\ pc[p] = "acquire"
            /\ Shared(op[p])
            /\ IF writer = NoProc
                 THEN readers' = readers \union {p} /\ Goto(p, "setCaps")
                 ELSE UNCHANGED readers /\ Goto(p, "parked")
            /\ UNCHANGED <<client, caps, writer, op, saved, left>>

\* transportMu.Lock, first half: the mutex between writers, and the announcement.
Announce(p) == /\ pc[p] = "acquire"
               /\ ~Shared(op[p])
               /\ writer = NoProc
               /\ writer' = p
               /\ Goto(p, "drain")
               /\ UNCHANGED <<client, caps, readers, op, saved, left>>

\* transportMu.Lock, second half: the readers that were inside have left.
Drain(p) == /\ pc[p] = "drain"
            /\ readers = {}
            /\ Goto(p, "install")
            /\ UNCHANGED <<client, caps, readers, writer, op, saved, left>>

\* Mutant: a writer without a usable cookie installs the client it has not got.
InstallUnchecked(p) == /\ pc[p] = "install"
                       /\ client' = op[p].cookie
                       /\ Goto(p, "setCaps")
                       /\ UNCHANGED <<caps, readers, writer, op, saved, left>>

\* The rest of lockTransport: gitclient.InstallProtocol when there is a cookie.
Install(p) == /\ pc[p] = "install"
              /\ client' = IF HasClient(op[p]) THEN op[p].cookie ELSE client
              /\ Goto(p, "setCaps")
              /\ UNCHANGED <<caps, readers, writer, op, saved, left>>

\* The capability workaround: remember the old list, assign the short one.
SetCaps(p) == /\ pc[p] = "setCaps"
              /\ IF AssignsCaps(op[p])
                   THEN /\ saved' = [saved EXCEPT ![p] = caps]
                        /\ caps' = ThinPack
                   ELSE UNCHANGED <<saved, caps>>
              /\ Goto(p, "ready")
              /\ UNCHANGED <<client, readers, writer, op, left>>

\* Mutant: the branch lookup of a clone takes the lock again.
OpenSessionRelocking(p) == /\ pc[p] = "ready"
                           /\ left[p] = 2 => writer = NoProc
                           /\ Goto(p, "session")
                           /\ left' = [left EXCEPT ![p] = @ - 1]
                           /\ UNCHANGED <<client, caps, readers, writer, op, saved>>

\* go-git reads the registry and the capability list during the whole session.
OpenSession(p) == /\ pc[p] = "ready"
                  /\ Goto(p, "session")
                  /\ left' = [left EXCEPT ![p] = @ - 1]
                  /\ UNCHANGED <<client, caps, readers, writer, op, saved>>

\* Mutant: an error return that runs no defers but the Unlock.
CloseSessionBare(p) == /\ pc[p] = "session"
                       /\ \/ left[p] > 0 /\ Goto(p, "ready")
                          \/ Goto(p, "unlock")
                       /\ UNCHANGED <<client, caps, readers, writer, op, saved, left>>

(* The session ends, well or badly.  A clone whose branch lookup ended     *)
(* well goes on to clone; everything else returns through its defers,      *)
(* which run in the opposite order of their statements.                    *)
CloseSession(p) == /\ pc[p] = "session"
                   /\ \/ left[p] > 0 /\ Goto(p, "ready")
                      \/ Goto(p, "restoreCaps")
                   /\ UNCHANGED <<client, caps, readers, writer, op, saved, left>>

\* Mutant: the capability list is leaked to every later clone.
RestoreCapsNever(p) == /\ pc[p] = "restoreCaps"
                       /\ Goto(p, "restoreClient")
                       /\ UNCHANGED <<client, caps, readers, writer, op, saved, left>>

RestoreCaps(p) == /\ pc[p] = "restoreCaps"
                  /\ caps' = IF AssignsCaps(op[p]) THEN saved[p] ELSE caps
                  /\ Goto(p, "restoreClient")
                  /\ UNCHANGED <<client, readers, writer, op, saved, left>>

\* Mutant: the release function only unlocks.
RestoreClientNever(p) == /\ pc[p] = "restoreClient"
                         /\ Goto(p, "unlock")
                         /\ UNCHANGED <<client, caps, readers, writer, op, saved, left>>

\* The release function of lockTransport, up to its Unlock.
RestoreClient(p) == /\ pc[p] = "restoreClient"
                    /\ client' = IF HasClient(op[p]) THEN Default ELSE client
                    /\ Goto(p, "unlock")
                    /\ UNCHANGED <<caps, readers, writer, op, saved, left>>

Leave(p) == /\ op' = [op EXCEPT ![p] = NoOp]
            /\ left' = [left EXCEPT ![p] = 0]
            /\ saved' = [saved EXCEPT ![p] = Default]
            /\ UNCHANGED <<client, caps>>

RUnlock(p) == /\ pc[p] = "unlock"
              /\ p \in readers
              /\ readers' = readers \ {p}
              /\ Goto(p, "idle")
              /\ Leave(p)
              /\ UNCHANGED writer

\* Unlock admits every parked reader before it lets the next writer in.
Unlock(p) == /\ pc[p] = "unlock"
             /\ writer = p
             /\ writer' = NoProc
             /\ LET parked == {q \in Proc : pc[q] = "parked"} IN
                  /\ readers' = readers \union parked
                  /\ pc' = [q \in Proc |-> IF q = p THEN "idle"
                                           ELSE IF q \in parked THEN "setCaps" ELSE pc[q]]
             /\ Leave(p)

Step(p) == \/ RLock(p) \/ Announce(p) \/ Drain(p)
           \/ Install(p) \/ SetCaps(p)
           \/ OpenSession(p) \/ CloseSession(p)
           \/ RestoreCaps(p) \/ RestoreClient(p)
           \/ RUnlock(p) \/ Unlock(p)

Next == \E p \in Proc : Call(p) \/ Step(p)

Spec == Init /\ [][Next]_vars

(* A goroutine that can go on does: the Go scheduler is fair, and a        *)
(* session ends (the code sets no deadline of its own on one, so this is   *)
(* an assumption on the servers).  The mutex between writers is handed     *)
(* over in arrival order once a waiter has starved for a millisecond,      *)
(* hence strong fairness for Announce.                                     *)
Fairness == \A p \in Proc : WF_vars(Step(p)) /\ SF_vars(Announce(p))

FairSpec == Spec /\ Fairness

----------------------------------------------------------------------------------
(* Properties.                                                             *)

\* Every variable has its type.
TypeOK == /\ client \in Cookie \union {Default}
          /\ caps \in {Default, ThinPack}
          /\ readers \subseteq Proc
          /\ writer \in Proc \union {NoProc}
          /\ pc \in [Proc -> PC]
          /\ op \in [Proc -> Op \union {NoOp}]
          /\ \A p \in Proc : op[p] = NoOp <=> pc[p] = "idle"
          /\ saved \in [Proc -> {Default, ThinPack}]
          /\ left \in [Proc -> 0..2]

\* Goroutine p is at a statement that writes one of go-git's globals.
Writes(p) == \/ pc[p] \in {"install", "restoreClient"} /\ HasClient(op[p])
             \/ pc[p] \in {"setCaps", "restoreCaps"} /\ AssignsCaps(op[p])

(* A goroutine at a statement that writes a go-git global is the only one  *)
(* inside a remote operation: the registry map is never written while      *)
(* another goroutine reads it, which the Go runtime answers by killing the *)
(* process.                                                                *)
NoRegistryRace == \A p, q \in Proc : Writes(p) /\ pc[q] \in Inside => p = q

(* For as long as a session is open the globals hold what its operation    *)
(* asked for: no session is sent with another operation's cookie, or with  *)
(* the capability list left behind by another clone.                       *)
OwnSettings == \A p \in Proc : pc[p] = "session" =>
                  [client |-> client, caps |-> caps] = Settings(op[p])

(* When nobody holds transportMu exclusively, both globals are what go-git *)
(* ships: no exit of an operation, a failing one included, leaks its       *)
(* settings to later operations.                                           *)
DefaultsRestored == writer = NoProc => client = Default /\ caps = Default

(* Every caller of a remote operation gets the lock and returns, whatever  *)
(* readers and writers keep arriving: in particular the clone that looks   *)
(* its branch up while it holds the lock does not wait for itself.         *)
EveryCallReturns == \A p \in Proc : pc[p] # "idle" ~> pc[p] = "idle"

\* The globals a session sees are the settings the abstract session was opened with.
Abstract == INSTANCE TransportSpec
              WITH SettingsOf <- Settings,
                   calling <- op,
                   session <- [p \in Proc |->
                                 IF pc[p] = "session"
                                   THEN {[client |-> client, caps |-> caps]}
                                   ELSE {}]

\* The operations under the lock implement operations on globals of their own.
ImplementsAbstract == Abstract!Spec
==================================================================================
