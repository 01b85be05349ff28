------------------------------ MODULE TransportSpec ------------------------------
(***************************************************************************)
(* What transportMu promises to the callers of a remote git operation      *)
(* (internal/clients/git/git.go): go-git keeps the https client and the    *)
(* capability list in process-global variables, yet every session an       *)
(* operation opens runs, from its first to its last byte, with the client  *)
(* and the capabilities of that operation, as if the globals were its own. *)
(***************************************************************************)
CONSTANTS Proc,          \* the goroutines of the provider's reconcilers
          Op,            \* the remote operations they call
          NoOp,          \* no operation in progress
          SettingsOf(_)  \* the client and capabilities an operation asks for

VARIABLES calling,  \* calling[p]: the operation p is in, or NoOp
          session   \* session[p]: the settings p's open session runs with, {} when it has none

vars == <<calling, session>>

Init == /\ calling = [p \in Proc |-> NoOp]
        /\ session = [p \in Proc |-> {}]

Call(p) == /\ calling[p] = NoOp
           /\ \E o \in Op : calling' = [calling EXCEPT ![p] = o]
           /\ UNCHANGED session

\* A session is opened with the settings of the operation that opens it ...
Open(p) == /\ calling[p] \in Op
           /\ session[p] = {}
           /\ session' = [session EXCEPT ![p] = {SettingsOf(calling[p])}]
           /\ UNCHANGED calling

\* ... and keeps them until it is closed: no other step changes session[p].
Close(p) == /\ session[p] # {}
            /\ session' = [session EXCEPT ![p] = {}]
            /\ UNCHANGED calling

Return(p) == /\ calling[p] \in Op
             /\ session[p] = {}
             /\ calling' = [calling EXCEPT ![p] = NoOp]
             /\ UNCHANGED session

Next == \E p \in Proc : Call(p) \/ Open(p) \/ Close(p) \/ Return(p)

Spec == Init /\ [][Next]_vars
==================================================================================
