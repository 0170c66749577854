------------------------ MODULE AbstractStateMachine ------------------------
(***************************************************************************)
(* What a document of an FSMService promises its clients, without handlers,*)
(* queues, timers or restarts:                                             *)
(*                                                                         *)
(*   - it is created in a state, and from then on its state changes only   *)
(*     along an edge of the configured graph, one request at a time;       *)
(*   - a request takes effect at most once;                                *)
(*   - a request is answered with success only after it took effect, and a *)
(*     request that is refused has not taken effect and never will.        *)
(***************************************************************************)
EXTENDS Naturals

CONSTANTS
    Request,   \* identities of the patches sent to the document
    Edge,      \* the <<source, trigger, destination>> triples of the graph
    Start,     \* states a document may be created in
    Nowhere    \* the state of a document that does not exist yet

VARIABLES
    state,     \* state of the document
    applied,   \* requests that took effect
    granted,   \* requests answered with success
    refused    \* requests answered with failure

avars == <<state, applied, granted, refused>>

AInit ==
    /\ state = Nowhere
    /\ applied = {}
    /\ granted = {}
    /\ refused = {}

ACreate ==
    /\ state = Nowhere
    /\ state' \in Start
    /\ UNCHANGED <<applied, granted, refused>>

AApply(r) ==
    /\ r \notin applied \cup refused
    /\ \E e \in Edge : e[1] = state /\ state' = e[3]
    /\ applied' = applied \cup {r}
    /\ UNCHANGED <<granted, refused>>

AGrant(r) ==
    /\ r \in applied \ granted
    /\ granted' = granted \cup {r}
    /\ UNCHANGED <<state, applied, refused>>

ARefuse(r) ==
    /\ r \notin applied
    /\ refused' = refused \cup {r}
    /\ UNCHANGED <<state, applied, granted>>

ANext ==
    \/ ACreate
    \/ \E r \in Request : AApply(r) \/ AGrant(r) \/ ARefuse(r)

ASpec == AInit /\ [][ANext]_avars
=============================================================================
