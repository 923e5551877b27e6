---------------------------- MODULE QueryService ----------------------------
(***************************************************************************)
(* What the logging service promises a caller, with no dual read in it:    *)
(* the backend is chosen once, every request is answered by that backend,  *)
(* the caller receives exactly that answer, cost reports are refused when  *)
(* the chosen backend is OpenSearch, and every request is answered.        *)
(* DualRead is shown to implement this specification.                      *)
(***************************************************************************)
EXTENDS TelemetryResults

CONSTANT Requests

VARIABLES
    backend,     \* the backend selected at construction
    aPc,         \* aPc[r]: idle, calling, answered or returned
    aOp,         \* aOp[r]: the operation request r asked for
    answer,      \* answer[r]: what the selected backend answered
    answeredBy,  \* answeredBy[r]: the backend that produced answer[r]
    response     \* response[r]: what the caller of request r received

avars == <<backend, aPc, aOp, answer, answeredBy, response>>

\* The answers the selected backend b may give to operation o.
Allowed(o, b) ==
    CASE o \in LogScopes \cup {"traces"} -> QueryOutcomes
      [] o = "health"                   -> CallOutcomes
      [] o = "cost"                     -> IF b = ClickStack THEN CallOutcomes
                                                             ELSE {ConfigErr}

Init ==
    /\ backend \in {ClickStack, OpenSearch}
    /\ aPc = [r \in Requests |-> "idle"]
    /\ aOp = [r \in Requests |-> None]
    /\ answer = [r \in Requests |-> None]
    /\ answeredBy = [r \in Requests |-> None]
    /\ response = [r \in Requests |-> None]

Start(r, o) ==
    /\ aPc[r] = "idle"
    /\ aPc' = [aPc EXCEPT ![r] = "calling"]
    /\ aOp' = [aOp EXCEPT ![r] = o]
    /\ UNCHANGED <<backend, answer, answeredBy, response>>

Answer(r) ==
    /\ aPc[r] = "calling"
    /\ \E a \in Allowed(aOp[r], backend) : answer' = [answer EXCEPT ![r] = a]
    /\ answeredBy' = [answeredBy EXCEPT ![r] = backend]
    /\ aPc' = [aPc EXCEPT ![r] = "answered"]
    /\ UNCHANGED <<backend, aOp, response>>

Return(r) ==
    /\ aPc[r] = "answered"
    /\ response' = [response EXCEPT ![r] = answer[r]]
    /\ aPc' = [aPc EXCEPT ![r] = "returned"]
    /\ UNCHANGED <<backend, aOp, answer, answeredBy>>

Recycle(r) ==
    /\ aPc[r] = "returned"
    /\ aPc' = [aPc EXCEPT ![r] = "idle"]
    /\ aOp' = [aOp EXCEPT ![r] = None]
    /\ answer' = [answer EXCEPT ![r] = None]
    /\ answeredBy' = [answeredBy EXCEPT ![r] = None]
    /\ response' = [response EXCEPT ![r] = None]
    /\ UNCHANGED backend

Next ==
    \E r \in Requests :
        \/ \E o \in Ops : Start(r, o)
        \/ Answer(r)
        \/ Return(r)
        \/ Recycle(r)

\* A started request is always answered and returned.
Spec ==
    /\ Init /\ [][Next]_avars
    /\ \A r \in Requests : WF_avars(Answer(r)) /\ WF_avars(Return(r))
=============================================================================
