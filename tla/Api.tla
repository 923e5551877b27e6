-------------------------------- MODULE Api --------------------------------
(***************************************************************************)
(* The HTTP API with the HyperDX signer behind it: the handlers (Handlers) *)
(* serve one request at a time, and a link request the handler answers     *)
(* with 200 is one the service passed to HyperDXSigner.Generate            *)
(* (LinkSigner) with the request's path and params                         *)
(* (LoggingService.GenerateHyperDXLink).  Time passes between requests.    *)
(***************************************************************************)
CONSTANTS
    TimeTexts, Parsed, Instants, ZeroInstant, ParseError, IDs, SortOrders, Limits, Upper,
    Alphabet, Paths, ParamKeys, ParamVals, Expires, Signature, TTL, MaxTime,
    None

VARIABLES
    endpoint, req, query, called, cause, status,   \* Handlers
    now, link                                       \* LinkSigner

handlerVars == <<endpoint, req, query, called, cause, status>>
signerVars == <<now, link>>
apiVars == <<handlerVars, signerVars>>

H == INSTANCE Handlers
LS == INSTANCE LinkSigner

ApiInit == H!Init /\ LS!Init

\* A request to any endpoint but the link endpoint, or the reset after one.
OtherRequest ==
    /\ H!Next
    /\ endpoint' # "hyperdx"
    /\ UNCHANGED signerVars

\* POST /api/hyperdx/link: when the handler answers 200 the signer has
\* generated the link it returns.
LinkRequest ==
    \E bound, blankPath \in BOOLEAN, key, baseURL \in {"", "set"} :
        /\ H!GenerateHyperDXLink(bound, blankPath, key, baseURL)
        /\ IF status' = 200
           THEN \E path \in Paths, params \in LS!CallerMaps : LS!Generate(path, params)
           ELSE UNCHANGED signerVars

\* A second passes.
ApiTick == LS!Tick /\ UNCHANGED handlerVars

ApiNext == OtherRequest \/ LinkRequest \/ ApiTick

ApiSpec == ApiInit /\ [][ApiNext]_apiVars

-----------------------------------------------------------------------------
\* The handlers' and the signer's types.
TypeOK == H!TypeOK /\ LS!TypeOK

\* Signer: a link the endpoint returned for parameters without a
\* "signature" key verifies until its TTL has passed.
IssuedLinkVerifies == LS!IssuedLinkVerifies

\* Signer: no link verifies beyond TTL seconds after it was generated,
\* whatever expires value the caller put in params.
ValidityBoundedByTTL == LS!ValidityBoundedByTTL

\* Signer: changing the path or a parameter of a link invalidates it.
TamperEvident == LS!TamperEvident
====
