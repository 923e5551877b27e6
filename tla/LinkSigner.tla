----------------------------- MODULE LinkSigner -----------------------------
(***************************************************************************)
(* HyperDXSigner of internal/observer/service/hyperdx.go: Generate builds  *)
(* url.Values from the caller's map, sets "expires", signs the canonical   *)
(* string path|k=v|... (keys sorted) and sets "signature".                 *)
(* Strings are sequences of characters, so that the canonical string is    *)
(* built by what the code concatenates.  HMAC-SHA256 under the secret key  *)
(* is a value [mac |-> c] nobody without the key can compute: a forger can *)
(* only reuse the signature of a link it was given.  url.Values.Encode and *)
(* the verifier's url.ParseQuery round-trip every key and value, so a link *)
(* is kept as its path and its value map.  The verifier is HyperDX's; it   *)
(* is not in this repository and is modelled from the spec (4.6).          *)
(***************************************************************************)
EXTENDS Integers, Sequences, SequencesExt, FiniteSets, Functions

CONSTANTS
    Alphabet,   \* the characters used, in byte order
    Paths,      \* paths callers pass to Generate
    ParamKeys,  \* keys of the caller's parameter map
    ParamVals,  \* values of the caller's parameter map
    Expires,    \* the key "expires"
    Signature,  \* the key "signature"
    TTL,        \* HyperDXSigner.ttl, in seconds
    MaxTime,    \* last Unix second the model's clock reaches
    None

VARIABLES
    now,   \* time.Now().Unix()
    link   \* the last link Generate returned, or None

vars == <<now, link>>

Ord(c) == CHOOSE i \in DOMAIN Alphabet : Alphabet[i] = c

\* Go's string < (sort.Strings): byte-wise lexicographic order.
RECURSIVE StrLess(_, _)
StrLess(a, b) ==
    IF b = <<>> THEN FALSE
    ELSE IF a = <<>> THEN TRUE
    ELSE IF Head(a) # Head(b) THEN Ord(Head(a)) < Ord(Head(b))
    ELSE StrLess(Tail(a), Tail(b))

Digits == <<"0", "1", "2", "3", "4", "5", "6", "7", "8", "9">>

\* fmt.Sprintf("%d", n) for n >= 0.
RECURSIVE FormatInt(_)
FormatInt(n) ==
    IF n < 10 THEN <<Digits[n + 1]>>
    ELSE FormatInt(n \div 10) \o <<Digits[(n % 10) + 1]>>

\* The verifier's strconv.ParseInt: a number, or -1 for malformed text.
RECURSIVE ParseDigits(_, _)
ParseDigits(s, acc) ==
    IF s = <<>> THEN acc
    ELSE IF \E d \in 1..10 : Digits[d] = Head(s)
         THEN ParseDigits(Tail(s), 10 * acc + (CHOOSE d \in 1..10 : Digits[d] = Head(s)) - 1)
         ELSE -1
ParseInt(s) == IF s = <<>> THEN -1 ELSE ParseDigits(s, 0)

Sign(c) == [mac |-> c]

\* Mutant: the canonical string without the values.
CanonicalKeysOnly(path, values) ==
    LET keys == SetToSortSeq(DOMAIN values, StrLess)
    IN  path \o FlattenSeq([i \in DOMAIN keys |-> <<"|">> \o keys[i]])

\* sign: the path, then "|k=v" for every key in sorted order.
Canonical(path, values) ==
    LET keys == SetToSortSeq(DOMAIN values, StrLess)
    IN  path \o FlattenSeq([i \in DOMAIN keys |->
                              <<"|">> \o keys[i] \o <<"=">> \o values[keys[i]]])

\* url.Values.Set(k, v) on a single-valued map.
Set(values, k, v) == [x \in DOMAIN values \cup {k} |-> IF x = k THEN v ELSE values[x]]

NormalizePath(p) == IF p # <<>> /\ Head(p) = "/" THEN p ELSE <<"/">> \o p

CallerMaps == UNION {[S -> ParamVals] : S \in SUBSET ParamKeys}

Init ==
    /\ now = 0
    /\ link = None

Tick ==
    /\ now < MaxTime
    /\ now' = now + 1
    /\ UNCHANGED link

\* Mutant: expires never set.
GenerateNoExpires(path, params) ==
    LET p == NormalizePath(path)
        sig == Sign(Canonical(p, params))
    IN  /\ link' = [path |-> p, params |-> Restrict(params, DOMAIN params \ {Signature}),
                    sig |-> sig, issuedAt |-> now]
        /\ UNCHANGED now

\* Mutant: the signature computed before expires is set.
GenerateSignsBeforeExpires(path, params) ==
    LET p == NormalizePath(path)
        qp == Set(params, Expires, FormatInt(now + TTL))
        sig == Sign(Canonical(p, params))
    IN  /\ link' = [path |-> p, params |-> Restrict(qp, DOMAIN qp \ {Signature}),
                    sig |-> sig, issuedAt |-> now]
        /\ UNCHANGED now

\* Mutant: "expires" set before the caller's parameters are copied.
GenerateExpiresFirst(path, params) ==
    LET p == NormalizePath(path)
        qp == [k \in DOMAIN params \cup {Expires} |->
                 IF k \in DOMAIN params THEN params[k] ELSE FormatInt(now + TTL)]
        sig == Sign(Canonical(p, qp))
    IN  /\ link' = [path |-> p, params |-> Restrict(qp, DOMAIN qp \ {Signature}),
                    sig |-> sig, issuedAt |-> now]
        /\ UNCHANGED now

\* Generate: normalise the path, copy the caller's parameters, set
\* expires = now + ttl, sign, set signature (replacing a caller's one).
Generate(path, params) ==
    LET p == NormalizePath(path)
        qp == Set(params, Expires, FormatInt(now + TTL))
        sig == Sign(Canonical(p, qp))
    IN  /\ link' = [path |-> p, params |-> Restrict(qp, DOMAIN qp \ {Signature}),
                    sig |-> sig, issuedAt |-> now]
        /\ UNCHANGED now

Next ==
    \/ Tick
    \/ \E path \in Paths, params \in CallerMaps : Generate(path, params)

Spec == Init /\ [][Next]_vars

-----------------------------------------------------------------------------
\* HyperDX's check of a link at time t (spec 4.6): the signature matches
\* the canonical string of the path and the parameters other than
\* signature, and expires is a number not yet passed.
Accepts(l, t) ==
    /\ l.sig = Sign(Canonical(l.path, l.params))
    /\ Expires \in DOMAIN l.params
    /\ t <= ParseInt(l.params[Expires])

TypeOK ==
    /\ now \in 0..MaxTime
    /\ link = None \/ (link.issuedAt \in 0..now /\ Expires \in DOMAIN link.params
                       /\ Signature \notin DOMAIN link.params)

\* A link Generate returned for caller parameters without a "signature"
\* key is accepted by the verifier until its TTL has passed: the signature
\* the code sets is the one over the parameters the link carries.  (A
\* caller "signature" key is not covered: ParamKeys leaves it out, and such
\* a link would not verify.)
IssuedLinkVerifies ==
    link # None /\ now <= link.issuedAt + TTL => Accepts(link, now)

\* Whatever expires value the caller passes, a link is accepted at no time
\* after TTL seconds from when it was generated.
ValidityBoundedByTTL ==
    link # None =>
        \A t \in 0..(MaxTime + TTL) : Accepts(link, t) => t <= link.issuedAt + TTL

\* Changing the path or any parameter of a generated link while keeping its
\* signature makes the verifier reject it (spec 8: altering any parameter
\* value after signing invalidates verification).
TamperEvident ==
    link # None =>
        \A path \in {NormalizePath(p) : p \in Paths}, m \in CallerMaps :
            LET forged == [path |-> path, params |-> Set(m, Expires, link.params[Expires]),
                           sig |-> link.sig, issuedAt |-> link.issuedAt]
            IN  Accepts(forged, now) => forged.path = link.path /\ forged.params = link.params
=============================================================================
