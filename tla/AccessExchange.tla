--------------------------- MODULE AccessExchange ---------------------------
(***************************************************************************)
(* How a buyer obtains an API key from a seller's dispatcher over the      *)
(* relay: src/src/crypto/envelope.ts (requests "v1" and the envelope that  *)
(* answers them) and src/src/crypto/canonical.ts (requests "v2").          *)
(*                                                                         *)
(* The relay may lose, repeat, delay, damage and misdirect what it is      *)
(* given.  A verification reads the clock first and awaits the keys of the *)
(* other party then.  A store of seen nonces is the dispatcher's own: the  *)
(* SDK consults it for v1 requests, when the dispatcher passes one, and    *)
(* has none for v2 requests.                                               *)
(* Cryptography is ideal: a signature verifies against its signer's        *)
(* address and undamaged text only, a ciphertext opens with its own key.   *)
(***************************************************************************)
EXTENDS Integers, Sequences, FiniteSets

CONSTANTS
    Nonces, Sellers, None,
    Verifs,            \* verifications that dispatchers run
    Guarded,           \* the sellers whose dispatcher passes isReplay
    Cosigners,         \* the primary addresses of the buyer's identity
    MinimumSignatures, \* its minimumsignatures
    Signings,          \* who signs a request: sequences of cosigners
    maxAge,            \* DEFAULT_MAX_AGE_SECONDS
    CLOCK_SKEW, ACTION_MAX_WINDOW, MAX_TTL,
    TTLs,              \* ttlSeconds that a buyer asks for
    KeyLife,           \* how long a minted key is valid
    Skews,             \* by how much the buyer's clock is ahead
    MaxClock           \* bound of the time

ASSUME ExchangeAssumption ==
    /\ None \notin Nonces /\ Guarded \subseteq Sellers /\ MinimumSignatures \in Nat \ {0}
    /\ Signings \subseteq Seq(Cosigners)
    /\ maxAge \in Nat /\ CLOCK_SKEW \in Nat /\ ACTION_MAX_WINDOW \in Nat
    /\ MAX_TTL \in Nat /\ TTLs \subseteq Nat /\ KeyLife \in Nat /\ Skews \subseteq Int
    /\ MaxClock \in Nat

VARIABLES
    time, skew,   \* the sellers' clock, and the lead of the buyer's
    request,      \* request[n]: what the buyer signed with nonce n
    verif,        \* verif[v]: a verification, by the dispatcher of some seller,
                  \* and how many signatures it found the identity to need
    seen,         \* pairs of a seller and a nonce its dispatcher has recorded
    envelopes,    \* envelopes minted, in the order of minting
    opening       \* opening[n]: openAccessEnvelope() of the buyer for nonce n

exchangeVars == <<time, skew, request, verif, seen, envelopes, opening>>

Requests == [format : {"v1", "v2"}, buyer : {"R", "i"}, seller : Sellers,
             ts : Int, exp : Int, signed : Signings]
NoVerif == [phase |-> "idle", nonce |-> None, seller |-> None, damaged |-> FALSE,
            need |-> 0]
NoOpening == [phase |-> "idle", envelope |-> 0, damaged |-> FALSE]

ExchangeTypeOK ==
    /\ time \in 0 .. MaxClock /\ skew \in Skews
    /\ \A n \in Nonces : request[n] # None => request[n] \in Requests
    /\ \A v \in Verifs :
         /\ verif[v].phase \in {"idle", "keys", "replay", "verified", "minted", "refused"}
         /\ verif[v].phase # "idle" => request[verif[v].nonce] # None
    /\ seen \subseteq Sellers \X Nonces
    /\ \A e \in DOMAIN envelopes : envelopes[e].nonce \in Nonces
    /\ \A n \in Nonces : opening[n].envelope \in 0 .. Len(envelopes)

ExchangeInit ==
    /\ time = 0 /\ skew \in Skews
    /\ request = [n \in Nonces |-> None]
    /\ verif = [v \in Verifs |-> NoVerif]
    /\ seen = {} /\ envelopes = <<>>
    /\ opening = [n \in Nonces |-> NoOpening]

buyerClock == time + skew
Distance(a, b) == IF a > b THEN a - b ELSE b - a

-----------------------------------------------------------------------------
(* The buyer builds and signs a request *)

\* buildAccessRequest(): in the name of the buyer's address or identity, signed
\* by the key of that address.
buildAccessRequest(b, s, sigs) ==
    [format |-> "v1", buyer |-> b, seller |-> s, ts |-> buyerClock, exp |-> buyerClock,
     signed |-> sigs]

\* buildRequestAccessEnvelope(): the time to live is capped.
buildRequestAccessEnvelope(s, ttl, sigs) ==
    [format |-> "v2", buyer |-> "i", seller |-> s, ts |-> buyerClock,
     exp |-> buyerClock + (IF ttl < MAX_TTL THEN ttl ELSE MAX_TTL), signed |-> sigs]

\* validateEnvelope(): the window rules (the shape of what this buyer builds is
\* right: version, suite, action, parties, payload, nonce and dates).
validateEnvelope(r, now) ==
    /\ r.exp > r.ts /\ r.exp - r.ts <= ACTION_MAX_WINDOW
    /\ now <= r.exp + CLOCK_SKEW /\ r.ts <= now + CLOCK_SKEW

Build(n) ==
    /\ request[n] = None
    /\ \E s \in Sellers :
         \/ \E b \in {"R", "i"}, sigs \in Signings :
              /\ Len(sigs) = 1
              /\ request' = [request EXCEPT ![n] = buildAccessRequest(b, s, sigs)]
         \/ \E ttl \in TTLs, sigs \in Signings :
              LET r == buildRequestAccessEnvelope(s, ttl, sigs) IN
              /\ validateEnvelope(r, buyerClock) \* signCanonical() validates first
              /\ request' = [request EXCEPT ![n] = r]
    /\ UNCHANGED <<time, skew, verif, seen, envelopes, opening>>

-----------------------------------------------------------------------------
(* A dispatcher verifies a request and mints a key for it *)

Phase(v, p) == verif' = [verif EXCEPT ![v].phase = p]

\* The checks of verifyAccessRequest() and validateEnvelope() before any await.
InTime(r) == IF r.format = "v1" THEN Distance(time, r.ts) <= maxAge
                                ELSE validateEnvelope(r, time)

\* A copy of a request arrives, maybe at a seller that was not asked.
BeginVerify(v, n, s, damaged) ==
    /\ verif[v].phase = "idle" /\ request[n] # None
    /\ verif' = [verif EXCEPT ![v] =
                   [phase |-> IF InTime(request[n]) THEN "keys" ELSE "refused",
                    nonce |-> n, seller |-> s, damaged |-> damaged, need |-> 0]]
    /\ UNCHANGED <<time, skew, request, seen, envelopes, opening>>

\* The threshold is the identity's, or 1 when the answer about its keys has no
\* number, or none above zero (getIdentityKeys() does not check that field).
Thresholds == {MinimumSignatures, 1}

\* Each address counts once, whatever the number of its signatures.
verifyCanonicalSignatures(sigs, keys, need) ==
    Cardinality({a \in keys : \E i \in DOMAIN sigs : sigs[i] = a}) >= need

\* A v1 request in the name of an address is signed by it; in the name of an
\* identity by any of its primary addresses.
AnySignature(r, keys) ==
    r.buyer = "R" \/ \E i \in DOMAIN r.signed : r.signed[i] \in keys

\* Only verifyAccessRequest() has a replay guard, and it is optional.
HasGuard(v) == request[verif[v].nonce].format = "v1" /\ verif[v].seller \in Guarded

\* Mutant: the signature is not compared with the text that arrived.
KeysArrive_AnyText(v) ==
    /\ verif[v].phase = "keys"
    /\ verif' = [verif EXCEPT ![v].phase = IF HasGuard(v) THEN "replay" ELSE "verified"]
    /\ UNCHANGED <<time, skew, request, seen, envelopes, opening>>

\* getIdentityKeys() answers, fails or returns nothing: then no signature matches.
KeysArrive(v) ==
    LET r == request[verif[v].nonce] IN
    /\ verif[v].phase = "keys"
    /\ \E keys \in {Cosigners, {}}, need \in IF r.format = "v1" THEN {1} ELSE Thresholds :
         LET authentic == IF r.format = "v1" THEN AnySignature(r, keys)
                          ELSE keys # {} /\ verifyCanonicalSignatures(r.signed, keys, need)
         IN  verif' = [verif EXCEPT ![v].need = need,
                                    ![v].phase = IF ~authentic \/ verif[v].damaged THEN "refused"
                                                 ELSE IF HasGuard(v) THEN "replay" ELSE "verified"]
    /\ UNCHANGED <<time, skew, request, seen, envelopes, opening>>

\* Mutant: a nonce that was seen is answered again.
CheckReplay_Ignored(v) ==
    /\ verif[v].phase = "replay"
    /\ Phase(v, "verified")
    /\ seen' = seen \union {<<verif[v].seller, verif[v].nonce>>}
    /\ UNCHANGED <<time, skew, request, envelopes, opening>>

\* Mutant: the nonce is recorded before the signature is known to be good.
CheckReplay_First(v) ==
    LET n == <<verif[v].seller, verif[v].nonce>> IN
    /\ verif[v].phase = "replay" \/ (verif[v].phase = "keys" /\ HasGuard(v))
    /\ Phase(v, IF n \in seen THEN "refused" ELSE "verified")
    /\ seen' = seen \union {n}
    /\ UNCHANGED <<time, skew, request, envelopes, opening>>

\* isReplay(): checks and records in one call, after the signature.
CheckReplay(v) ==
    LET n == <<verif[v].seller, verif[v].nonce>> IN
    /\ verif[v].phase = "replay"
    /\ Phase(v, IF n \in seen THEN "refused" ELSE "verified")
    /\ seen' = seen \union {n}
    /\ UNCHANGED <<time, skew, request, envelopes, opening>>

\* mintAccessEnvelope(): encrypted for the key and nonce of the request, signed
\* by the dispatcher's own key.
Mint(v) ==
    /\ verif[v].phase = "verified"
    /\ Phase(v, "minted")
    /\ envelopes' = Append(envelopes, [nonce |-> verif[v].nonce, seller |-> verif[v].seller,
                                       ts |-> time, exp |-> time + KeyLife])
    /\ UNCHANGED <<time, skew, request, seen, opening>>

-----------------------------------------------------------------------------
(* The buyer opens an envelope: openAccessEnvelope() *)

\* Expiry and clock skew are checked first; any envelope may arrive.
BeginOpen(n, e, damaged) ==
    /\ request[n] # None /\ opening[n].phase \in {"idle", "refused"} /\ e \in DOMAIN envelopes
    /\ opening' = [opening EXCEPT ![n] =
         [phase |-> IF envelopes[e].exp > buyerClock /\ envelopes[e].ts - buyerClock <= maxAge
                    THEN "keys" ELSE "refused",
          envelope |-> e, damaged |-> damaged]]
    /\ UNCHANGED <<time, skew, request, verif, seen, envelopes>>

\* The seller's keys verify the seller's own signature (verifyAccessEnvelope).
Authentic(env, n) == env.seller = request[n].seller

\* The keys arrive: only an envelope that the expected seller signed is
\* decrypted, which fails when it was encrypted for another request.
Open(n) ==
    LET env == envelopes[opening[n].envelope] IN
    /\ opening[n].phase = "keys"
    /\ \E resolved \in BOOLEAN :
         opening' = [opening EXCEPT ![n].phase =
            IF resolved /\ ~opening[n].damaged /\ Authentic(env, n) /\ env.nonce = n
            THEN "opened" ELSE "refused"]
    /\ UNCHANGED <<time, skew, request, verif, seen, envelopes>>

ClockTicks ==
    /\ time < MaxClock /\ time' = time + 1
    /\ UNCHANGED <<skew, request, verif, seen, envelopes, opening>>

ExchangeNext ==
    \/ ClockTicks
    \/ \E n \in Nonces : Build(n) \/ Open(n)
    \/ \E n \in Nonces, e \in DOMAIN envelopes, d \in BOOLEAN : BeginOpen(n, e, d)
    \/ \E v \in Verifs : KeysArrive(v) \/ CheckReplay(v) \/ Mint(v)
    \/ \E v \in Verifs, n \in Nonces, s \in Sellers, d \in BOOLEAN :
         BeginVerify(v, n, s, d)

ExchangeSpec == ExchangeInit /\ [][ExchangeNext]_exchangeVars

-----------------------------------------------------------------------------
(***************************************************************************)
(* One signed v1 request yields at most one key of a seller whose          *)
(* dispatcher passes isReplay, although the relay may deliver it twice and *)
(* both verifications may await the buyer's keys at once (envelope.ts:471).*)
(* A v2 request, or a dispatcher without the guard, has no such promise:   *)
(* within its window the same request is answered again.                   *)
(***************************************************************************)
OneKeyPerRequest ==
    \A d, e \in DOMAIN envelopes :
        /\ envelopes[d].nonce = envelopes[e].nonce /\ envelopes[d].seller = envelopes[e].seller
        /\ request[envelopes[d].nonce].format = "v1" /\ envelopes[d].seller \in Guarded
        => d = e

(***************************************************************************)
(* A damaged copy of a request never uses up its nonce: as long as no copy *)
(* was found authentic, the intact one can still be answered               *)
(* (envelope.ts:470, "so attackers can't burn nonces with junk").          *)
(***************************************************************************)
JunkBurnsNothing ==
    \A p \in seen : \E v \in Verifs :
        /\ verif[v].seller = p[1] /\ verif[v].nonce = p[2]
        /\ ~verif[v].damaged /\ verif[v].phase \in {"verified", "minted"}

\* As many distinct cosigners signed a canonical request as the verification
\* found that the identity needs.
EnoughSigned(v) ==
    LET r == request[verif[v].nonce] IN
    r.format = "v2" => Cardinality({r.signed[i] : i \in DOMAIN r.signed}) >= verif[v].need

(***************************************************************************)
(* A v2 request is answered only if enough cosigners of the identity       *)
(* signed it: distinct ones, by the threshold the platform answered, or    *)
(* one when it answered none (canonical.ts verifyCanonicalSignatures).     *)
(***************************************************************************)
ThresholdMet == \A v \in Verifs : verif[v].phase \in {"verified", "minted"} => EnoughSigned(v)

(***************************************************************************)
(* Every key handed out was asked for by enough signers, and a guarded     *)
(* dispatcher hands out one per v1 request, on well-typed states           *)
(* (envelope.ts verifyAccessRequest, canonical.ts                          *)
(* verifyCanonicalSignatures).                                             *)
(***************************************************************************)
KeysAreEarned == ExchangeTypeOK /\ OneKeyPerRequest /\ ThresholdMet

(***************************************************************************)
(* End to end: the key a buyer reads out of an envelope was minted at the  *)
(* dispatcher of the very seller it asked, by a verification of its own    *)
(* request that received it unaltered and with enough signatures, whatever *)
(* copies and envelopes the relay passes on in either direction            *)
(* (envelope.ts verifyAccessRequest, mintAccessEnvelope and                *)
(* openAccessEnvelope together).                                           *)
(***************************************************************************)
OpenedIsAnswer ==
    \A n \in Nonces : opening[n].phase = "opened" =>
        \E v \in Verifs :
            /\ verif[v].phase = "minted" /\ verif[v].nonce = n
            /\ verif[v].seller = request[n].seller
            /\ ~verif[v].damaged /\ EnoughSigned(v)
=============================================================================
