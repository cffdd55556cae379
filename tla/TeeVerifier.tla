----------------------------- MODULE TeeVerifier -----------------------------
(***************************************************************************)
(* The check of a TEE attestation: the sidecar of apps/tee-verifier and    *)
(* its two clients, the one inside inferZG and verifyTeeAttestation of     *)
(* packages/workflow.                                                      *)
(*                                                                         *)
(* An envelope is what the header x-tee-attestation decodes to.  Its quote *)
(* says which address and which nonce it was made for: those the envelope  *)
(* names, or others.                                                       *)
(***************************************************************************)
EXTENDS FiniteSets

Quotes ==
  [hex : BOOLEAN, whole : BOOLEAN, tdx : BOOLEAN, intel : BOOLEAN,
   address : {"asked", "other"}, nonce : {"asked", "other"}]

AllEnvelopes ==
  [json : BOOLEAN, missing : SUBSET {"quote", "address", "algo", "nonce"},
   valid : BOOLEAN,    \* is the address one?
   algo : {"ecdsa", "other"}, quote : Quotes]

Has(env, field) == field \notin env.missing

\* A TDX quote of version 4 or 5 with an ECDSA key, of its full length.
parseQuote(quote) == quote.whole /\ quote.tdx

\* The algorithm and the nonce are optional here: direct callers may leave them out.
verifyTdxQuote(req) ==
  /\ Has(req, "algo") => req.algo = "ecdsa"
  /\ parseQuote(req.quote)
  /\ req.quote.intel
  /\ req.valid
  /\ req.quote.address = "asked"
  /\ Has(req, "nonce") => req.quote.nonce = "asked"

\* A quote that is not hexadecimal throws out of the handler.
serve(req) ==
  IF ~(Has(req, "quote") /\ Has(req, "address")) THEN "400"
  ELSE IF ~req.quote.hex THEN "500"
  ELSE IF verifyTdxQuote(req) THEN "valid" ELSE "invalid"

\* What a client hears.
Heard(req) == {serve(req), "unreachable", "bad json"}

\* Mutant of forward: the nonce stays behind.
forwardWithoutNonce(env) == [env EXCEPT !.missing = @ \cup {"nonce"}]

\* The body of the clients' request: each field that the envelope has.
forward(env) == env

\* "null" is the honest unknown.
reverifyAttestationLocally(env) ==
  IF ~env.json \/ ~Has(env, "quote") \/ ~Has(env, "address") THEN {"null"}
  ELSE {CASE said = "valid" -> "true" [] said = "invalid" -> "false" [] OTHER -> "null"
          : said \in Heard(forward(env))}

\* `signed' is the signature of the response, which may be left out.
verifyTeeAttestation(env, strict, hasVerifier, signed) ==
  IF \/ ~env.json \/ env.missing # {} \/ ~env.valid \/ env.algo = "other"
     \/ signed = "by another"
  THEN {"refused"}
  ELSE (IF env.quote.whole THEN {} ELSE {"refused"})    \* shorter than 64 digits
       \cup (IF ~strict THEN {"relaxed"}
             ELSE IF ~hasVerifier THEN {"refused"}
             ELSE {IF said = "valid" THEN "strict" ELSE "refused" : said \in Heard(forward(env))})

\* What an accepted envelope stands for.
Bound(env) ==
  /\ env.quote.whole /\ env.quote.tdx /\ env.quote.intel
  /\ env.quote.address = "asked"
  /\ Has(env, "nonce") => env.quote.nonce = "asked"
=============================================================================
