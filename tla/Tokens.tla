------------------------------- MODULE Tokens -------------------------------
(***************************************************************************)
(* The tokens of crypto/token.rs, symbolically: a digest names what it was *)
(* taken of, and a signature the key it was made with.  A token is the     *)
(* list of the five parts that the program joins with dots.                *)
(***************************************************************************)
EXTENDS Sequences

\* A public key, with VerifyingTokenKey::signature_method.
Key(owner, method) == [owner |-> owner, method |-> method]

\* Signing keys are Ed25519 keys (SigningTokenKey); an RSA-PSS key can only be expected.
SigningKey(owner) == Key(owner, "ed25519")

\* SHA-256 of the public key in DER followed by the salt.
Digest(key, salt) == <<"sha256", key, salt>>
Sign(key, digest) == <<"signed", key, digest>>

\* generate_token_nonce
Token(key, salt) ==
  <<"sha256", Digest(key, salt), salt, key.method, Sign(key, Digest(key, salt))>>

\* verify_token_nonce, by verify_token_with_result.
VerifyTokenNonce(key, token, nonce) ==
  /\ token[1] = "sha256"
  /\ token[4] = key.method
  /\ token[3] = nonce
  /\ token[2] = Digest(key, nonce)
  /\ token[5] = Sign(key, token[2])
=============================================================================
