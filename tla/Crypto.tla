------------------------------- MODULE Crypto -------------------------------
(***************************************************************************)
(* The cryptography of the AirPlay server (lib/crypto.c, over OpenSSL), as *)
(* its callers rely on it: a key agreement is exponentiation in a group, a *)
(* hash is as good as its arguments, and a cipher gives back what was      *)
(* encrypted to whoever uses the same key at the same place of the stream. *)
(***************************************************************************)
EXTENDS Integers

CONSTANTS
  PRIME,      \* the group's modulus
  GENERATOR   \* and a generator of it

Power(base, n) ==
  LET power[i \in 0 .. n] ==
        IF i = 0 THEN 1 ELSE (base * power[i - 1]) % PRIME
  IN  power[n]

\* What decryption gives with a wrong key, at a wrong place, or of garbage.
Garbage == <<>>

-----------------------------------------------------------------------------
\* X25519: the public key of a private one, and the secret two parties share.

x25519_key_get_raw(key) == Power(GENERATOR, key)
x25519_derive_secret(ours, theirs) == Power(theirs, ours)

\* SHA-512 over the pieces it is updated with.
sha(pieces) == <<"sha", pieces>>

\* ED25519: a signature is by someone and of something; what is verified
\* comes out of a decryption.
ed25519_sign(message, key) == <<"signed", message, key>>
ed25519_verify(signature, message, key) == signature = <<ed25519_sign(message, key)>>

\* AES-CTR: the context counts the messages that went through it, and with
\* the key and the iv that count says which part of the key stream is next.
aes_ctr_init(key, iv) == [key |-> key, iv |-> iv, at |-> 0]
aes_ctr_next(ctx) == [ctx EXCEPT !.at = @ + 1]
aes_ctr_encrypt(ctx, text) == <<"ctr", ctx, text>>
aes_ctr_decrypt(ctx, cipher) ==
  IF cipher[2] = ctx THEN <<cipher[3]>> ELSE Garbage

\* AES-GCM: what is decrypted is also authentic.
gcm_encrypt(plain, key, iv) == <<"gcm", <<key, iv>>, plain>>
gcm_decrypt(cipher, key, iv) ==
  IF cipher[2] = <<key, iv>> THEN <<cipher[3]>> ELSE Garbage
=============================================================================
