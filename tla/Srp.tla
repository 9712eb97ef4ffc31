-------------------------------- MODULE Srp --------------------------------
(***************************************************************************)
(* The SRP-6a password proof in Apple's variant (lib/srp.c): the server's  *)
(* half, and the client's half that the file keeps but does not compile.   *)
(* Numbers are small, and a number shorter than the field it is kept in is *)
(* a case of its own: BN_num_bytes does not count leading zeros.           *)
(***************************************************************************)
EXTENDS Crypto, Sequences

CONSTANTS
  HASH,   \* a hash used as a number is in 1 .. HASH
  BYTE    \* values of one byte of a number

Failed == <<>>

\* Bytes of a number of at most two bytes, without leading zeros.
BN_num_bytes(n) == IF n = 0 THEN 0 ELSE IF n < BYTE THEN 1 ELSE 2

Digest(a, b) == 1 + ((5 * a + 3 * b + (a * b)) % HASH)

\* Both numbers are padded to the length of the modulus before hashing.
H_nn_rfc5054(n1, n2) == Digest(n1, n2)
H_ns(n, digest) == Digest(n, digest)

calculate_x(salt, username, password) == H_ns(salt, Digest(username, password))
Multiplier == H_nn_rfc5054(PRIME, GENERATOR)

\* Apple's session key is two hashes of the shared secret, with a counter.
hash_session_key(S) == <<sha(<<S, 0>>), sha(<<S, 1>>)>>

calculate_M(user, s, A, B, K) == sha(<<PRIME, GENERATOR, user, s, A, B, K>>)
calculate_H_AMK(A, M, K) == sha(<<A, M, K>>)

-----------------------------------------------------------------------------
\* The server

srp_create_salted_verification_key(username, password, salt) ==
  Power(GENERATOR, calculate_x(salt, username, password))

srp_create_server_ephemeral_key(v, b) ==
  (Multiplier * v + Power(GENERATOR, b)) % PRIME

\* The verifier recomputes the public key it sent from the private one.
srp_verifier_new(username, s, v, A, b) ==
  LET B == (Multiplier * v + Power(GENERATOR, b)) % PRIME
      u == H_nn_rfc5054(A, B)
      S == Power((A * Power(v, u)) % PRIME, b)
      K == hash_session_key(S)
      M == calculate_M(username, s, A, B, K)
  IN  IF A % PRIME = 0 THEN Failed
      ELSE <<[session_key |-> K, M |-> M, H_AMK |-> calculate_H_AMK(A, M, K)]>>

srp_verifier_verify_session(ver, user_M) == ver[1].M = user_M

-----------------------------------------------------------------------------
\* The client

srp_user_start_authentication(a) == Power(GENERATOR, a)

srp_user_process_challenge(username, password, a, s, B) ==
  LET A == srp_user_start_authentication(a)
      u == H_nn_rfc5054(A, B)
      x == calculate_x(s, username, password)
      S == Power((B - (Multiplier * Power(GENERATOR, x))) % PRIME, a + (u * x))
      K == hash_session_key(S)
      M == calculate_M(username, s, A, B, K)
  IN  IF B % PRIME = 0 THEN Failed
      ELSE <<[A |-> A, session_key |-> K, M |-> M, H_AMK |-> calculate_H_AMK(A, M, K)]>>

srp_user_verify_session(usr, bytes_HAMK) == usr[1].H_AMK = bytes_HAMK
=============================================================================
