------------------------------ MODULE Pairing ------------------------------
(***************************************************************************)
(* Pairing of AirPlay clients (lib/pairing.c and the pairing handlers of   *)
(* lib/raop_handlers.h): a client may prove that its user read the pin off *)
(* the screen (pair-pin-start, and pair-setup-pin in three steps), or ask  *)
(* for the server's key only (pair-setup); either way it then agrees on a  *)
(* secret with the server (pair-verify in two steps), and the first SETUP  *)
(* derives the key of the streams from it.  The pin is one variable of the *)
(* server, shared by all connections; everything else is the connection's. *)
(*                                                                         *)
(* The clients are honest ones.  A request, its handler and what the       *)
(* client makes of the answer are one step: one thread serves every        *)
(* connection, and a client waits for its answer.                          *)
(***************************************************************************)
EXTENDS Srp

CONSTANTS
  Conns,          \* connections, one client each; numbers, as in a device id
  Options,        \* how the server may have been started: records of
                  \*   use_pin       -pin: clients have to show the pin
                  \*   pin           0, or 10000 + the configured one
                  \*   registration  -reg: it keeps a list of clients
  PinChoices,     \* pins random_pin may come up with
  ServerKeys,     \* private keys the server may draw,
  ClientKeys,     \* and its clients
  Salts           \* salts BN_rand may come up with

VARIABLES
  options,        \* one of Options
  raop_pin,       \* raop->pin
  shown,          \* the pin on the screen
  registered,     \* registered_keys
  session,        \* conn -> pairing_session_t
  peer,           \* conn -> the client's side
  paired,         \* clients that hold the server's key from a pin pairing
  refused         \* conn -> why its last request was refused, or "no"

vars == <<options, raop_pin, shown, registered, session, peer, paired, refused>>

SERVER == "server"      \* the server's ED25519 key
RANDOM_PINS == 10000
NoKey == 0
NoSrp == <<>>

\* pairing_session_init
NewSession ==
  [status |-> "INITIAL", srp |-> NoSrp, username |-> 0, client_pk |-> NoKey,
   pair_setup |-> FALSE, ecdh_ours |-> NoKey, ecdh_theirs |-> NoKey,
   ed_theirs |-> NoKey, ecdh_secret |-> NoKey, aeskey |-> NoSrp]

NewPeer ==
  [step |-> "new", typed |-> 0, pin |-> 0, user |-> NoSrp, own |-> NoKey,
   theirs |-> NoKey, aeskey |-> NoSrp]

\* The client starts again, knowing what its user typed.
Again(c) == [NewPeer EXCEPT !.typed = peer[c].typed, !.pin = peer[c].pin]

Init ==
  /\ options \in Options
  /\ raop_pin = options.pin
  /\ shown = 0
  /\ registered = {}
  /\ session = [c \in Conns |-> NewSession]
  /\ peer = [c \in Conns |-> NewPeer]
  /\ paired = {}
  /\ refused = [c \in Conns |-> "no"]

Answered(c, s, p, why) ==
  /\ session' = [session EXCEPT ![c] = s]
  /\ peer' = [peer EXCEPT ![c] = p]
  /\ refused' = [refused EXCEPT ![c] = why]

-----------------------------------------------------------------------------
\* POST /pair-pin-start, and the user reads the screen.

PinStart(c) ==
  /\ options.use_pin
  /\ peer[c].step = "new"
  /\ \E random_pin \in PinChoices :
       /\ raop_pin' = IF raop_pin >= RANDOM_PINS THEN raop_pin ELSE random_pin
       /\ shown' = raop_pin' % RANDOM_PINS
  /\ Answered(c, session[c], [NewPeer EXCEPT !.step = "asked"], "no")
  /\ UNCHANGED <<options, registered, paired>>

ReadPin(c) ==
  /\ peer[c].step = "asked"
  /\ peer' = [peer EXCEPT ![c].step = "typed", ![c].typed = shown]
  /\ UNCHANGED <<options, raop_pin, shown, registered, session, paired, refused>>

-----------------------------------------------------------------------------
\* POST /pair-setup-pin

\* Numbers that lost a leading zero are not accepted.
WellSized(s, v) == BN_num_bytes(s) = 2 /\ BN_num_bytes(v) = 2

PinString == raop_pin % RANDOM_PINS

\* srp_new_user with the salt and the private key it draws; a random pin is
\* good for one attempt, however that ends.
SetupUser(c) ==
  /\ peer[c].step = "typed"
  /\ \E salt \in Salts, b \in ServerKeys, a \in ClientKeys :
       LET verifier == srp_create_salted_verification_key(c, PinString, salt)
           B == srp_create_server_ephemeral_key(verifier, b)
           new == [session[c] EXCEPT !.username = c,
                     !.srp = <<[private_key |-> b, salt |-> 0, verifier |-> 0,
                                session_key |-> NoSrp]>>]
           user == srp_user_process_challenge(c, peer[c].typed, a, salt, B)
       IN  IF ~WellSized(salt, verifier)
           THEN Answered(c, new, NewPeer, "size")
           ELSE Answered(c,
                  [new EXCEPT !.srp[1].salt = salt, !.srp[1].verifier = verifier],
                  IF user = Failed THEN NewPeer
                  ELSE [peer[c] EXCEPT !.step = "challenged", !.user = user,
                                       !.pin = PinString], "no")
  /\ raop_pin' = IF raop_pin < RANDOM_PINS THEN 0 ELSE raop_pin
  /\ UNCHANGED <<options, shown, registered, paired>>

\* srp_validate_proof: the client's proof, answered with the server's.
SetupProof(c) ==
  /\ peer[c].step = "challenged"
  /\ LET srp == session[c].srp[1]
         user == peer[c].user
         verifier == srp_verifier_new(session[c].username, srp.salt, srp.verifier,
                                      user[1].A, srp.private_key)
     IN  /\ verifier # Failed
         /\ IF ~srp_verifier_verify_session(verifier, user[1].M)
            THEN Answered(c, [session[c] EXCEPT !.srp = NoSrp], Again(c), "proof")
            ELSE Answered(c,
                   [session[c] EXCEPT !.srp[1].session_key = verifier[1].session_key],
                   [peer[c] EXCEPT !.step = "proved"],
                   IF srp_user_verify_session(user, verifier[1].H_AMK)
                     THEN "no" ELSE "server")
  /\ UNCHANGED <<options, raop_pin, shown, registered, paired>>

\* The key and iv both sides derive from the session key; each message in a
\* direction of its own adds one to the iv.
SetupKey(K) == sha(<<"Pair-Setup-AES-Key", K>>)
SetupIv(K, n) == <<sha(<<"Pair-Setup-AES-IV", K>>), n>>

\* Slip: the answer is encrypted with the iv of the request.
MutAnswerIv == 1

AnswerIv == 2

\* srp_confirm_pair_setup: the client's key, answered with the server's.
SetupConfirm(c) ==
  /\ peer[c].step = "proved"
  /\ LET ours == session[c].srp[1].session_key
         K == peer[c].user[1].session_key
         epk == gcm_encrypt(c, SetupKey(K), SetupIv(K, 1))
         client_pk == gcm_decrypt(epk, SetupKey(ours), SetupIv(ours, 1))
         reply == gcm_encrypt(SERVER, SetupKey(ours), SetupIv(ours, AnswerIv))
         server_pk == gcm_decrypt(reply, SetupKey(K), SetupIv(K, 2))
         done == [session[c] EXCEPT !.srp = NoSrp]
     IN  IF client_pk = Garbage
         THEN Answered(c, done, NewPeer, "confirm")
         ELSE Answered(c,
                [done EXCEPT !.client_pk = client_pk[1], !.pair_setup = TRUE,
                             !.status = "SETUP"],
                [NewPeer EXCEPT !.step = "paired"],
                IF server_pk = <<SERVER>> THEN "no" ELSE "server")
  /\ paired' = paired \cup {c}
  /\ UNCHANGED <<options, raop_pin, shown, registered>>

\* POST /pair-setup: no pin, only the server's key.
PairSetup(c) ==
  /\ ~options.use_pin
  /\ peer[c].step = "new"
  /\ Answered(c, [session[c] EXCEPT !.status = "SETUP"],
              [NewPeer EXCEPT !.step = "paired"], "no")
  /\ UNCHANGED <<options, raop_pin, shown, registered, paired>>

-----------------------------------------------------------------------------
\* POST /pair-verify: a secret of this connection, and who is at its ends.

\* derive_key_internal
DeriveKey(salt, secret) == sha(<<salt, secret>>)
SignatureStream(secret) ==
  aes_ctr_init(DeriveKey("Pair-Verify-AES-Key", secret),
               DeriveKey("Pair-Verify-AES-IV", secret))

\* The client's signature follows the server's in the key stream.
ClientStream(secret) == aes_ctr_next(SignatureStream(secret))

\* A client that paired on this connection, or with a pin at an earlier one.
\* A server with pins lets it in without a setup, if it is registered.
VerifyHandshake(c) ==
  /\ \/ peer[c].step \in {"paired", "verifying"}
     \/ peer[c].step = "new" /\ c \in paired
  /\ \E own \in ClientKeys, ours \in ServerKeys :
       LET theirs == x25519_key_get_raw(own)
           secret == x25519_derive_secret(ours, theirs)
           sent == aes_ctr_encrypt(SignatureStream(secret),
                     ed25519_sign(<<x25519_key_get_raw(ours), theirs>>, SERVER))
           shake == [session[c] EXCEPT !.status = "HANDSHAKE", !.ecdh_ours = ours,
                       !.ecdh_theirs = theirs, !.ed_theirs = c, !.ecdh_secret = secret]
           known == x25519_derive_secret(own, x25519_key_get_raw(ours))
           signature == aes_ctr_decrypt(SignatureStream(known), sent)
           returning == session[c].status \notin {"SETUP", "HANDSHAKE"}
       IN  IF returning /\ options.registration /\ c \notin registered
           THEN Answered(c, shake, NewPeer, "unregistered")
           ELSE Answered(c, shake,
                  [NewPeer EXCEPT !.step = "verifying", !.own = own,
                                  !.theirs = x25519_key_get_raw(ours)],
                  IF ed25519_verify(signature,
                       <<x25519_key_get_raw(ours), theirs>>, SERVER)
                    THEN "no" ELSE "server")
  /\ UNCHANGED <<options, raop_pin, shown, registered>>
  /\ paired' = IF refused'[c] = "unregistered" THEN paired \ {c} ELSE paired

SignedByClient(s) == <<s.ecdh_theirs, x25519_key_get_raw(s.ecdh_ours)>>

\* pairing_session_finish
VerifyFinish(c) ==
  /\ peer[c].step = "verifying"
  /\ session[c].status = "HANDSHAKE"
  /\ LET secret == x25519_derive_secret(peer[c].own, peer[c].theirs)
         signature == aes_ctr_encrypt(aes_ctr_next(SignatureStream(secret)),
           ed25519_sign(<<x25519_key_get_raw(peer[c].own), peer[c].theirs>>, c))
         received == aes_ctr_decrypt(ClientStream(session[c].ecdh_secret), signature)
     IN  IF ed25519_verify(received, SignedByClient(session[c]), session[c].ed_theirs)
         THEN Answered(c, [session[c] EXCEPT !.status = "FINISHED"],
                       [peer[c] EXCEPT !.step = "verified"], "no")
         ELSE Answered(c, session[c], NewPeer, "verify")
  /\ UNCHANGED <<options, raop_pin, shown, registered, paired>>

-----------------------------------------------------------------------------
\* The first SETUP: the client is registered, and the key of its streams is
\* hashed with the secret of the pairing, if there was one.

StreamKey(agreed, secret) == IF agreed THEN sha(<<"aeskey", secret>>) ELSE sha(<<"aeskey">>)

\* Slip: the secret counts only until the verification is finished.
MutSecretShared(s) == s.status = "HANDSHAKE"

\* pairing_get_ecdh_secret_key
SecretShared(s) == s.status # "INITIAL"

\* access_client_session_data leaves pending_registration as the caller's
\* stack had it, so it is any value.
Setup(c) ==
  /\ peer[c].step = "verified" \/ (peer[c].step = "new" /\ ~options.use_pin)
  /\ \E pending_registration \in BOOLEAN :
       registered' = IF /\ options.registration /\ pending_registration
                        /\ session[c].username = c
                     THEN registered \cup {session[c].client_pk}
                     ELSE registered
  /\ Answered(c,
       [session[c] EXCEPT !.aeskey = StreamKey(SecretShared(session[c]), session[c].ecdh_secret)],
       [peer[c] EXCEPT !.step = "streaming",
          !.aeskey = StreamKey(peer[c].step = "verified",
                               x25519_derive_secret(peer[c].own, peer[c].theirs))],
       "no")
  /\ UNCHANGED <<options, raop_pin, shown, paired>>

\* The connection is closed, by either side: pairing_session_destroy.
Disconnect(c) ==
  /\ session[c] # NewSession \/ peer[c] # NewPeer
  /\ Answered(c, NewSession, NewPeer, "no")
  /\ UNCHANGED <<options, raop_pin, shown, registered, paired>>

Next ==
  \E c \in Conns :
    \/ PinStart(c) \/ ReadPin(c)
    \/ SetupUser(c) \/ SetupProof(c) \/ SetupConfirm(c) \/ PairSetup(c)
    \/ VerifyHandshake(c) \/ VerifyFinish(c) \/ Setup(c) \/ Disconnect(c)

Spec == Init /\ [][Next]_vars

-----------------------------------------------------------------------------
\* What the pairing variables hold, and that the numbers of an exchange are
\* there as long as the client is in the middle of it.
TypeOK ==
  /\ options \in Options
  /\ raop_pin \in Nat /\ shown \in 0 .. RANDOM_PINS - 1
  /\ registered \subseteq Conns \cup {NoKey} /\ paired \subseteq Conns
  /\ \A c \in Conns :
       /\ session[c].status \in {"INITIAL", "SETUP", "HANDSHAKE", "FINISHED"}
       /\ session[c].username \in {0, c} /\ session[c].client_pk \in {NoKey, c}
       /\ peer[c].step \in {"challenged", "proved"} => session[c].srp # NoSrp

\* A client is turned down for one of three reasons: the proof shows that its
\* user typed a pin other than the one the verifier was made from (a second
\* client's pair-pin-start replaces the pin on the screen), a drawn number
\* came out a byte short, or it is not on the list.  A client with the right
\* pin gets through every step, and accepts every answer of the server.
RightPinIsAccepted ==
  \A c \in Conns :
    \/ refused[c] \in {"no", "size", "unregistered"}
    \/ refused[c] = "proof" /\ peer[c].typed # peer[c].pin

\* Both ends hold the same secrets: the SRP session key once the proofs are
\* exchanged, the secret of pair-verify and the client it belongs to once that
\* is finished, and the key the streams are decrypted with after SETUP, also
\* when the client used no pairing.
SecretsAgree ==
  \A c \in Conns :
    /\ peer[c].step = "proved" =>
         session[c].srp[1].session_key = peer[c].user[1].session_key
    /\ session[c].status = "FINISHED" =>
         /\ peer[c].step \in {"verified", "streaming"}
         /\ session[c].ed_theirs = c
         /\ session[c].ecdh_secret = x25519_derive_secret(peer[c].own, peer[c].theirs)
    /\ peer[c].step = "streaming" => session[c].aeskey = peer[c].aeskey
=============================================================================
