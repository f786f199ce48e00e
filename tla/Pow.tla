--------------------------------- MODULE Pow ---------------------------------
(***************************************************************************)
(* The proof-of-work algorithm: pow/src/lib.rs.                            *)
(*                                                                         *)
(* Sha3 is an arbitrary function of the three fields it is applied to, as  *)
(* is Blake2 of a seal.  A raw seal is either a seal or something that     *)
(* does not decode.                                                        *)
(***************************************************************************)
EXTENDS Integers

CONSTANTS
  U256_MAX,          \* largest big integer: hashes, difficulties and nonces
  PreHashes,         \* hashes of headers without their seal
  Difficulties,      \* difficulties the runtime may ask for
  Nonces,            \* nonces a seal may carry
  Sha3(_, _, _),     \* Sha3_256 of an encoded Compute
  Undecodable        \* raw bytes that are not the encoding of a seal

Works == 0 .. U256_MAX

Seal == [difficulty : Difficulties, work : Works, nonce : Nonces]

ASSUME PowAssumption ==
  /\ U256_MAX \in Nat
  /\ Difficulties \subseteq Works
  /\ Nonces \subseteq Works
  /\ \A d \in Difficulties, p \in PreHashes, n \in Nonces : Sha3(d, p, n) \in Works
  /\ Undecodable \notin Seal

\* The product of hash and difficulty does not overflow 256 bits.
hash_meets_difficulty(hash, difficulty) == hash * difficulty <= U256_MAX

\* The seal of an attempt to solve the proof of work.
compute(difficulty, pre_hash, nonce) ==
  [difficulty |-> difficulty, work |-> Sha3(difficulty, pre_hash, nonce), nonce |-> nonce]

\* Mutant: the work is not computed again.
verify_without_compute(pre_hash, raw_seal, difficulty) ==
  /\ raw_seal # Undecodable
  /\ hash_meets_difficulty(raw_seal.work, difficulty)

\* A raw seal is good for a header at a difficulty if it decodes, its work
\* meets the difficulty, and it is what the attempt with its nonce gives.
verify(pre_hash, raw_seal, difficulty) ==
  /\ raw_seal # Undecodable
  /\ hash_meets_difficulty(raw_seal.work, difficulty)
  /\ compute(difficulty, pre_hash, raw_seal.nonce) = raw_seal
=============================================================================
