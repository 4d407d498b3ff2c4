-------------------------------- MODULE Bridge --------------------------------
(***************************************************************************)
(* The cross-chain bridge (interoperability/src): CrossChainSwap and      *)
(* CrossChainTransfer turn a request into a BlockchainMessage signed over *)
(* its payload (the request serialized) and hand it to                    *)
(* Bridge::process_message, which checks the destination is supported,    *)
(* looks up the source chain's public key, verifies the signature and     *)
(* forwards the message.  process_message is public and a message         *)
(* derives Deserialize, so it may also come from a relayer that has seen  *)
(* signed messages and rewrites their fields.                             *)
(*                                                                         *)
(* A signature is the pair of the signing key and the payload it covers;  *)
(* verify holds when the pair names the looked-up key and the message's   *)
(* payload, and bytes that are not a compact signature are Malformed.     *)
(* Keys stand for key pairs: signing with one verifies under it.          *)
(***************************************************************************)
EXTENDS Naturals, FiniteSets

CONSTANTS
  Chains,          \* chain names
  SupportedChains, \* Bridge.supported_chains
  PublicKeys,      \* Bridge.public_keys: a function from chains to keys
  Keys,            \* key pairs, including ones no chain is registered with
  Amounts,         \* request amounts
  MaxRequests,     \* requests initiated in a behaviour
  Malformed        \* signature bytes Signature::from_compact rejects

ASSUME SupportedChains \subseteq Chains /\ DOMAIN PublicKeys \subseteq Chains

\* A request as serialized into the payload: a SwapRequest's chains and
\* amount (its assets, sender and recipient are left out), and a
\* TransferRequest's (its sender and recipient are left out).
SwapRequests == [kind : {"swap"}, from_chain : Chains, to_chain : Chains,
                 amount : Amounts]
TransferRequests == [kind : {"transfer"}, from_chain : Chains, to_chain : Chains,
                     amount : Amounts]
VARIABLES
  created,   \* the messages the requests' to_message has signed
  forwarded, \* the messages process_message has forwarded
  panicked   \* a panic ended the process

vars == <<created, forwarded, panicked>>

Init ==
  /\ created = {}
  /\ forwarded = {}
  /\ panicked = FALSE

\* to_message: BlockchainMessage::new(from_chain, to_chain, payload, sk).
to_message(req, sk) ==
  [from_chain |-> req.from_chain, to_chain |-> req.to_chain, payload |-> req,
   signature |-> [key |-> sk, payload |-> req]]

\* BlockchainMessage::verify, once the signature bytes have parsed: the
\* signature is over the message's payload, by the given key.
verify(m, public_key) ==
  m.signature.key = public_key /\ m.signature.payload = m.payload

\* Bridge::process_message: the step's effect.  UnsupportedChain for a
\* destination not supported or a source without a key, a panic when the
\* signature bytes do not parse (from_compact(..).unwrap() in verify),
\* InvalidSignature, or forward_message.
process_message(m) ==
  IF m.to_chain \notin SupportedChains \/ m.from_chain \notin DOMAIN PublicKeys
  THEN UNCHANGED <<forwarded, panicked>>
  ELSE IF m.signature = Malformed
  THEN /\ panicked' = TRUE
       /\ UNCHANGED forwarded
  ELSE IF ~verify(m, PublicKeys[m.from_chain])
  THEN UNCHANGED <<forwarded, panicked>>
  ELSE /\ forwarded' = forwarded \cup {m}
       /\ UNCHANGED panicked

\* initiate_swap: a zero amount is InvalidRequest; otherwise the request
\* is signed with the caller's key (SwapRequest::to_message) and processed.
InitiateSwap(req, sk) ==
  /\ ~panicked
  /\ Cardinality(created) < MaxRequests
  /\ req.amount # 0
  /\ created' = created \cup {to_message(req, sk)}
  /\ process_message(to_message(req, sk))

\* initiate_transfer: the same for a TransferRequest.
InitiateTransfer(req, sk) ==
  /\ ~panicked
  /\ Cardinality(created) < MaxRequests
  /\ req.amount # 0
  /\ created' = created \cup {to_message(req, sk)}
  /\ process_message(to_message(req, sk))

\* What a relayer can make of a signed message: any of its fields
\* rewritten; the signature it can only keep, or replace with bytes.
Rewritten(m) ==
  {[from_chain |-> f, to_chain |-> t, payload |-> m.payload, signature |-> s] :
     f \in Chains, t \in Chains, s \in {m.signature, Malformed}}

\* A relayer hands a rewritten or replayed message to process_message.
Relay(m) ==
  /\ ~panicked
  /\ process_message(m)
  /\ UNCHANGED created

Next ==
  \/ \E req \in SwapRequests, sk \in Keys : InitiateSwap(req, sk)
  \/ \E req \in TransferRequests, sk \in Keys : InitiateTransfer(req, sk)
  \/ \E m \in UNION {Rewritten(c) : c \in created} : Relay(m)

Spec == Init /\ [][Next]_vars

-----------------------------------------------------------------------------
(* Properties.                                                            *)

\* process_message answers every message with Ok or a BridgeError: a
\* message whose signature does not verify is InvalidSignature, never a
\* panic, whatever a relayer puts in the signature bytes (verify unwraps
\* Signature::from_compact).
ProcessMessageNeverPanics == ~panicked

\* Every forwarded message goes between the chains its signed request
\* names: the bridge routes by the message's to_chain and from_chain,
\* which is what the signer asked for.
ForwardedAsRequested ==
  \A m \in forwarded :
    m.from_chain = m.payload.from_chain /\ m.to_chain = m.payload.to_chain

=============================================================================
