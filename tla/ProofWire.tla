----------------------------- MODULE ProofWire ------------------------------
(***************************************************************************)
(* Proofs on the wire: the JSON object of the REST API and of the WASM     *)
(* module (the gRPC message has the same fields), and the two ways back to *)
(* a proof, VerifyProofFromResponse and the WASM module's verifier.        *)
(*                                                                         *)
(* Numbers and digests travel as hex strings.  A string is known by what   *)
(* it decodes to; a field left out of the object is the empty string.      *)
(***************************************************************************)
EXTENDS LeanIMTPlus

CONSTANT Missing   \* a string that hexenc.Decode refuses, the empty one among them

ASSUME MissingAssumption == Missing \notin Nat

\* Where a digest is expected: such a string, and the number 0.
MissingSlot == [kind |-> "missing"]
ZeroSlot    == [kind |-> "zero"]

\* hexenc.Encode of a digest; nil becomes "0x0", which decodes to zero.
EncodeDigest(slot) == IF slot = Nil THEN ZeroSlot ELSE slot

\* LeafIndex: bit k-1 is the direction at the k-th level that has a sibling.
PackedBits(path) ==
  LET index[k \in 0..Len(path)] ==
        IF k = 0 THEN 0 ELSE index[k - 1] + (IF path[k].right THEN 2^(k - 1) ELSE 0)
  IN  index[Len(path)]

\* Mutant: the bits are consumed from the other end.
BitReversed(leafIndex, k, n) == (leafIndex \div 2^(n - k)) % 2 = 1

\* walkPath's (leafIndex >> (k-1)) & 1, of n siblings.
Bit(leafIndex, k, n) == (leafIndex \div 2^(k - 1)) % 2 = 1

\* ProofResponse, proofToJSON.
ToWire(p) ==
  [proofType |-> IF p.type = "membership" THEN 0 ELSE 1,
   root      |-> EncodeDigest(p.root),
   value     |-> p.value,
   leaf      |-> p.leaf,
   leafIndex |-> PackedBits(p.path),
   siblings  |-> [k \in DOMAIN p.path |-> EncodeDigest(p.path[k].sibling)]]

\* The proof whose fields are those of w, once they are decoded.
FromWire(w) ==
  [type  |-> IF w.proofType = 0 THEN "membership" ELSE "nonmembership",
   root  |-> w.root,
   value |-> w.value,
   leaf  |-> w.leaf,
   path  |-> [k \in DOMAIN w.siblings |->
                [right   |-> Bit(w.leafIndex, k, Len(w.siblings)),
                 sibling |-> w.siblings[k]]]]

\* Mutant: the errors of the siblings are dropped.
UndecodableHeader(w) == w.root = MissingSlot \/ Missing \in {w.value, w.leaf.value, w.leaf.next}

Undecodable(w) ==
  \/ w.root = MissingSlot \/ Missing \in {w.value, w.leaf.value, w.leaf.next}
  \/ \E k \in DOMAIN w.siblings : w.siblings[k] = MissingSlot

\* Go's (bool, error): "true", "false" or "error".
VerifyProofFromResponse(w) ==
  IF Undecodable(w) THEN "error" ELSE IF VerifyProof(FromWire(w)) THEN "true" ELSE "false"

\* WASM: decodeOrZero takes 0 for every string it cannot decode.
DecodedNumber(s) == IF s = Missing THEN 0 ELSE s
DecodedDigest(s) == IF s = MissingSlot THEN ZeroSlot ELSE s

DecodeOrZero(w) ==
  [proofType |-> w.proofType,
   root      |-> DecodedDigest(w.root),
   value     |-> DecodedNumber(w.value),
   leaf      |-> IndexedLeaf(DecodedNumber(w.leaf.value), DecodedNumber(w.leaf.next)),
   leafIndex |-> w.leafIndex,
   siblings  |-> [k \in DOMAIN w.siblings |-> DecodedDigest(w.siblings[k])]]

VerifyProofJS(w) == VerifyProof(FromWire(DecodeOrZero(w)))

-----------------------------------------------------------------------------
(* Properties.                                                             *)

\* w without the fields named in lost and the siblings in cut. What JSON decodes
\* without them: 0 for the proof type, which is membership, and for leafIndex, no
\* siblings, and empty strings.
Damaged(w, lost, cut) ==
  [proofType |-> IF "type" \in lost THEN 0 ELSE w.proofType,
   root      |-> IF "root" \in lost THEN MissingSlot ELSE w.root,
   value     |-> IF "value" \in lost THEN Missing ELSE w.value,
   leaf      |-> IndexedLeaf(IF "leafValue" \in lost THEN Missing ELSE w.leaf.value,
                             IF "leafNext" \in lost THEN Missing ELSE w.leaf.next),
   leafIndex |-> IF "leafIndex" \in lost THEN 0 ELSE w.leafIndex,
   siblings  |-> IF "siblings" \in lost THEN <<>>
                 ELSE [k \in DOMAIN w.siblings |-> IF k \in cut THEN MissingSlot ELSE w.siblings[k]]]

Strings == {"root", "value", "leafValue", "leafNext"}
Fields  == Strings \cup {"type", "leafIndex", "siblings"}

Answers == {GenerateProof(leaves, nodes, v) : v \in Values \ {0}}

\* A proof that is sent and read back is the proof that was generated, direction
\* bits and siblings in step, so whoever checks it gets the server's answer.
WireKeepsProofs ==
  idle /\ clean /\ leaves # <<>> =>
    \A p \in Answers : LET w == ToWire(p) IN
      /\ FromWire(w) = p
      /\ VerifyProofFromResponse(w) = "true" /\ VerifyProofJS(w)

\* A proof that lost a string on the way is an error to VerifyProofFromResponse.
\* The WASM verifier reads what it lost as zero and still accepts only what is true
\* of the value asked for; without a value the claim is about 0, the sentinel's,
\* which is no serial number.
LostFieldsProveNothing ==
  idle /\ clean /\ leaves # <<>> =>
    \A p \in Answers, lost \in SUBSET Fields :
    \A cut \in SUBSET (DOMAIN p.path) :
      LET w == Damaged(ToWire(p), lost, cut) IN
      /\ VerifyProofFromResponse(w) = "error"
           <=> lost \cap Strings # {} \/ (cut # {} /\ "siblings" \notin lost)
      /\ VerifyProofJS(w) /\ w.value # Missing => (w.proofType = 0) = IsMember(p.value)
=============================================================================
