------------------------------- MODULE Signing -------------------------------
(***************************************************************************)
(* crypto/sign.py and the manifest of deployment/bundle.py: envelopes over *)
(* files, and the list of the files of a bundle.                           *)
(*                                                                         *)
(* A digest is the content it is taken of, which is what a hash without    *)
(* collisions tells apart, and a signature is the pair of the private key  *)
(* and the digest it was made with.  trust maps a key id to the key pair   *)
(* whose public half lies in the trust directory under that id, or NoKey.  *)
(***************************************************************************)
CONSTANTS
  NoKey,    \* no public key is installed under the id
  Missing   \* the content of a file that does not exist

\* sign_file: name is the file's own name, which the envelope binds.
SignFile(name, content, key_id, private) ==
  [algorithm |-> "ed25519", key_id |-> key_id, target |-> name,
   target_sha256 |-> content,
   signature |-> [by |-> private, over |-> content]]

\* verify_envelope: a key pair made elsewhere under an installed id has
\* another private half, so that its signatures do not verify.
VerifyEnvelope(envelope, name, content, trust) ==
  /\ envelope.algorithm = "ed25519"
  /\ name = envelope.target
  /\ content = envelope.target_sha256
  /\ trust[envelope.key_id] # NoKey
  /\ envelope.signature =
       [by |-> trust[envelope.key_id], over |-> envelope.target_sha256]

\* Mutation: the signature of an earlier manifest is listed as well.
WriteManifestWithSignature(files) ==
  [f \in {g \in DOMAIN files : files[g] # Missing} \cup {"manifest.sig"} |->
     IF f \in DOMAIN files THEN files[f] ELSE Missing]

\* write_manifest: one line for every file that is there.
WriteManifest(files) ==
  [f \in {g \in DOMAIN files : files[g] # Missing} |-> files[f]]
=============================================================================
