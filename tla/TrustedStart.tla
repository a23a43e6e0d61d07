----------------------------- MODULE TrustedStart -----------------------------
(***************************************************************************)
(* The start of run, chat and serve on the host (cli.py, _load and the     *)
(* commands; config.py; deployment/bootstrap.py, bundle.py; the            *)
(* constructor of security/policy.py; inference/llama_cpp.py): from the    *)
(* configuration over the bundle and its signature to the policy and the   *)
(* model in memory.                                                        *)
(*                                                                         *)
(* Each read of a file is a step, because meanwhile releases are copied to *)
(* the host file by file, files are edited, a manifest is written anew, or *)
(* a public key is replaced.  The order in which the lines of a manifest   *)
(* are checked is left open: none ends the loop.                           *)
(***************************************************************************)
EXTENDS Policy, Signing

CONSTANTS
  Models,         \* files of the models directory
  Symlinks,       \* those which are symbolic links
  ModelFile,      \* inference.model_path, or Absent for the other backends
  Releases,       \* what was signed: [models, policy, policy_name, key_id, by]
  Configs,        \* configuration files
  Environments,   \* working directory and environment variables of a start
  KeyIds, Keys,   \* names of public keys, key pairs
  Deployed,       \* the trust directory the host was set up with
  Damaged,        \* content no release has
  LocalPolicies,  \* what a policy may be edited to
  Requests,       \* requests to the policy, for properties
  MaxChanges      \* bound on the changes to the host

ManifestSig == "manifest.sig"
PolicySig == "policy.sig"
Paths == Models \cup {"manifest", ManifestSig, "policy", PolicySig}

ASSUME NamesAssumption ==
  /\ {"manifest", ManifestSig, "policy", PolicySig} \cap Models = {}
  /\ Symlinks \subseteq Models
  /\ Absent \notin Models
  /\ ModelFile \in Models \cup {Absent}
  /\ \A r \in Releases : DOMAIN r.models = Models
ASSUME ConfigsAssumption ==
  Configs \subseteq
    [mode : {"strict", "permissive"}, deny_egress : BOOLEAN,
     require_bundle_manifest : BOOLEAN, require_signed_manifest : BOOLEAN,
     require_signed_policy : BOOLEAN, replay_protection : BOOLEAN,
     require_token : BOOLEAN, require_capability_token : BOOLEAN,
     python : {"none", "process", "docker"}]
ASSUME ContentsAssumption ==
  /\ Absent \notin LocalPolicies \cup {r.policy : r \in Releases}
  /\ \A r \in Releases :
       /\ \A f \in Models : Damaged # r.models[f]
       /\ r.by # NoKey
       /\ Missing \notin {r.policy, WriteManifest(r.models),
                          SignFile("manifest", WriteManifest(r.models), r.key_id, r.by),
                          SignFile(r.policy_name, r.policy, r.key_id, r.by)}
\* An effect that is spelt otherwise is neither, and its rule denies nothing.
ASSUME DocumentsAssumption ==
  \A d \in LocalPolicies \cup {r.policy : r \in Releases} :
    /\ Len(d.rules) \in Nat /\ DOMAIN d.rules = 1..Len(d.rules)
    /\ \A i \in DOMAIN d.rules : d.rules[i].effect \in {"allow", "deny"}
ASSUME TrustAssumption == Deployed \in [KeyIds -> Keys \cup {NoKey}]
ASSUME MaxChangesAssumption == MaxChanges \in Nat

VARIABLES
  disk,      \* disk[p]: content of the file p, or Missing
  trust,     \* the trust directory
  changes,   \* changes to the host so far
  touched,   \* what changed since the start began (history)
  pc,        \* where the start stands
  cfg, dev, env,  \* effective configuration, --dev, environment
  listing,   \* the manifest the loop of verify_bundle goes through
  todo,      \* its lines not looked at yet
  sound,     \* no error so far
  envelope,  \* the envelope in hand
  policy,    \* the document loaded
  model,     \* the content loaded as the model
  refusal    \* why the process gave up

hostVars == <<disk, trust, changes, touched>>
checkVars == <<listing, todo, sound, envelope>>
startVars == <<cfg, dev, env>>
vars == <<hostVars, pc, startVars, checkVars, policy, model, refusal>>

\* The files of a release: sign_manifest and sign_file, where nothing moves.
Content(r) ==
  LET manifest == WriteManifest(r.models)
  IN  [p \in Paths |->
        CASE p = "manifest" -> manifest
          [] p = ManifestSig -> SignFile("manifest", manifest, r.key_id, r.by)
          [] p = "policy" -> r.policy
          [] p = PolicySig -> SignFile(r.policy_name, r.policy, r.key_id, r.by)
          [] OTHER -> r.models[p]]

Refusals == {"none", "config", "dev", "bundle", "python", "policy", "api", "model"}
Places == {"down", "manifest", "lines", "open manifest", "check manifest",
           "verdict", "python", "open policy", "check policy", "load", "api",
           "model", "ready", "refused"}

TypeOK ==
  /\ DOMAIN disk = Paths
  /\ trust \in [KeyIds -> Keys \cup {NoKey}]
  /\ changes \in 0..MaxChanges
  /\ touched \subseteq Paths \cup {"trust"}
  /\ pc \in Places
  /\ todo \subseteq DOMAIN listing
  /\ sound \in BOOLEAN
  /\ policy \in LocalPolicies \cup {r.policy : r \in Releases} \cup {Absent}
  /\ refusal \in Refusals
  /\ pc \in {"api", "model", "ready"} => policy # Absent
  /\ pc = "refused" <=> refusal # "none"

Nothing == [f \in {} |-> Absent]

Init ==
  /\ \E r \in Releases : disk = Content(r)
  /\ trust = Deployed
  /\ changes = 0
  /\ touched = {}
  /\ pc = "down"
  /\ cfg = Absent /\ dev = FALSE /\ env = Absent
  /\ listing = Nothing /\ todo = {} /\ sound = TRUE /\ envelope = Absent
  /\ policy = Absent
  /\ model = Absent
  /\ refusal = "none"

-----------------------------------------------------------------------------
(* The host.                                                               *)

Change(p) ==
  /\ changes < MaxChanges
  /\ changes' = changes + 1
  /\ touched' = IF pc = "down" THEN {} ELSE touched \cup {p}
  /\ UNCHANGED <<pc, startVars, checkVars, policy, model, refusal>>

\* One file of a release is copied over what is there.
Install(p) ==
  /\ \E r \in Releases : disk' = [disk EXCEPT ![p] = Content(r)[p]]
  /\ Change(p)
  /\ UNCHANGED trust

\* A model file is damaged or lost, the policy edited, an envelope lost.
Edit(p) ==
  /\ \/ p \in Models /\ \E c \in {Damaged, Missing} : disk' = [disk EXCEPT ![p] = c]
     \/ p = "policy" /\ \E c \in LocalPolicies : disk' = [disk EXCEPT ![p] = c]
     \/ p \in {"policy", ManifestSig, PolicySig} /\ disk' = [disk EXCEPT ![p] = Missing]
  /\ Change(p)
  /\ UNCHANGED trust

\* The command write-manifest on the host.
RewriteManifest ==
  /\ disk' = [disk EXCEPT !["manifest"] = WriteManifest([f \in Models |-> disk[f]])]
  /\ Change("manifest")
  /\ UNCHANGED trust

\* A public key is replaced or taken away.
ReplaceKey ==
  /\ \E id \in KeyIds, k \in Keys \cup {NoKey} : trust' = [trust EXCEPT ![id] = k]
  /\ Change("trust")
  /\ UNCHANGED disk

-----------------------------------------------------------------------------
(* The start.                                                              *)

Goto(place) == pc' = place /\ refusal' = "none"
Refuse(cause) == pc' = "refused" /\ refusal' = cause

\* strict_mode_checks, run when the configuration is built.
ValidConfig(c) == c.mode = "strict" => c.deny_egress
Validated(c) == IF c.mode = "strict" THEN [c EXCEPT !.replay_protection = TRUE] ELSE c

\* Mutation: --dev leaves the mode as it was.
DevelopmentStrict(c) ==
  [c EXCEPT !.require_bundle_manifest = FALSE, !.require_signed_manifest = FALSE,
            !.require_signed_policy = FALSE, !.replay_protection = FALSE,
            !.require_token = FALSE, !.require_capability_token = FALSE,
            !.python = IF @ = "docker" THEN "process" ELSE @]

\* What _load makes of a validated configuration under --dev.
Development(c) ==
  [c EXCEPT !.mode = "permissive", !.require_bundle_manifest = FALSE,
            !.require_signed_manifest = FALSE, !.require_signed_policy = FALSE,
            !.replay_protection = FALSE, !.require_token = FALSE,
            !.require_capability_token = FALSE,
            !.python = IF @ = "docker" THEN "process" ELSE @]

DevAllowed(e) == e.allow_dev \/ ~e.production

\* load_config, the overrides, ensure_dev_allowed.
Begin ==
  /\ pc = "down"
  /\ \E c \in Configs, d \in BOOLEAN, e \in Environments :
       /\ cfg' = IF d THEN Development(Validated(c)) ELSE Validated(c)
       /\ dev' = d
       /\ env' = e
       /\ IF ~ValidConfig(c) THEN Refuse("config")
          ELSE IF d /\ ~DevAllowed(e) THEN Refuse("dev")
          ELSE Goto(IF cfg'.require_bundle_manifest /\ ~d THEN "manifest" ELSE "python")
  /\ UNCHANGED <<hostVars, checkVars, policy, model>>

\* verify_bundle reads the manifest.
ReadManifest ==
  /\ pc = "manifest"
  /\ IF disk["manifest"] = Missing
       THEN Refuse("bundle") /\ UNCHANGED <<listing, todo>>
       ELSE /\ listing' = disk["manifest"]
            /\ todo' = DOMAIN listing'
            /\ Goto("lines")
  /\ UNCHANGED <<hostVars, startVars, sound, envelope, policy, model>>

\* Mutation: the outcome is that of the last line.
CheckLineForgetful(f) ==
  /\ pc = "lines"
  /\ f \in todo
  /\ todo' = todo \ {f}
  /\ sound' = (f \notin Symlinks /\ disk[f] # Missing /\ disk[f] = listing[f])
  /\ UNCHANGED <<hostVars, pc, startVars, listing, envelope, policy, model, refusal>>

\* A line of it: no symbolic link, the file is there, the digest is right.
CheckLine(f) ==
  /\ pc = "lines"
  /\ f \in todo
  /\ todo' = todo \ {f}
  /\ sound' = (sound /\ f \notin Symlinks /\ disk[f] # Missing /\ disk[f] = listing[f])
  /\ UNCHANGED <<hostVars, pc, startVars, listing, envelope, policy, model, refusal>>

LinesDone ==
  /\ pc = "lines"
  /\ todo = {}
  /\ Goto(IF cfg.require_signed_manifest THEN "open manifest" ELSE "verdict")
  /\ UNCHANGED <<hostVars, startVars, checkVars, policy, model>>

\* The places of the two signature checks: before, within, after.
Opening(name)  == IF name = "manifest" THEN "open manifest" ELSE "open policy"
Checking(name) == IF name = "manifest" THEN "check manifest" ELSE "check policy"
Checked(name)  == IF name = "manifest" THEN "verdict" ELSE "load"

\* verify_manifest_signature and verify_signed_artifact find and read the
\* envelope; the former looks for the manifest, too.
OpenEnvelope(name, sig) ==
  /\ pc = Opening(name)
  /\ IF disk[sig] = Missing \/ (name = "manifest" /\ disk[name] = Missing)
       THEN sound' = FALSE /\ Goto(Checked(name)) /\ UNCHANGED envelope
       ELSE envelope' = disk[sig] /\ Goto(Checking(name)) /\ UNCHANGED sound
  /\ UNCHANGED <<hostVars, startVars, listing, todo, policy, model>>

\* verify_envelope reads the file and the public key.
CheckEnvelope(name) ==
  /\ pc = Checking(name)
  /\ sound' = (sound /\ VerifyEnvelope(envelope, name, disk[name], trust))
  /\ envelope' = Absent
  /\ Goto(Checked(name))
  /\ UNCHANGED <<hostVars, startVars, listing, todo, policy, model>>

\* ensure_runtime_ready looks at the errors.
JudgeBundle ==
  /\ pc = "verdict"
  /\ IF sound THEN Goto("python") ELSE Refuse("bundle")
  /\ UNCHANGED <<hostVars, startVars, checkVars, policy, model>>

\* Strict mode wants Docker for run_python; then PolicyEngine is built.
CheckPython ==
  /\ pc = "python"
  /\ IF ~dev /\ cfg.mode = "strict" /\ cfg.python = "process" /\ ~env.allow_process_python
       THEN Refuse("python")
       ELSE Goto(IF cfg.require_signed_policy THEN "open policy" ELSE "load")
  /\ UNCHANGED <<hostVars, startVars, checkVars, policy, model>>

\* Mutation: a policy that is not there counts as an empty one.
LoadPolicyLenient ==
  /\ pc = "load"
  /\ IF ~sound
       THEN Refuse("policy") /\ UNCHANGED policy
       ELSE policy' = disk["policy"] /\ Goto("api")
  /\ UNCHANGED <<hostVars, startVars, checkVars, model>>

\* The constructor raises, or opens the file once more and loads it.
LoadPolicy ==
  /\ pc = "load"
  /\ IF ~sound \/ disk["policy"] = Missing
       THEN Refuse("policy") /\ UNCHANGED policy
       ELSE policy' = disk["policy"] /\ Goto("api")
  /\ UNCHANGED <<hostVars, startVars, checkVars, model>>

\* validate_api_config: the secret behind each token that serve asks for.
HasSecrets(c, e) ==
  /\ c.require_token => "token" \in e.secrets
  /\ c.require_capability_token => "capability" \in e.secrets

ValidateApi ==
  /\ pc = "api"
  /\ IF env.serve /\ ~HasSecrets(cfg, env) THEN Refuse("api") ELSE Goto("model")
  /\ UNCHANGED <<hostVars, startVars, checkVars, policy, model>>

\* create_backend.
LoadModel ==
  /\ pc = "model"
  /\ IF ModelFile = Absent THEN Goto("ready") /\ UNCHANGED model
     ELSE IF disk[ModelFile] = Missing THEN Refuse("model") /\ UNCHANGED model
     ELSE model' = disk[ModelFile] /\ Goto("ready")
  /\ UNCHANGED <<hostVars, startVars, checkVars, policy>>

\* The process ends, of itself or not.
Stop ==
  /\ pc # "down"
  /\ Goto("down")
  /\ cfg' = Absent /\ dev' = FALSE /\ env' = Absent
  /\ listing' = Nothing /\ todo' = {} /\ sound' = TRUE /\ envelope' = Absent
  /\ policy' = Absent /\ model' = Absent
  /\ touched' = {}
  /\ UNCHANGED <<disk, trust, changes>>

HostStep ==
  \/ \E p \in Paths : Install(p) \/ Edit(p)
  \/ RewriteManifest
  \/ ReplaceKey

StartStep ==
  \/ Begin
  \/ ReadManifest
  \/ \E f \in todo : CheckLine(f)
  \/ LinesDone
  \/ OpenEnvelope("manifest", ManifestSig)
  \/ CheckEnvelope("manifest")
  \/ JudgeBundle
  \/ CheckPython
  \/ OpenEnvelope("policy", PolicySig)
  \/ CheckEnvelope("policy")
  \/ LoadPolicy
  \/ ValidateApi
  \/ LoadModel
  \/ Stop

Next == HostStep \/ StartStep

Spec == Init /\ [][Next]_vars

-----------------------------------------------------------------------------
(* Properties                                                              *)

\* A release with this file was signed by the key pair now trusted under
\* the release's key id; a policy under the name it is loaded by.
Signed(name, content) ==
  \E r \in Releases :
    /\ trust[r.key_id] = r.by
    /\ \/ name = "manifest" /\ content = WriteManifest(r.models)
       \/ name = "policy" /\ r.policy_name = "policy" /\ content = r.policy

(***************************************************************************)
(* The files are checked first and read again later, and the manifest is   *)
(* read once for its lines and once for its signature.  Of a process that  *)
(* started it holds for each file that nobody changed in between: the      *)
(* policy in force is one a trusted key signed under this name; so is the  *)
(* list of files; and what was listed, the model in memory included, is    *)
(* what the list says (bundle.py, verify_bundle; policy.py, __init__;      *)
(* llama_cpp.py, __init__).                                                *)
(***************************************************************************)
UntouchedIsTrusted ==
  pc = "ready" /\ "trust" \notin touched =>
    /\ cfg.require_signed_policy /\ "policy" \notin touched => Signed("policy", policy)
    /\ cfg.require_bundle_manifest =>
         /\ cfg.require_signed_manifest /\ "manifest" \notin touched =>
              Signed("manifest", listing)
         /\ \A f \in DOMAIN listing \ touched :
              /\ disk[f] = listing[f]
              /\ f = ModelFile => model = listing[f]

\* A release that can be used here: signed by a trusted key, the policy
\* under the name it is loaded by, without symbolic links, with the model.
Acceptable(r) ==
  /\ trust[r.key_id] = r.by
  /\ r.policy_name = "policy"
  /\ \A f \in Symlinks : r.models[f] = Missing
  /\ ModelFile # Absent => r.models[ModelFile] # Missing

(***************************************************************************)
(* Signing and verifying fit: a host that holds such a release, all of it  *)
(* and nothing else, is never refused for its files, whatever was on it    *)
(* before (bundle.py, sign_manifest against verify_bundle; sign.py,        *)
(* sign_file against verify_envelope).                                     *)
(***************************************************************************)
InstalledReleaseStarts ==
  refusal \in {"bundle", "policy", "model"} /\ touched = {} =>
    \A r \in Releases : Acceptable(r) => disk # Content(r)

(***************************************************************************)
(* Whatever the flags and the environment, a process that started in       *)
(* strict mode was started without --dev, from a configuration that denies *)
(* egress, has its replay protection on, runs Python as a plain process    *)
(* only if the environment allows it, and, if it serves, has the secret of *)
(* each token its configuration asks for (config.py, strict_mode_checks;   *)
(* cli.py, _load; bootstrap.py).  Which tokens and signatures are asked    *)
(* for is the configuration's choice in this mode, too.                    *)
(***************************************************************************)
StrictIsStrict ==
  pc = "ready" /\ cfg.mode = "strict" =>
    /\ ~dev
    /\ cfg.deny_egress /\ cfg.replay_protection
    /\ cfg.python = "process" => env.allow_process_python
    /\ env.serve => HasSecrets(cfg, env)

(***************************************************************************)
(* "Signed YAML; unsigned policy rejected in strict mode" (README.md): the *)
(* policy in force in strict mode is signed, when nobody changed the host  *)
(* during the start.  It is only trust.require_signed_policy that decides, *)
(* and no check of strict mode looks at it (config.py,                     *)
(* strict_mode_checks; policy.py, __init__).                               *)
(***************************************************************************)
StrictPolicyIsSigned ==
  pc = "ready" /\ cfg.mode = "strict" /\ touched = {} => Signed("policy", policy)

(***************************************************************************)
(* The policy in force allows a request exactly if one of its rules does   *)
(* and none denies, in whatever order they stand, or if none applies and   *)
(* the default allows (policy.py, evaluate).                               *)
(***************************************************************************)
DenyOverrides ==
  policy # Absent =>
    \A q \in Requests : Evaluate(policy, q) = "allow" <=> Permitted(policy, q)
=============================================================================
