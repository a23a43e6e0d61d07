------------------------- MODULE TrustedStartProofs -------------------------
(***************************************************************************)
(* Theorems about TrustedStart, for every value of its constants.          *)
(***************************************************************************)
EXTENDS TrustedStart, FiniteSetTheorems, TLAPS

Documents == LocalPolicies \cup {r.policy : r \in Releases}

\* The files of a release have the shape of the host's.
LEMMA ContentOfRelease ==
  ASSUME NEW r \in Releases
  PROVE  /\ DOMAIN Content(r) = Paths
         /\ Content(r)["manifest"] = WriteManifest(r.models)
         /\ Content(r)[ManifestSig] =
              SignFile("manifest", WriteManifest(r.models), r.key_id, r.by)
         /\ Content(r)["policy"] = r.policy
         /\ Content(r)[PolicySig] =
              SignFile(r.policy_name, r.policy, r.key_id, r.by)
         /\ \A f \in Models : Content(r)[f] = r.models[f]
BY NamesAssumption DEF Content, Paths, ManifestSig, PolicySig

\* What the policy file can hold.
PolicyFile == disk["policy"] \in Documents \cup {Missing}

TypeInv == TypeOK /\ PolicyFile

\* A change to the host keeps the types.
LEMMA TypeHostStep ==
  ASSUME TypeInv, HostStep
  PROVE  TypeInv'
<1> USE DEF TypeInv, TypeOK, Change, hostVars, checkVars, startVars
<1>1. "policy" \in Paths /\ "manifest" \in Paths
  BY DEF Paths
<1>2. CASE \E p \in Paths : Install(p)
  <2>1. PICK p \in Paths : Install(p)
    BY <1>2
  <2>2. PICK r \in Releases : disk' = [disk EXCEPT ![p] = Content(r)[p]]
    BY <2>1 DEF Install
  <2>3. PolicyFile'
    BY <1>1, <2>2, ContentOfRelease DEF PolicyFile, Documents
  <2> QED
    BY <2>1, <2>2, <2>3, MaxChangesAssumption DEF Install
<1>3. CASE \E p \in Paths : Edit(p)
  <2>1. PICK p \in Paths : Edit(p)
    BY <1>3
  <2>2. DOMAIN disk' = Paths
    BY <2>1 DEF Edit
  <2>3. PolicyFile'
    BY <1>1, <2>1, NamesAssumption DEF Edit, PolicyFile, Documents, ManifestSig, PolicySig
  <2> QED
    BY <2>1, <2>2, <2>3, MaxChangesAssumption DEF Edit
<1>4. CASE RewriteManifest
  BY <1>1, <1>4, MaxChangesAssumption DEF RewriteManifest, PolicyFile
<1>5. CASE ReplaceKey
  BY <1>5, MaxChangesAssumption DEF ReplaceKey, PolicyFile
<1> QED
  BY <1>2, <1>3, <1>4, <1>5 DEF HostStep

\* A step of the start keeps the types.
LEMMA TypeStartStep ==
  ASSUME TypeInv, StartStep
  PROVE  TypeInv'
<1> USE DEF TypeInv, TypeOK, PolicyFile, Goto, Refuse, Places, Refusals,
            hostVars, checkVars, startVars
<1>1. CASE Begin
  BY <1>1 DEF Begin
<1>2. CASE ReadManifest
  BY <1>2 DEF ReadManifest
<1>3. CASE \E f \in todo : CheckLine(f)
  BY <1>3 DEF CheckLine
<1>4. CASE LinesDone
  BY <1>4 DEF LinesDone
<1>5. ASSUME NEW name, NEW sig, OpenEnvelope(name, sig) PROVE TypeInv'
  BY <1>5 DEF OpenEnvelope, Opening, Checking, Checked
<1>6. ASSUME NEW name, CheckEnvelope(name) PROVE TypeInv'
  BY <1>6 DEF CheckEnvelope, Checking, Checked
<1>7. CASE JudgeBundle
  BY <1>7 DEF JudgeBundle
<1>8. CASE CheckPython
  BY <1>8 DEF CheckPython
<1>9. CASE LoadPolicy
  BY <1>9, ContentsAssumption DEF LoadPolicy, Documents
<1>10. CASE ValidateApi
  BY <1>10 DEF ValidateApi
<1>11. CASE LoadModel
  BY <1>11 DEF LoadModel
<1>12. CASE Stop
  BY <1>12 DEF Stop
<1> QED
  BY <1>1, <1>2, <1>3, <1>4, <1>5, <1>6, <1>7, <1>8, <1>9, <1>10, <1>11, <1>12
  DEF StartStep

(***************************************************************************)
(* Every variable keeps its type, a process past the constructor of        *)
(* PolicyEngine has a policy, and it gives up only for a cause             *)
(* (bootstrap.py, ensure_runtime_ready).                                   *)
(***************************************************************************)
THEOREM TypeCorrect == Spec => []TypeOK
<1>1. Init => TypeInv
  <2> SUFFICES ASSUME Init PROVE TypeInv
    OBVIOUS
  <2>1. PICK r \in Releases : disk = Content(r)
    BY DEF Init
  <2>2. DOMAIN disk = Paths /\ PolicyFile
    BY <2>1, ContentOfRelease DEF PolicyFile, Documents
  <2>3. changes \in 0..MaxChanges
    BY MaxChangesAssumption DEF Init
  <2>4. trust \in [KeyIds -> Keys \cup {NoKey}]
    BY TrustAssumption DEF Init
  <2>5. pc = "down" /\ refusal = "none" /\ policy = Absent /\ todo = {}
        /\ touched = {} /\ sound = TRUE
    BY DEF Init
  <2> QED
    BY <2>2, <2>3, <2>4, <2>5 DEF TypeInv, TypeOK, Places, Refusals
<1>2. TypeInv /\ [Next]_vars => TypeInv'
  <2>1. TypeInv /\ UNCHANGED vars => TypeInv'
    BY DEF vars, hostVars, startVars, checkVars, TypeInv, TypeOK, PolicyFile
  <2> QED
    BY <2>1, TypeHostStep, TypeStartStep DEF Next
<1>3. TypeInv => TypeOK
  BY DEF TypeInv
<1> QED
  BY <1>1, <1>2, <1>3, PTL DEF Spec

-----------------------------------------------------------------------------
(* The policy.                                                             *)

\* A set of places that is not empty has a last one.  If each had a later
\* one, the numbers up to them could be mapped one to one into themselves
\* without 0.
LEMMA LastExists ==
  ASSUME NEW n \in Nat, NEW S \in SUBSET (1..n), S # {}
  PROVE  \E i \in S : \A j \in S : j <= i
<1> SUFFICES ASSUME \A i \in S : \E j \in S : j > i PROVE FALSE
  OBVIOUS
<1> DEFINE U == {k \in 0..n : \E j \in S : k <= j}
           f == [k \in U |-> k + 1]
<1>1. IsFiniteSet(U)
  <2>1. IsFiniteSet(0..n)
    BY FS_Interval
  <2> QED
    BY <2>1, FS_Subset
<1>2. 0 \in U
  <2>1. PICK j \in S : TRUE
    OBVIOUS
  <2> QED
    BY <2>1
<1>3. IsFiniteSet(U \ {0}) /\ Cardinality(U \ {0}) = Cardinality(U) - 1
  BY <1>1, <1>2, FS_RemoveElement
<1>4. ASSUME NEW k \in U PROVE k + 1 \in U \ {0}
  <2>1. PICK j \in S : k <= j
    OBVIOUS
  <2>2. PICK i \in S : i > j
    OBVIOUS
  <2>3. k + 1 \in 0..n /\ k + 1 <= i /\ k + 1 # 0
    BY <2>1, <2>2
  <2> QED
    BY <2>3
<1>5. f \in Injection(U, U \ {0})
  <2>1. f \in [U -> U \ {0}]
    BY <1>4
  <2>2. \A a, b \in U : f[a] = f[b] => a = b
    OBVIOUS
  <2> QED
    BY <2>1, <2>2 DEF Injection, IsInjective
<1> HIDE DEF U, f
<1>6. Cardinality(U) <= Cardinality(U \ {0})
  BY <1>3, <1>5, FS_Injection
<1> QED
  BY <1>1, <1>3, <1>6, FS_CardinalityType

\* evaluate allows what the reference permits, for every document and
\* every request.
LEMMA EvaluatePermits ==
  ASSUME NEW doc, NEW request, doc \in Documents
  PROVE  Evaluate(doc, request) = "allow" <=> Permitted(doc, request)
<1> DEFINE matched == Matched(doc.rules, request)
           last == LastOf(matched)
<1>1. /\ Len(doc.rules) \in Nat
      /\ DOMAIN doc.rules = 1..Len(doc.rules)
      /\ \A i \in DOMAIN doc.rules : doc.rules[i].effect \in {"allow", "deny"}
  BY DocumentsAssumption DEF Documents
<1>2. matched \subseteq 1..Len(doc.rules)
  BY <1>1 DEF Matched
<1>3. CASE matched = {}
  BY <1>3 DEF Evaluate, Permitted
<1>4. CASE matched # {} /\ \E i \in matched : doc.rules[i].effect = "deny"
  BY <1>4 DEF Evaluate, Permitted
<1>5. CASE matched # {} /\ ~\E i \in matched : doc.rules[i].effect = "deny"
  <2>1. \E i \in matched : \A j \in matched : j <= i
    BY <1>1, <1>2, <1>5, LastExists
  <2>2. last \in matched
    BY <2>1 DEF LastOf
  <2>3. doc.rules[last].effect = "allow"
    BY <1>1, <1>2, <1>5, <2>2
  <2>4. Evaluate(doc, request) = doc.rules[last].effect
    BY <1>5 DEF Evaluate
  <2>5. Permitted(doc, request)
    BY <1>5, <2>2, <2>3 DEF Permitted
  <2> QED
    BY <2>3, <2>4, <2>5
<1> QED
  BY <1>3, <1>4, <1>5

(***************************************************************************)
(* The policy in force allows a request exactly if a rule does and none    *)
(* denies, or if none applies and the default allows, for documents of     *)
(* any length (policy.py, evaluate).                                       *)
(***************************************************************************)
THEOREM DenialsOverride == Spec => []DenyOverrides
<1>1. TypeOK => DenyOverrides
  <2> SUFFICES ASSUME TypeOK, policy # Absent, NEW q \in Requests
               PROVE  Evaluate(policy, q) = "allow" <=> Permitted(policy, q)
    BY DEF DenyOverrides
  <2>1. policy \in Documents
    BY DEF TypeOK, Documents
  <2> QED
    BY <2>1, EvaluatePermits
<1> QED
  BY <1>1, TypeCorrect, PTL

-----------------------------------------------------------------------------
(* Strict mode.                                                            *)

Running == Places \ {"down", "refused"}
PastPython == {"open policy", "check policy", "load", "api", "model", "ready"}

\* What is settled of strict mode at each place of the start.
StrictInv ==
  cfg.mode = "strict" =>
    /\ pc \in Running => dev = FALSE /\ cfg.deny_egress /\ cfg.replay_protection
    /\ pc \in PastPython /\ cfg.python = "process" => env.allow_process_python
    /\ pc \in {"model", "ready"} /\ env.serve => HasSecrets(cfg, env)

\* The configuration as Begin leaves it is strict only if the file was, and
\* then it is what strict_mode_checks makes of it.
LEMMA StrictConfig ==
  ASSUME NEW c \in Configs
  PROVE  /\ Development(Validated(c)).mode = "permissive"
         /\ Validated(c).mode = "strict" /\ ValidConfig(c) =>
              Validated(c).deny_egress /\ Validated(c).replay_protection
<1>1. c \in [mode : {"strict", "permissive"}, deny_egress : BOOLEAN,
     require_bundle_manifest : BOOLEAN, require_signed_manifest : BOOLEAN,
     require_signed_policy : BOOLEAN, replay_protection : BOOLEAN,
     require_token : BOOLEAN, require_capability_token : BOOLEAN,
     python : {"none", "process", "docker"}]
  BY ConfigsAssumption
<1>2. Validated(c) \in [mode : {"strict", "permissive"}, deny_egress : BOOLEAN,
     require_bundle_manifest : BOOLEAN, require_signed_manifest : BOOLEAN,
     require_signed_policy : BOOLEAN, replay_protection : BOOLEAN,
     require_token : BOOLEAN, require_capability_token : BOOLEAN,
     python : {"none", "process", "docker"}]
  BY <1>1 DEF Validated
<1>3. Development(Validated(c)).mode = "permissive"
  BY <1>2 DEF Development
<1>4. Validated(c).mode = c.mode /\ Validated(c).deny_egress = c.deny_egress
  BY <1>1 DEF Validated
<1>5. c.mode = "strict" => Validated(c).replay_protection = TRUE
  BY <1>1 DEF Validated
<1> QED
  BY <1>3, <1>4, <1>5 DEF ValidConfig

LEMMA StrictStep ==
  ASSUME StrictInv, [Next]_vars
  PROVE  StrictInv'
<1> USE DEF StrictInv, Running, PastPython, Places, Goto, Refuse, HasSecrets
<1>1. CASE HostStep \/ UNCHANGED vars
  BY <1>1 DEF HostStep, Install, Edit, RewriteManifest, ReplaceKey, Change,
              startVars, vars, hostVars, checkVars
<1>2. CASE Begin
  <2>1. PICK c \in Configs, d \in BOOLEAN, e \in Environments :
          /\ cfg' = IF d THEN Development(Validated(c)) ELSE Validated(c)
          /\ dev' = d
          /\ IF ~ValidConfig(c) THEN Refuse("config")
             ELSE IF d /\ ~DevAllowed(e) THEN Refuse("dev")
             ELSE Goto(IF cfg'.require_bundle_manifest /\ ~d THEN "manifest" ELSE "python")
    BY <1>2 DEF Begin
  <2>2. pc' \in {"refused", "manifest", "python"} /\ (pc' # "refused" => ValidConfig(c))
    BY <2>1
  <2> QED
    BY <2>1, <2>2, StrictConfig
<1>3. CASE ReadManifest
  BY <1>3 DEF ReadManifest, startVars
<1>4. CASE \E f \in todo : CheckLine(f)
  BY <1>4 DEF CheckLine, startVars
<1>5. CASE LinesDone
  BY <1>5 DEF LinesDone, startVars
<1>6. CASE OpenEnvelope("manifest", ManifestSig) \/ OpenEnvelope("policy", PolicySig)
  BY <1>6 DEF OpenEnvelope, startVars, Opening, Checking, Checked
<1>7. CASE CheckEnvelope("manifest") \/ CheckEnvelope("policy")
  BY <1>7 DEF CheckEnvelope, startVars, Checking, Checked
<1>8. CASE JudgeBundle
  BY <1>8 DEF JudgeBundle, startVars
<1>9. CASE CheckPython
  BY <1>9 DEF CheckPython, startVars
<1>10. CASE LoadPolicy
  BY <1>10 DEF LoadPolicy, startVars
<1>11. CASE ValidateApi
  BY <1>11 DEF ValidateApi, startVars
<1>12. CASE LoadModel
  BY <1>12 DEF LoadModel, startVars
<1>13. CASE Stop
  BY <1>13 DEF Stop
<1> QED
  BY <1>1, <1>2, <1>3, <1>4, <1>5, <1>6, <1>7, <1>8, <1>9, <1>10, <1>11, <1>12,
     <1>13 DEF Next, StartStep

(***************************************************************************)
(* For every configuration file, flag and environment: a process that      *)
(* started in strict mode is none of --dev, was configured to deny egress, *)
(* has its replay protection on, its Python contained unless the           *)
(* environment allows otherwise, and the secrets of the tokens it asks for *)
(* (config.py, strict_mode_checks; cli.py, _load; bootstrap.py).           *)
(***************************************************************************)
THEOREM StrictStaysStrict == Spec => []StrictIsStrict
<1>1. Init => StrictInv
  BY DEF Init, StrictInv, Running, PastPython
<1>2. StrictInv /\ [Next]_vars => StrictInv'
  BY StrictStep
<1>3. StrictInv => StrictIsStrict
  BY DEF StrictInv, StrictIsStrict, Running, PastPython, Places
<1> QED
  BY <1>1, <1>2, <1>3, PTL DEF Spec

-----------------------------------------------------------------------------
(* What is checked against what is read.                                   *)

ManifestEnvelope(e) ==
  \E r \in Releases : e = SignFile("manifest", WriteManifest(r.models), r.key_id, r.by)
PolicyEnvelope(e) ==
  \E r \in Releases : e = SignFile(r.policy_name, r.policy, r.key_id, r.by)

\* What lies on the disk was made by the two commands that sign.
HostInv ==
  /\ DOMAIN disk = Paths
  /\ disk["manifest"] # Missing => DOMAIN disk["manifest"] \subseteq Models
  /\ disk[ManifestSig] # Missing => ManifestEnvelope(disk[ManifestSig])
  /\ disk[PolicySig] # Missing => PolicyEnvelope(disk[PolicySig])

LinesRead == {"open manifest", "check manifest", "verdict"}
PastBundle == {"python"} \cup PastPython
Loaded == {"api", "model", "ready"}

InHand ==
  /\ pc = "check manifest" => ManifestEnvelope(envelope)
  /\ pc = "check policy" => PolicyEnvelope(envelope)

\* The list is the manifest on disk until that changes.
ListInv ==
  /\ DOMAIN listing \subseteq Models
  /\ pc \in {"lines"} \cup LinesRead /\ "manifest" \notin touched =>
       listing = disk["manifest"]

\* The lines checked so far were right and still are, where nobody wrote.
LinesInv ==
  /\ pc = "lines" /\ sound =>
       \A f \in DOMAIN listing \ (todo \cup touched) : disk[f] = listing[f]
  /\ \/ pc \in LinesRead /\ sound
     \/ pc \in PastBundle /\ cfg.require_bundle_manifest
     => \A f \in DOMAIN listing \ touched : disk[f] = listing[f]

SignedListInv ==
  /\ \/ pc = "verdict" /\ sound
     \/ pc \in PastBundle /\ cfg.require_bundle_manifest
  /\ cfg.require_signed_manifest /\ {"manifest", "trust"} \cap touched = {}
  => Signed("manifest", listing)

SignedPolicyInv ==
  cfg.require_signed_policy /\ {"policy", "trust"} \cap touched = {} =>
    /\ pc = "load" /\ sound => Signed("policy", disk["policy"])
    /\ pc \in Loaded => Signed("policy", policy)

ModelInv ==
  pc = "ready" /\ cfg.require_bundle_manifest =>
    \A f \in DOMAIN listing \ touched : f = ModelFile => model = listing[f]

TrustInv == HostInv /\ InHand /\ ListInv /\ LinesInv /\ SignedListInv
            /\ SignedPolicyInv /\ ModelInv

\* An envelope that verifies names what a trusted key signed.
LEMMA VerifiedManifest ==
  ASSUME NEW e, ManifestEnvelope(e), NEW content,
         VerifyEnvelope(e, "manifest", content, trust)
  PROVE  Signed("manifest", content)
<1>1. PICK r \in Releases :
        e = SignFile("manifest", WriteManifest(r.models), r.key_id, r.by)
  BY DEF ManifestEnvelope
<1>2. /\ e.target_sha256 = WriteManifest(r.models)
      /\ e.key_id = r.key_id
      /\ e.signature = [by |-> r.by, over |-> WriteManifest(r.models)]
  BY <1>1 DEF SignFile
<1>3. /\ content = e.target_sha256
      /\ e.signature = [by |-> trust[e.key_id], over |-> e.target_sha256]
  BY DEF VerifyEnvelope
<1>4. content = WriteManifest(r.models) /\ trust[r.key_id] = r.by
  BY <1>2, <1>3
<1> QED
  BY <1>4 DEF Signed

LEMMA VerifiedPolicy ==
  ASSUME NEW e, PolicyEnvelope(e), NEW content,
         VerifyEnvelope(e, "policy", content, trust)
  PROVE  Signed("policy", content)
<1>1. PICK r \in Releases : e = SignFile(r.policy_name, r.policy, r.key_id, r.by)
  BY DEF PolicyEnvelope
<1>2. /\ e.target = r.policy_name
      /\ e.target_sha256 = r.policy
      /\ e.key_id = r.key_id
      /\ e.signature = [by |-> r.by, over |-> r.policy]
  BY <1>1 DEF SignFile
<1>3. /\ "policy" = e.target
      /\ content = e.target_sha256
      /\ e.signature = [by |-> trust[e.key_id], over |-> e.target_sha256]
  BY DEF VerifyEnvelope
<1>4. content = r.policy /\ trust[r.key_id] = r.by /\ r.policy_name = "policy"
  BY <1>2, <1>3
<1> QED
  BY <1>4 DEF Signed

\* A step of the host changes one thing and says so.
LEMMA HostFrame ==
  ASSUME HostInv, HostStep
  PROVE  \E x \in Paths \cup {"trust"} :
           /\ touched' = IF pc = "down" THEN {} ELSE touched \cup {x}
           /\ \A p \in Paths \ {x} : disk'[p] = disk[p]
           /\ x # "trust" => trust' = trust
           /\ UNCHANGED <<pc, startVars, checkVars, policy, model>>
<1> USE DEF HostInv, Change
<1>1. "manifest" \in Paths
  BY DEF Paths
<1>2. CASE \E p \in Paths : Install(p)
  <2>1. PICK p \in Paths : Install(p)
    BY <1>2
  <2>2. PICK r \in Releases : disk' = [disk EXCEPT ![p] = Content(r)[p]]
    BY <2>1 DEF Install
  <2>3. \A q \in Paths \ {p} : disk'[q] = disk[q]
    BY <2>2
  <2> QED
    BY <2>1, <2>3 DEF Install
<1>3. CASE \E p \in Paths : Edit(p)
  <2>1. PICK p \in Paths : Edit(p)
    BY <1>3
  <2>2. \A q \in Paths \ {p} : disk'[q] = disk[q]
    BY <2>1 DEF Edit
  <2> QED
    BY <2>1, <2>2 DEF Edit
<1>4. CASE RewriteManifest
  <2>1. \A q \in Paths \ {"manifest"} : disk'[q] = disk[q]
    BY <1>4 DEF RewriteManifest
  <2> QED
    BY <1>1, <1>4, <2>1 DEF RewriteManifest
<1>5. CASE ReplaceKey
  BY <1>5 DEF ReplaceKey
<1> QED
  BY <1>2, <1>3, <1>4, <1>5 DEF HostStep

LEMMA HostKeepsDisk ==
  ASSUME HostInv, HostStep
  PROVE  HostInv'
<1> USE DEF HostInv
<1>1. {"manifest", ManifestSig, "policy", PolicySig} \subseteq Paths
      /\ ManifestSig \notin {"manifest", "policy", PolicySig}
      /\ PolicySig \notin {"manifest", "policy"}
      /\ {"manifest", ManifestSig, PolicySig} \cap Models = {}
  BY NamesAssumption DEF Paths, ManifestSig, PolicySig
<1>2. \A files : DOMAIN WriteManifest(files) \subseteq DOMAIN files
  BY DEF WriteManifest
<1>3. CASE \E p \in Paths : Install(p)
  <2>1. PICK p \in Paths : Install(p)
    BY <1>3
  <2>2. PICK r \in Releases : disk' = [disk EXCEPT ![p] = Content(r)[p]]
    BY <2>1 DEF Install
  <2>3. \A q \in Paths : disk'[q] = IF q = p THEN Content(r)[q] ELSE disk[q]
    BY <2>2
  <2>4. DOMAIN disk' = Paths
    BY <2>2
  <2>5. DOMAIN Content(r)["manifest"] \subseteq Models
    BY <1>2, ContentOfRelease, NamesAssumption
  <2>6. ManifestEnvelope(Content(r)[ManifestSig]) /\ PolicyEnvelope(Content(r)[PolicySig])
    BY ContentOfRelease DEF ManifestEnvelope, PolicyEnvelope
  <2>7. disk'["manifest"] # Missing => DOMAIN disk'["manifest"] \subseteq Models
    BY <1>1, <2>3, <2>5
  <2>8. disk'[ManifestSig] # Missing => ManifestEnvelope(disk'[ManifestSig])
    BY <1>1, <2>3, <2>6
  <2>9. disk'[PolicySig] # Missing => PolicyEnvelope(disk'[PolicySig])
    BY <1>1, <2>3, <2>6
  <2> QED
    BY <2>4, <2>7, <2>8, <2>9
<1>4. CASE \E p \in Paths : Edit(p)
  <2>1. PICK p \in Paths : Edit(p)
    BY <1>4
  <2>2. DOMAIN disk' = Paths /\ disk'["manifest"] = disk["manifest"]
    BY <1>1, <2>1 DEF Edit
  <2>3. /\ disk'[ManifestSig] \in {disk[ManifestSig], Missing}
        /\ disk'[PolicySig] \in {disk[PolicySig], Missing}
    BY <1>1, <2>1 DEF Edit
  <2> QED
    BY <2>2, <2>3
<1>5. CASE RewriteManifest
  <2> DEFINE files == [f \in Models |-> disk[f]]
  <2>1. DOMAIN WriteManifest(files) \subseteq Models
    BY <1>2
  <2>2. disk' = [disk EXCEPT !["manifest"] = WriteManifest(files)]
    BY <1>5 DEF RewriteManifest
  <2> HIDE DEF files
  <2> QED
    BY <1>1, <2>1, <2>2
<1>6. CASE ReplaceKey
  BY <1>6 DEF ReplaceKey
<1> QED
  BY <1>3, <1>4, <1>5, <1>6 DEF HostStep

\* What was checked stays true where the host was not touched.
LEMMA HostKeepsTrust ==
  ASSUME TrustInv, HostStep
  PROVE  TrustInv'
<1>1. HostInv'
  BY HostKeepsDisk DEF TrustInv
<1>2. PICK x \in Paths \cup {"trust"} :
        /\ touched' = IF pc = "down" THEN {} ELSE touched \cup {x}
        /\ \A p \in Paths \ {x} : disk'[p] = disk[p]
        /\ x # "trust" => trust' = trust
        /\ UNCHANGED <<pc, startVars, checkVars, policy, model>>
  BY HostFrame DEF TrustInv
<1>3. /\ pc' = pc /\ cfg' = cfg /\ listing' = listing /\ todo' = todo
      /\ sound' = sound /\ envelope' = envelope /\ policy' = policy /\ model' = model
  BY <1>2 DEF startVars, checkVars
<1>4. {"manifest", "policy"} \subseteq Paths /\ Models \subseteq Paths
  BY DEF Paths
<1>5. pc # "down" => x \in touched' /\ touched \subseteq touched'
  BY <1>2
<1>6. InHand'
  BY <1>3 DEF TrustInv, InHand, ManifestEnvelope, PolicyEnvelope
<1>7. ListInv'
  BY <1>2, <1>3, <1>4, <1>5 DEF TrustInv, ListInv, LinesRead
<1>8. DOMAIN listing \subseteq Paths
  BY <1>4 DEF TrustInv, ListInv
<1>9. pc # "down" => \A f \in DOMAIN listing \ touched' : f \notin touched /\ disk'[f] = disk[f]
  BY <1>2, <1>5, <1>8
<1>10. LinesInv'
  BY <1>3, <1>9 DEF TrustInv, LinesInv, LinesRead, PastBundle, PastPython
<1>11. ASSUME pc # "down", "trust" \notin touched', NEW name, NEW content,
              Signed(name, content)
       PROVE  Signed(name, content)'
  BY <1>2, <1>5, <1>11 DEF Signed
<1>12. SignedListInv'
  BY <1>3, <1>5, <1>11 DEF TrustInv, SignedListInv, PastBundle, PastPython
<1>13. SignedPolicyInv'
  <2> SUFFICES ASSUME cfg.require_signed_policy, {"policy", "trust"} \cap touched' = {},
                      pc \in {"load"} \cup Loaded
               PROVE  /\ pc = "load" /\ sound => Signed("policy", disk["policy"])'
                      /\ pc \in Loaded => Signed("policy", policy)'
    BY <1>3 DEF SignedPolicyInv
  <2>1. pc # "down" /\ {"policy", "trust"} \cap touched = {}
    BY <1>5 DEF Loaded
  <2>2. disk'["policy"] = disk["policy"]
    BY <1>2, <1>4, <1>5, <2>1
  <2>3. pc = "load" /\ sound => Signed("policy", disk["policy"])'
    BY <1>2, <1>5, <2>1, <2>2 DEF TrustInv, SignedPolicyInv, Signed
  <2>4. pc \in Loaded => Signed("policy", policy)'
    BY <1>2, <1>3, <1>5, <2>1 DEF TrustInv, SignedPolicyInv, Signed
  <2> QED
    BY <2>3, <2>4
<1>14. ModelInv'
  BY <1>3, <1>5 DEF TrustInv, ModelInv
<1> QED
  BY <1>1, <1>6, <1>7, <1>10, <1>12, <1>13, <1>14 DEF TrustInv

\* A step of the start leaves the host alone.
LEMMA StartFrame ==
  ASSUME StartStep
  PROVE  disk' = disk /\ trust' = trust
BY DEF StartStep, Begin, ReadManifest, CheckLine, LinesDone, OpenEnvelope,
       CheckEnvelope, JudgeBundle, CheckPython, LoadPolicy, ValidateApi,
       LoadModel, Stop, hostVars

\* What each step of the start checks, and what the later ones keep of it.
LEMMA StartKeepsTrust ==
  ASSUME TrustInv, StartStep
  PROVE  TrustInv'
<1>1. disk' = disk /\ trust' = trust
  BY StartFrame
<1>2. HostInv'
  BY <1>1 DEF TrustInv, HostInv, ManifestEnvelope, PolicyEnvelope
<1>3. \A name, content : Signed(name, content) => Signed(name, content)'
  BY <1>1 DEF Signed
<1> USE <1>1, <1>2 DEF TrustInv, Goto, Refuse
<1>4. CASE Begin
  <2>1. PICK c \in Configs, d \in BOOLEAN, e \in Environments :
          /\ cfg' = IF d THEN Development(Validated(c)) ELSE Validated(c)
          /\ IF ~ValidConfig(c) THEN Refuse("config")
             ELSE IF d /\ ~DevAllowed(e) THEN Refuse("dev")
             ELSE Goto(IF cfg'.require_bundle_manifest /\ ~d THEN "manifest" ELSE "python")
    BY <1>4 DEF Begin
  <2>2. d => cfg'.require_bundle_manifest = FALSE
    BY <2>1, ConfigsAssumption DEF Development, Validated
  <2>3. pc' \in {"refused", "manifest", "python"}
        /\ (pc' = "python" => ~cfg'.require_bundle_manifest)
    BY <2>1, <2>2
  <2>4. UNCHANGED <<touched, listing, todo, sound, envelope, policy, model>>
    BY <1>4 DEF Begin, hostVars, checkVars
  <2>5. InHand' /\ ListInv'
    BY <2>3, <2>4 DEF InHand, ListInv, LinesRead
  <2>6. LinesInv' /\ SignedListInv'
    BY <2>3 DEF LinesInv, LinesRead, PastBundle, PastPython, SignedListInv
  <2>7. SignedPolicyInv' /\ ModelInv'
    BY <2>3 DEF SignedPolicyInv, Loaded, ModelInv
  <2> QED
    BY <2>5, <2>6, <2>7
<1>5. CASE ReadManifest
  <2>1. pc' \in {"refused", "lines"} /\ UNCHANGED <<touched, cfg>>
    BY <1>5 DEF ReadManifest, hostVars, startVars
  <2>2. InHand' /\ SignedListInv' /\ SignedPolicyInv' /\ ModelInv'
    BY <2>1 DEF InHand, SignedListInv, PastBundle, PastPython, SignedPolicyInv, Loaded, ModelInv
  <2>3. CASE disk["manifest"] = Missing
    <3>1. pc' = "refused" /\ listing' = listing
      BY <1>5, <2>3 DEF ReadManifest
    <3> QED
      BY <2>2, <3>1 DEF ListInv, LinesInv, LinesRead, PastBundle, PastPython
  <2>4. CASE disk["manifest"] # Missing
    <3>1. listing' = disk["manifest"] /\ todo' = DOMAIN listing' /\ pc' = "lines"
      BY <1>5, <2>4 DEF ReadManifest
    <3>2. ListInv'
      BY <2>4, <3>1 DEF ListInv, HostInv
    <3>3. LinesInv'
      BY <3>1 DEF LinesInv, LinesRead, PastBundle, PastPython
    <3> QED
      BY <2>2, <3>2, <3>3
  <2> QED
    BY <2>3, <2>4
<1>6. CASE \E f \in todo : CheckLine(f)
  <2>1. PICK f \in todo : CheckLine(f)
    BY <1>6
  <2>2. /\ pc = "lines" /\ pc' = "lines" /\ todo' = todo \ {f}
        /\ UNCHANGED <<touched, cfg, listing, envelope, policy, model>>
        /\ sound' => sound /\ disk[f] = listing[f]
    BY <2>1 DEF CheckLine, hostVars, startVars
  <2>3. LinesInv'
    BY <2>2 DEF LinesInv, LinesRead, PastBundle, PastPython
  <2>4. InHand' /\ ListInv' /\ SignedListInv' /\ SignedPolicyInv' /\ ModelInv'
    BY <2>2 DEF InHand, ListInv, SignedListInv, PastBundle, PastPython,
                SignedPolicyInv, Loaded, ModelInv
  <2> QED
    BY <2>3, <2>4
<1>7. CASE LinesDone
  <2>1. /\ pc = "lines" /\ todo = {}
        /\ pc' = IF cfg.require_signed_manifest THEN "open manifest" ELSE "verdict"
        /\ UNCHANGED <<touched, cfg, listing, sound, envelope, policy, model>>
    BY <1>7 DEF LinesDone, hostVars, startVars, checkVars
  <2>2. LinesInv'
    BY <2>1 DEF LinesInv, LinesRead, PastBundle, PastPython
  <2>3. InHand' /\ ListInv' /\ SignedListInv' /\ SignedPolicyInv' /\ ModelInv'
    BY <2>1 DEF InHand, ListInv, LinesRead, SignedListInv, PastBundle, PastPython,
                SignedPolicyInv, Loaded, ModelInv
  <2> QED
    BY <2>2, <2>3
<1>8. CASE OpenEnvelope("manifest", ManifestSig)
  <2>1. /\ pc = "open manifest"
        /\ UNCHANGED <<touched, cfg, listing, policy, model>>
        /\ \/ pc' = "verdict" /\ ~sound'
           \/ /\ pc' = "check manifest" /\ (sound' => sound)
              /\ disk[ManifestSig] # Missing /\ envelope' = disk[ManifestSig]
    BY <1>8 DEF OpenEnvelope, Opening, Checking, Checked, hostVars, startVars
  <2>2. InHand'
    <3>1. disk[ManifestSig] # Missing => ManifestEnvelope(disk[ManifestSig])
      BY DEF HostInv
    <3>2. pc' = "check manifest" => ManifestEnvelope(envelope')
      BY <2>1, <3>1
    <3> QED
      BY <2>1, <3>2 DEF InHand, ManifestEnvelope
  <2>3. LinesInv'
    BY <2>1 DEF LinesInv, LinesRead, PastBundle, PastPython
  <2>4. ListInv' /\ SignedListInv' /\ SignedPolicyInv' /\ ModelInv'
    BY <2>1 DEF ListInv, LinesRead, SignedListInv, PastBundle, PastPython,
                SignedPolicyInv, Loaded, ModelInv
  <2> QED
    BY <2>2, <2>3, <2>4
<1>9. CASE CheckEnvelope("manifest")
  <2>1. /\ pc = "check manifest" /\ pc' = "verdict"
        /\ UNCHANGED <<touched, cfg, listing, policy, model>>
        /\ sound' = (sound /\ VerifyEnvelope(envelope, "manifest", disk["manifest"], trust))
    BY <1>9 DEF CheckEnvelope, Checking, Checked, hostVars, startVars
  <2>2. SignedListInv'
    <3> SUFFICES ASSUME sound', "manifest" \notin touched
                 PROVE  Signed("manifest", listing)'
      BY <2>1 DEF SignedListInv, PastBundle, PastPython
    <3>1. ManifestEnvelope(envelope) /\ listing = disk["manifest"]
      BY <2>1 DEF InHand, ListInv, LinesRead
    <3>2. Signed("manifest", disk["manifest"])
      BY <2>1, <3>1, VerifiedManifest
    <3> QED
      BY <2>1, <3>1, <3>2 DEF Signed
  <2>3. InHand' /\ ListInv' /\ LinesInv' /\ SignedPolicyInv' /\ ModelInv'
    BY <2>1 DEF InHand, ListInv, LinesInv, LinesRead, PastBundle, PastPython,
                SignedPolicyInv, Loaded, ModelInv
  <2> QED
    BY <2>2, <2>3
<1>10. CASE JudgeBundle
  <2>1. /\ pc = "verdict" /\ pc' \in {"python", "refused"} /\ (pc' = "python" => sound)
        /\ UNCHANGED <<touched, cfg, listing, sound, policy, model>>
    BY <1>10 DEF JudgeBundle, hostVars, startVars, checkVars
  <2>2. SignedListInv'
    BY <2>1 DEF SignedListInv, PastBundle, PastPython, Signed
  <2>3. InHand' /\ ListInv' /\ LinesInv' /\ SignedPolicyInv' /\ ModelInv'
    BY <2>1 DEF InHand, ListInv, LinesInv, LinesRead, PastBundle, PastPython,
                SignedPolicyInv, Loaded, ModelInv
  <2> QED
    BY <2>2, <2>3
<1>11. ASSUME pc \in PastBundle, pc' \in PastBundle \cup {"refused"},
              UNCHANGED <<touched, cfg, listing>>
       PROVE  ListInv' /\ LinesInv' /\ SignedListInv'
  <2>1. ListInv' /\ LinesInv'
    BY <1>11 DEF ListInv, LinesInv, LinesRead, PastBundle, PastPython
  <2>2. SignedListInv'
    BY <1>11 DEF SignedListInv, PastBundle, PastPython, Signed
  <2> QED
    BY <2>1, <2>2
<1>12. CASE CheckPython
  <2>1. /\ pc = "python" /\ UNCHANGED <<touched, cfg, listing, policy, model>>
        /\ \/ pc' \in {"refused", "open policy"}
           \/ pc' = "load" /\ ~cfg.require_signed_policy
    BY <1>12 DEF CheckPython, hostVars, startVars, checkVars
  <2>2. InHand' /\ SignedPolicyInv' /\ ModelInv'
    BY <2>1 DEF InHand, SignedPolicyInv, Loaded, ModelInv
  <2> QED
    BY <1>11, <2>1, <2>2 DEF PastBundle, PastPython
<1>13. CASE OpenEnvelope("policy", PolicySig)
  <2>1. /\ pc = "open policy"
        /\ UNCHANGED <<touched, cfg, listing, policy, model>>
        /\ \/ pc' = "load" /\ sound' = FALSE
           \/ /\ pc' = "check policy"
              /\ disk[PolicySig] # Missing /\ envelope' = disk[PolicySig]
    BY <1>13 DEF OpenEnvelope, Opening, Checking, Checked, hostVars, startVars
  <2>2. InHand' /\ SignedPolicyInv' /\ ModelInv'
    BY <2>1 DEF InHand, HostInv, PolicyEnvelope, SignedPolicyInv, Loaded, ModelInv
  <2> QED
    BY <1>11, <2>1, <2>2 DEF PastBundle, PastPython
<1>14. CASE CheckEnvelope("policy")
  <2>1. /\ pc = "check policy" /\ pc' = "load"
        /\ UNCHANGED <<touched, cfg, listing, policy, model>>
        /\ sound' => VerifyEnvelope(envelope, "policy", disk["policy"], trust)
    BY <1>14 DEF CheckEnvelope, Checking, Checked, hostVars, startVars
  <2>2. PolicyEnvelope(envelope)
    BY <2>1 DEF InHand
  <2>3. sound' => Signed("policy", disk["policy"])
    BY <2>1, <2>2, VerifiedPolicy
  <2>4. SignedPolicyInv'
    BY <2>1, <2>3 DEF SignedPolicyInv, Loaded, Signed
  <2>5. InHand' /\ ModelInv'
    BY <2>1 DEF InHand, ModelInv
  <2> QED
    BY <1>11, <2>1, <2>4, <2>5 DEF PastBundle, PastPython
<1>15. CASE LoadPolicy
  <2>1. /\ pc = "load" /\ UNCHANGED <<touched, cfg, listing, model>>
        /\ \/ pc' = "refused"
           \/ sound /\ pc' = "api" /\ policy' = disk["policy"]
    BY <1>15 DEF LoadPolicy, hostVars, startVars, checkVars
  <2>2. SignedPolicyInv'
    BY <2>1 DEF SignedPolicyInv, Loaded, Signed
  <2>3. InHand' /\ ModelInv'
    BY <2>1 DEF InHand, ModelInv
  <2> QED
    BY <1>11, <2>1, <2>2, <2>3 DEF PastBundle, PastPython
<1>16. CASE ValidateApi
  <2>1. /\ pc = "api" /\ pc' \in {"refused", "model"}
        /\ UNCHANGED <<touched, cfg, listing, policy, model>>
    BY <1>16 DEF ValidateApi, hostVars, startVars, checkVars
  <2>2. SignedPolicyInv'
    BY <2>1 DEF SignedPolicyInv, Loaded, Signed
  <2>3. InHand' /\ ModelInv'
    BY <2>1 DEF InHand, ModelInv
  <2> QED
    BY <1>11, <2>1, <2>2, <2>3 DEF PastBundle, PastPython
<1>17. CASE LoadModel
  <2>1. /\ pc = "model" /\ pc' \in {"refused", "ready"}
        /\ UNCHANGED <<touched, cfg, listing, policy>>
        /\ pc' = "ready" => ModelFile = Absent \/ model' = disk[ModelFile]
    BY <1>17 DEF LoadModel, hostVars, startVars, checkVars
  <2>2. SignedPolicyInv'
    BY <2>1 DEF SignedPolicyInv, Loaded, Signed
  <2>3. InHand'
    BY <2>1 DEF InHand
  <2>4. ModelInv'
    BY <2>1, NamesAssumption DEF ModelInv, ListInv, LinesInv, PastBundle, PastPython
  <2> QED
    BY <1>11, <2>1, <2>2, <2>3, <2>4 DEF PastBundle, PastPython
<1>18. CASE Stop
  <2>1. pc' = "down" /\ listing' = Nothing
    BY <1>18 DEF Stop
  <2>2. DOMAIN Nothing = {}
    BY DEF Nothing
  <2> QED
    BY <2>1, <2>2 DEF InHand, ListInv, LinesInv, LinesRead, SignedListInv,
       PastBundle, PastPython, SignedPolicyInv, Loaded, ModelInv
<1> QED
  BY <1>4, <1>5, <1>6, <1>7, <1>8, <1>9, <1>10, <1>12, <1>13, <1>14, <1>15, <1>16,
     <1>17, <1>18 DEF StartStep

(***************************************************************************)
(* Whatever is copied, edited and signed while a process starts: where     *)
(* nobody wrote in between, the policy in force and the list of files are  *)
(* ones a trusted key signed, and the files and the model in memory are    *)
(* what the list says (bundle.py, verify_bundle; policy.py, __init__).     *)
(***************************************************************************)
THEOREM StartIsTrusted == Spec => []UntouchedIsTrusted
<1>1. Init => TrustInv
  <2> SUFFICES ASSUME Init PROVE TrustInv
    OBVIOUS
  <2>1. PICK r \in Releases : disk = Content(r)
    BY DEF Init
  <2>2. DOMAIN WriteManifest(r.models) \subseteq Models
    BY NamesAssumption DEF WriteManifest
  <2>3. HostInv
    BY <2>1, <2>2, ContentOfRelease DEF HostInv, ManifestEnvelope, PolicyEnvelope
  <2>4. pc = "down" /\ DOMAIN listing = {}
    BY DEF Init, Nothing
  <2> QED
    BY <2>3, <2>4 DEF TrustInv, InHand, ListInv, LinesInv, LinesRead, SignedListInv,
       PastBundle, PastPython, SignedPolicyInv, Loaded, ModelInv
<1>2. TrustInv /\ [Next]_vars => TrustInv'
  <2>1. ASSUME TrustInv, UNCHANGED vars PROVE TrustInv'
    <3> USE <2>1 DEF vars, hostVars, startVars, checkVars, TrustInv
    <3>1. HostInv' /\ InHand'
      BY DEF HostInv, InHand, ManifestEnvelope, PolicyEnvelope
    <3>2. ListInv' /\ LinesInv' /\ ModelInv'
      BY DEF ListInv, LinesInv, ModelInv
    <3>3. SignedListInv' /\ SignedPolicyInv'
      BY DEF SignedListInv, SignedPolicyInv, Signed
    <3> QED
      BY <3>1, <3>2, <3>3
  <2> QED
    BY <2>1, HostKeepsTrust, StartKeepsTrust DEF Next
<1>3. TrustInv => UntouchedIsTrusted
  <2> SUFFICES ASSUME TrustInv, pc = "ready", "trust" \notin touched
               PROVE  /\ cfg.require_signed_policy /\ "policy" \notin touched =>
                           Signed("policy", policy)
                      /\ cfg.require_bundle_manifest =>
                           /\ cfg.require_signed_manifest /\ "manifest" \notin touched =>
                                Signed("manifest", listing)
                           /\ \A f \in DOMAIN listing \ touched :
                                /\ disk[f] = listing[f]
                                /\ f = ModelFile => model = listing[f]
    BY DEF UntouchedIsTrusted
  <2>1. cfg.require_signed_policy /\ "policy" \notin touched => Signed("policy", policy)
    BY DEF TrustInv, SignedPolicyInv, Loaded
  <2>2. cfg.require_bundle_manifest /\ cfg.require_signed_manifest
        /\ "manifest" \notin touched => Signed("manifest", listing)
    BY DEF TrustInv, SignedListInv, PastBundle, PastPython
  <2>3. cfg.require_bundle_manifest =>
          \A f \in DOMAIN listing \ touched : disk[f] = listing[f]
    BY DEF TrustInv, LinesInv, PastBundle, PastPython
  <2>4. cfg.require_bundle_manifest =>
          \A f \in DOMAIN listing \ touched : f = ModelFile => model = listing[f]
    BY DEF TrustInv, ModelInv
  <2> QED
    BY <2>1, <2>2, <2>3, <2>4
<1> QED
  BY <1>1, <1>2, <1>3, PTL DEF Spec

-----------------------------------------------------------------------------
(* What is signed verifies.                                                *)

FileRefusals == {"bundle", "policy", "model"}

\* Of a start on a host that holds an acceptable release.
Fits(r) ==
  /\ sound = TRUE
  /\ refusal \notin FileRefusals
  /\ pc = "lines" => listing = WriteManifest(r.models)
  /\ pc = "check manifest" =>
       envelope = SignFile("manifest", WriteManifest(r.models), r.key_id, r.by)
  /\ pc = "check policy" =>
       envelope = SignFile(r.policy_name, r.policy, r.key_id, r.by)

FitInv ==
  /\ pc = "down" => sound = TRUE
  /\ pc = "lines" => todo \subseteq DOMAIN listing
  /\ pc # "down" /\ touched = {} =>
       \A r \in Releases : Acceptable(r) /\ disk = Content(r) => Fits(r)

\* What sign_file writes, verify_envelope accepts.
LEMMA SignedVerifies ==
  ASSUME NEW name, NEW content, NEW r \in Releases, trust[r.key_id] = r.by
  PROVE  VerifyEnvelope(SignFile(name, content, r.key_id, r.by), name, content, trust)
BY ContentsAssumption DEF VerifyEnvelope, SignFile

\* The files of an acceptable release that is installed whole.
LEMMA InstalledFiles ==
  ASSUME NEW r \in Releases, Acceptable(r), disk = Content(r)
  PROVE  /\ disk["manifest"] = WriteManifest(r.models) /\ disk["manifest"] # Missing
         /\ disk[ManifestSig] =
              SignFile("manifest", WriteManifest(r.models), r.key_id, r.by)
         /\ disk[ManifestSig] # Missing
         /\ disk["policy"] = r.policy /\ disk["policy"] # Missing
         /\ disk[PolicySig] = SignFile("policy", r.policy, r.key_id, r.by)
         /\ disk[PolicySig] # Missing
         /\ trust[r.key_id] = r.by /\ r.policy_name = "policy"
         /\ ModelFile # Absent => disk[ModelFile] # Missing
         /\ \A f \in DOMAIN WriteManifest(r.models) :
              /\ f \notin Symlinks /\ disk[f] # Missing
              /\ disk[f] = WriteManifest(r.models)[f]
<1>1. /\ trust[r.key_id] = r.by /\ r.policy_name = "policy"
      /\ \A f \in Symlinks : r.models[f] = Missing
      /\ ModelFile # Absent => r.models[ModelFile] # Missing
  BY DEF Acceptable
<1>2. /\ disk["manifest"] = WriteManifest(r.models)
      /\ disk[ManifestSig] =
           SignFile("manifest", WriteManifest(r.models), r.key_id, r.by)
      /\ disk["policy"] = r.policy
      /\ disk[PolicySig] = SignFile(r.policy_name, r.policy, r.key_id, r.by)
      /\ \A f \in Models : disk[f] = r.models[f]
  BY ContentOfRelease
<1>3. Missing \notin {disk["manifest"], disk[ManifestSig], disk["policy"], disk[PolicySig]}
  BY <1>2, ContentsAssumption
<1>4. ModelFile # Absent => disk[ModelFile] # Missing
  BY <1>1, <1>2, NamesAssumption
<1>5. ASSUME NEW f \in DOMAIN WriteManifest(r.models)
      PROVE  /\ f \notin Symlinks /\ disk[f] # Missing
             /\ disk[f] = WriteManifest(r.models)[f]
  <2>1. f \in Models /\ r.models[f] # Missing /\ WriteManifest(r.models)[f] = r.models[f]
    BY NamesAssumption DEF WriteManifest
  <2> QED
    BY <1>1, <1>2, <2>1
<1> QED
  BY <1>1, <1>2, <1>3, <1>4, <1>5

LEMMA FitStartStep ==
  ASSUME FitInv, StartStep
  PROVE  FitInv'
<1>1. disk' = disk /\ trust' = trust
  BY StartFrame
<1> USE DEF Goto, Refuse, FileRefusals
<1>2. CASE Stop
  BY <1>2 DEF Stop, FitInv
<1>3. CASE Begin
  <2>1. /\ pc = "down" /\ sound' = sound
        /\ pc' \in {"refused", "manifest", "python"}
        /\ refusal' \in {"config", "dev", "none"}
    BY <1>3 DEF Begin, checkVars
  <2> QED
    BY <2>1 DEF FitInv, Fits
<1>4. CASE ~Stop /\ ~Begin
  <2>1. /\ pc # "down" /\ pc' # "down" /\ touched' = touched
    BY <1>4 DEF StartStep, ReadManifest, CheckLine, LinesDone, OpenEnvelope, Opening,
       Checking, Checked, CheckEnvelope, JudgeBundle, CheckPython, LoadPolicy,
       ValidateApi, LoadModel, hostVars
  <2>2. (pc = "lines" => todo \subseteq DOMAIN listing)'
    BY <1>4 DEF FitInv, StartStep, ReadManifest, CheckLine, LinesDone, OpenEnvelope,
       Opening, Checking, Checked, CheckEnvelope, JudgeBundle, CheckPython, LoadPolicy,
       ValidateApi, LoadModel, checkVars
  <2>3. ASSUME touched = {}, NEW r \in Releases, Acceptable(r), disk = Content(r)
        PROVE  Fits(r)'
    <3> DEFINE manifest == WriteManifest(r.models)
    <3>1. Fits(r)
      BY <2>1, <2>3 DEF FitInv
    <3>2. /\ disk["manifest"] = manifest /\ disk["manifest"] # Missing
          /\ disk[ManifestSig] = SignFile("manifest", manifest, r.key_id, r.by)
          /\ disk[ManifestSig] # Missing
          /\ disk["policy"] = r.policy /\ disk["policy"] # Missing
          /\ disk[PolicySig] = SignFile("policy", r.policy, r.key_id, r.by)
          /\ disk[PolicySig] # Missing
          /\ r.policy_name = "policy"
          /\ ModelFile # Absent => disk[ModelFile] # Missing
          /\ \A f \in DOMAIN manifest :
               f \notin Symlinks /\ disk[f] # Missing /\ disk[f] = manifest[f]
      BY <2>3, InstalledFiles
    <3>3. /\ VerifyEnvelope(disk[ManifestSig], "manifest", disk["manifest"], trust)
          /\ VerifyEnvelope(disk[PolicySig], "policy", disk["policy"], trust)
      <4>1. trust[r.key_id] = r.by
        BY <2>3, InstalledFiles
      <4> QED
        BY <3>2, <4>1, SignedVerifies
    <3> HIDE DEF manifest
    <3> USE <3>1, <3>2 DEF Fits
    <3>4. CASE ReadManifest
      BY <3>4 DEF ReadManifest, manifest
    <3>5. CASE \E f \in todo : CheckLine(f)
      <4>1. PICK f \in todo : CheckLine(f)
        BY <3>5
      <4>2. f \in DOMAIN manifest /\ listing = manifest
        BY <4>1 DEF CheckLine, FitInv, manifest
      <4>3. sound' = TRUE
        BY <4>1, <4>2 DEF CheckLine
      <4>4. pc' = "lines" /\ listing' = listing /\ refusal' = refusal
        BY <4>1 DEF CheckLine
      <4> QED
        BY <4>2, <4>3, <4>4 DEF manifest
    <3>6. CASE LinesDone
      BY <3>6 DEF LinesDone, checkVars
    <3>7. CASE OpenEnvelope("manifest", ManifestSig)
      BY <3>7 DEF OpenEnvelope, Opening, Checking, Checked, manifest
    <3>8. CASE OpenEnvelope("policy", PolicySig)
      BY <3>8 DEF OpenEnvelope, Opening, Checking, Checked
    <3>9. CASE CheckEnvelope("manifest")
      <4>1. pc = "check manifest" /\ envelope = disk[ManifestSig]
        BY <3>9 DEF CheckEnvelope, Checking, manifest
      <4>2. sound' = TRUE
        BY <3>3, <3>9, <4>1 DEF CheckEnvelope
      <4> QED
        BY <3>9, <4>2 DEF CheckEnvelope, Checked
    <3>10. CASE CheckEnvelope("policy")
      <4>1. pc = "check policy" /\ envelope = disk[PolicySig]
        BY <3>10 DEF CheckEnvelope, Checking
      <4>2. sound' = TRUE
        BY <3>3, <3>10, <4>1 DEF CheckEnvelope
      <4> QED
        BY <3>10, <4>2 DEF CheckEnvelope, Checked
    <3>11. CASE JudgeBundle
      BY <3>11 DEF JudgeBundle, checkVars
    <3>12. CASE CheckPython
      BY <3>12 DEF CheckPython, checkVars
    <3>13. CASE LoadPolicy
      BY <3>13 DEF LoadPolicy, checkVars
    <3>14. CASE ValidateApi
      BY <3>14 DEF ValidateApi, checkVars
    <3>15. CASE LoadModel
      BY <3>15 DEF LoadModel, checkVars
    <3> QED
      BY <1>4, <3>4, <3>5, <3>6, <3>7, <3>8, <3>9, <3>10, <3>11, <3>12, <3>13,
         <3>14, <3>15 DEF StartStep
  <2> QED
    BY <1>1, <2>1, <2>2, <2>3 DEF FitInv, Acceptable
<1> QED
  BY <1>2, <1>3, <1>4

(***************************************************************************)
(* A host that holds a release signed by the key it trusts, all of it and  *)
(* nothing else, is never refused for its files (bundle.py, sign_manifest  *)
(* against verify_bundle; sign.py, sign_file against verify_envelope).     *)
(***************************************************************************)
THEOREM ReleasesStart == Spec => []InstalledReleaseStarts
<1>1. Init => FitInv
  BY DEF Init, FitInv
<1>2. FitInv /\ [Next]_vars => FitInv'
  <2>1. ASSUME FitInv, HostStep PROVE FitInv'
    <3>1. /\ pc' = pc /\ sound' = sound /\ todo' = todo /\ listing' = listing
          /\ pc # "down" => touched' # {}
      BY <2>1 DEF HostStep, Install, Edit, RewriteManifest, ReplaceKey, Change, checkVars
    <3> QED
      BY <2>1, <3>1 DEF FitInv
  <2>2. ASSUME FitInv, UNCHANGED vars PROVE FitInv'
    BY <2>2 DEF vars, hostVars, startVars, checkVars, FitInv, Fits, Acceptable
  <2> QED
    BY <2>1, <2>2, FitStartStep DEF Next
<1>3. TypeOK /\ FitInv => InstalledReleaseStarts
  BY DEF TypeOK, FitInv, Fits, FileRefusals, InstalledReleaseStarts
<1> QED
  BY <1>1, <1>2, <1>3, TypeCorrect, PTL DEF Spec
=============================================================================
