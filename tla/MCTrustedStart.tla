--------------------------- MODULE MCTrustedStart ---------------------------
(***************************************************************************)
(* TrustedStart for TLC: two releases by the trusted key, one by a key of  *)
(* a developer under the same id and with a symbolic link, and one whose   *)
(* policy was signed under the name of the example it was copied from.     *)
(***************************************************************************)
EXTENDS TrustedStart

CONSTANTS prod, local, Tool, OtherTool, Cap, OtherCap

Files == {"model", "tokenizer", "link"}

When == [always |-> FALSE, tools |-> Absent, caps |-> Absent, under_workspace |-> FALSE]
Rule(effect, when) == [effect |-> effect, actions |-> {"tool.invoke"}, when |-> when]

AllowCaps == Rule("allow", [When EXCEPT !.caps = {Cap}])
DenyTools == Rule("deny", [When EXCEPT !.tools = {Tool}, !.caps = {Cap}])
AllowInside == Rule("allow", [When EXCEPT !.under_workspace = TRUE])
DenyAll == Rule("deny", [When EXCEPT !.always = TRUE])

RuleSet == {AllowCaps, DenyTools, AllowInside, DenyAll}
RuleLists ==
  {<<a>> : a \in RuleSet} \cup
  {ab \in RuleSet \X RuleSet : ab[1].effect # ab[2].effect}
EditedPolicies ==
  [default : {"deny"}, rules : RuleLists] \cup
  [default : {"allow"}, rules : {<<>>, <<AllowInside>>}]

AllRequests == [action : {"tool.invoke", "fs.read"}, tool : {Tool, OtherTool},
                capability : {Cap, OtherCap}, inside : BOOLEAN]

Release(files, doc, name, key) ==
  [models |-> files, policy |-> doc, policy_name |-> name, key_id |-> "release", by |-> key]

Shipped(weights, link) ==
  [f \in Files |-> CASE f = "model" -> weights [] f = "tokenizer" -> "words" [] OTHER -> link]

FirstPolicy == [default |-> "deny", rules |-> <<AllowCaps, DenyTools>>]
SecondPolicy == [default |-> "deny", rules |-> <<DenyTools, AllowCaps, AllowInside>>]

Production == [id \in {"release"} |-> prod]

FourReleases ==
  {Release(Shipped("weights 1", Missing), FirstPolicy, "policy", prod),
   Release(Shipped("weights 2", Missing), SecondPolicy, "policy", prod),
   Release(Shipped("weights 1", "elsewhere"), SecondPolicy, "policy", local),
   Release(Shipped("weights 1", Missing), SecondPolicy, "example", prod)}

Strict ==
  [mode |-> "strict", deny_egress |-> TRUE, require_bundle_manifest |-> TRUE,
   require_signed_manifest |-> TRUE, require_signed_policy |-> TRUE,
   replay_protection |-> FALSE, require_token |-> TRUE,
   require_capability_token |-> TRUE, python |-> "process"]

FourConfigs ==
  {Strict,
   [Strict EXCEPT !.require_signed_policy = FALSE, !.python = "docker"],
   [Strict EXCEPT !.deny_egress = FALSE],
   [Strict EXCEPT !.mode = "permissive", !.require_signed_manifest = FALSE]}

ThreeEnvironments ==
  {[production |-> TRUE, allow_dev |-> FALSE, allow_process_python |-> TRUE,
    serve |-> TRUE, secrets |-> {"token", "capability"}],
   [production |-> TRUE, allow_dev |-> FALSE, allow_process_python |-> TRUE,
    serve |-> TRUE, secrets |-> {"token"}],
   [production |-> FALSE, allow_dev |-> FALSE, allow_process_python |-> FALSE,
    serve |-> TRUE, secrets |-> {}]}
=============================================================================
