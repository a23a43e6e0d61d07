------------------------------- MODULE Policy -------------------------------
(***************************************************************************)
(* security/policy.py: what PolicyEngine.evaluate makes of a document and  *)
(* a request.                                                              *)
(*                                                                         *)
(* A document is [default, rules]; a rule is [effect, actions, when], and  *)
(* when has the four keys the code looks at, Absent or FALSE where the     *)
(* rule does not have them.  A request is an action with the context the   *)
(* callers give: [action, tool, capability, inside], where inside says     *)
(* that the path resolves to a place under the workspace.                  *)
(***************************************************************************)
EXTENDS Integers, Sequences

CONSTANT Absent  \* a key the rule does not have

\* The first key that is there decides alone; the later ones are not read.
Holds(when, request) ==
  \/ when.always
  \/ /\ when.tools # Absent
     /\ ~when.always
     /\ request.tool \in when.tools
  \/ /\ when.caps # Absent
     /\ ~when.always /\ when.tools = Absent
     /\ request.capability \in when.caps
  \/ /\ when.under_workspace
     /\ ~when.always /\ when.tools = Absent /\ when.caps = Absent
     /\ request.inside

RuleMatches(rule, request) ==
  request.action \in rule.actions /\ Holds(rule.when, request)

\* The places of the rules that match.
Matched(rules, request) ==
  {i \in DOMAIN rules : RuleMatches(rules[i], request)}

LastOf(places) == CHOOSE i \in places : \A j \in places : j <= i

\* Mutation: the last rule that matches decides.
EvaluateLastWins(doc, request) ==
  LET matched == Matched(doc.rules, request)
  IN  IF matched = {} THEN doc.default ELSE doc.rules[LastOf(matched)].effect

\* The default if nothing matches, a deny wherever it stands, and else the
\* effect of the last rule that matches.
Evaluate(doc, request) ==
  LET matched == Matched(doc.rules, request)
  IN  IF matched = {} THEN doc.default
      ELSE IF \E i \in matched : doc.rules[i].effect = "deny" THEN "deny"
      ELSE doc.rules[LastOf(matched)].effect

-----------------------------------------------------------------------------
\* Reference: a rule allows and none denies, in whatever order they stand;
\* where no rule applies, the default is what counts.
Permitted(doc, request) ==
  LET matched == Matched(doc.rules, request)
  IN  /\ \A i \in matched : doc.rules[i].effect # "deny"
      /\ \/ \E i \in matched : doc.rules[i].effect = "allow"
         \/ matched = {} /\ doc.default = "allow"
=============================================================================
