--------------------------- MODULE PythonSandbox ---------------------------
(***************************************************************************)
(* security/sandbox.py: run_python_sandboxed as a function of a source.    *)
(* The source is parsed and checked, wrapped into the body of a function,  *)
(* and run by a Python process whose output is the result.                 *)
(*                                                                         *)
(* Of a source only its layout is kept, and what it does.  The layout is   *)
(* the indentation of its lines that are not blank, and their kind: a      *)
(* "statement", the "header" of a block, or a "continuation" in brackets   *)
(* of the line before.  Strings over several lines are left out.  The two  *)
(* modes, a subprocess and a container, differ in the command only.        *)
(***************************************************************************)
EXTENDS Integers, SequencesExt

\* What an allowed source may do when it runs, or the process instead of it.
Behaviours == {"forbidden", "returns", "prints", "raises", "loops", "unstarted"}

Line(indent, kind) == [indent |-> indent, kind |-> kind]

IsLine(line) == line.kind # "continuation"
Statements(q) == SelectSeq(q, IsLine)

\* Python's rule of layout: a block is deeper than the header that opens it,
\* and a statement that closes blocks is level with one before them.
WellFormed(q) ==
  LET s == Statements(q)
  IN /\ q[1].kind # "continuation"
     /\ s[1].indent = 0
     /\ s[Len(s)].kind # "header"
     /\ \A k \in 2..Len(s) :
          IF s[k-1].kind = "header"
            THEN s[k].indent > s[k-1].indent
            ELSE \E j \in 1..(k-1) :
                   /\ s[j].indent = s[k].indent
                   /\ \A i \in j..(k-1) : s[i].indent >= s[j].indent

\* The f-string puts its own indentation of 8 before the first line of the
\* source only; textwrap.indent puts margin before every line.
TemplatedBy(margin, q) ==
  <<Line(8, "header")>>
  \o [k \in DOMAIN q |-> Line(q[k].indent + margin + (IF k = 1 THEN 8 ELSE 0),
                              q[k].kind)]
  \o [k \in 1..3 |-> Line(8, "statement")]


Templated(q) == TemplatedBy(4, q)

\* textwrap.dedent takes the common indentation away.
Dedented(q) ==
  LET margin == Min({q[k].indent : k \in DOMAIN q})
  IN [k \in DOMAIN q |-> Line(q[k].indent - margin, q[k].kind)]

Wrapped(q) == Dedented(Templated(q))

\* validate_python_source
Valid(q, behaviour) == WellFormed(q) /\ behaviour # "forbidden"

\* The process, its timeout, its exit code, and the JSON it printed, which
\* is not JSON any more when the source printed something before it.
Outcome(q, behaviour) ==
  CASE ~Valid(q, behaviour) -> "rejected"
    [] Valid(q, behaviour) /\ behaviour = "unstarted" -> "failed"
    [] Valid(q, behaviour) /\ behaviour # "unstarted" ->
         IF ~WellFormed(Wrapped(q)) THEN "failed"
         ELSE CASE behaviour = "loops" -> "timeout"
                [] behaviour = "raises" -> "failed"
                [] behaviour = "prints" -> "invalid output"
                [] behaviour = "returns" -> "value"

-----------------------------------------------------------------------------
(* What wrapping should do, said of the source                             *)

\* The header whose block statement k of q is in, 0 when it is in none.
Enclosing(q, k) ==
  LET s == Statements(q)
      outer == {j \in 1..(k-1) : s[j].indent < s[k].indent}
  IN IF outer = {} THEN 0 ELSE Max(outer)

\* Each statement of the source is in the block it was in, or in the entry
\* function when it was in none; the three lines that call it are outside.
SameBlocks(q) ==
  LET n == Len(Statements(q))
  IN /\ \A k \in 1..n : Enclosing(Wrapped(q), k + 1) = Enclosing(q, k) + 1
     /\ \A k \in (n+2)..(n+4) : Enclosing(Wrapped(q), k) = 0

\* A single statement at the margin, its other lines indented by at least 4,
\* and its block, when it has one, by more than 8.
OneDeepStatement(q) ==
  LET s == Statements(q)
  IN /\ \A k \in 2..Len(q) : q[k].indent >= 4
     /\ Len(s) > 1 => s[1].kind = "header" /\ s[2].indent > 8
=============================================================================
