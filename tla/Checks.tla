------------------------------- MODULE Checks -------------------------------
(***************************************************************************)
(* What the handlers and the metadata checks of the MCP OAuth facade have  *)
(* in common: checks in order, the first that fails decides, and lists     *)
(* that stand for sets (src/internal/mcpoauth/client_metadata.go).         *)
(***************************************************************************)
EXTENDS Naturals, Sequences, SequencesExt

\* A check of a handler and the error it answers with.
Check(fails, error) == [fails |-> fails, error |-> error]

FirstError(checks) ==
  LET failed == {i \in DOMAIN checks : checks[i].fails}
  IN IF failed = {} THEN "none" ELSE checks[Min(failed)].error

sameStringSet(left, right) ==
  /\ Len(left) = Len(right)
  /\ IsInjective(left)
  /\ ToSet(left) \subseteq ToSet(right)

\* strings.Fields of the scope values.
WordsOf(scope) ==
  CASE scope = "mcp" -> <<"mcp">>
    [] scope = "offline_access mcp" -> <<"offline_access", "mcp">>
    [] scope = "mcp mcp" -> <<"mcp", "mcp">>
    [] scope = "mcp openid" -> <<"mcp", "openid">>

IsOurScope(scope) ==
  \/ sameStringSet(WordsOf(scope), <<"mcp">>)
  \/ sameStringSet(WordsOf(scope), <<"mcp", "offline_access">>)

-----------------------------------------------------------------------------
\* The records that differ from one of those given in one field.
Changed(records, names, alternatives) ==
  UNION {{[record EXCEPT ![name] = other] : record \in records, other \in alternatives[name]} :
         name \in names}

\* The records in which at most n fields of base have one of their alternatives.
Near(base, alternatives, n) ==
  LET near[k \in 0..n] ==
        IF k = 0 THEN {base}
          ELSE near[k - 1] \cup Changed(near[k - 1], DOMAIN base, alternatives)
  IN near[n]

=============================================================================
