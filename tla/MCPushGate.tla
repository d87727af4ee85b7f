---------------------------- MODULE MCPushGate ----------------------------
(* main m0, then m1; a1 on m0, a2 its merge with m1, x1 a commit on m1 that   *)
(* rewrites a1. a2 changes a path outside one scope; the checks fail on main.  *)
EXTENDS PushGate

CONSTANTS m0, m1, a1, a2, x1, code, docs, k1, p1

mcCommits == {m0, m1, a1, a2, x1}
mcBefore  == [c \in mcCommits |->
  CASE c = m0 -> {m0}
    [] c = m1 -> {m0, m1}
    [] c = a1 -> {m0, a1}
    [] c = a2 -> {m0, m1, a1, a2}
    [] c = x1 -> {m0, m1, x1}]
mcPaths   == [c \in mcCommits |->
  CASE c \in {m0, m1} -> {} [] c = a2 -> {code, docs} [] OTHER -> {code}]
mcScopes  == {{code}, {code, docs}}

=============================================================================
