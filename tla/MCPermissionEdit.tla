-------------------------- MODULE MCPermissionEdit --------------------------
(* Small instances of PermissionEdit: three trustees, rights r, w and g, of  *)
(* which g is one the SDDL parser has no token for.                          *)
EXTENDS PermissionEdit

CONSTANTS e1, u, v, x, r, w, g, none

MCOne == {e1}
MCSids == {u, v, x}
MCRights == {r, w, g}
MCNoMask == {none}
\* Tokens without a meaning to the parser are left out; nothing left is an error.
MCParsed ==
    [m \in SUBSET MCRights |-> IF m \ {g} = {} THEN NoMask ELSE m \ {g}]

A(t, m) == [type |-> "A", trustee |-> t, mask |-> m, inherited |-> FALSE]
D(t, m) == [type |-> "D", trustee |-> t, mask |-> m, inherited |-> FALSE]

\* Canonical DACLs, one with entries the parser skips, one with a mask it knows
\* in part, and one whose mask does not parse.
MCDacls ==
    { <<>>,
      <<D(u, {w}), A(u, {r, w}), A(x, {r})>>,
      <<D(x, {r}), A(v, {r}), A(x, {r, w})>>,
      <<A(UnknownAlias, {r}), A(u, {r}), [A(u, {w}) EXCEPT !.type = "X"]>>,
      <<A(u, {r, g}), A(x, {r})>>,
      <<A(u, {g})>> }
MCOneDacl == { <<A(x, {r})>> }

MCParents == { <<>>, <<D(x, {r}), A(u, {r})>> }

Plan(mode, ops) == [mode |-> mode, preserve |-> TRUE, reject |-> TRUE, ops |-> ops]
MCPlans ==
    { Plan("apply", <<Grant(v, {w})>>),
      Plan("apply", <<Deny(u, {r})>>),
      Plan("apply", <<Revoke(u, NoMask), Grant(v, {r})>>),
      Plan("apply", <<Revoke(v, {r}), Replace(u, v)>>),
      Plan("apply", <<Grant(u, {r}), Deny(u, {r})>>),
      Plan("dryrun", <<Revoke(x, NoMask)>>) }
MCFewPlans ==
    { Plan("apply", <<Grant(v, {w})>>),
      Plan("apply", <<Revoke(u, NoMask)>>) }
=============================================================================
