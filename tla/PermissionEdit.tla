--------------------------- MODULE PermissionEdit ---------------------------
(***************************************************************************)
(* Permission edits against a file or registry key: PermissionEditor and   *)
(* PermissionEditPlan (src/security/editor.rs), Dacl (src/security/acl.rs) *)
(* and the SDDL conversions of the backends (src/security/backends/).      *)
(*                                                                         *)
(* An edit reads the descriptor, computes the new DACL in memory and       *)
(* writes it back; other editors, other tools and the parent's inheritance *)
(* may act between the two.  An access mask is a set of rights; what the   *)
(* SDDL parser makes of the text Windows prints for a mask is ParsedRights.*)
(***************************************************************************)
EXTENDS Orderings

CONSTANTS
    Editors,      \* callers of execute_against_target
    Sids,         \* trustees the parser knows, as SIDs or SDDL aliases
    UnknownAlias, \* a trustee alias it does not know
    Rights,       \* access rights
    NoMask,       \* no access mask: parse_sddl_rights fails, revoke of any mask
    ParsedRights, \* what it returns for the text of each mask
    Plans,        \* edit plans callers make
    InitDacls,    \* DACLs the object may have initially
    ParentAces,   \* inheritable ACEs the parent may have
    MaxEdits      \* bound: writes to the object

ASSUME SidsAssumption == UnknownAlias \notin Sids
ASSUME RightsAssumption ==
    /\ NoMask \notin SUBSET Rights
    /\ ParsedRights \in [SUBSET Rights -> (SUBSET Rights) \cup {NoMask}]
ASSUME BoundAssumption == MaxEdits \in Nat

\* An ACE as the system stores it; "X" is any type but allow and deny.
RawAce == [type : {"A", "D", "X"}, trustee : Sids \cup {UnknownAlias},
           mask : SUBSET Rights, inherited : BOOLEAN]

Elems(s) == {s[i] : i \in DOMAIN s}
Explicit(s) == \A a \in Elems(s) : ~a.inherited

\* Order of explicit deny, explicit allow, inherited deny, inherited allow.
Rank(ace) == (IF ace.inherited THEN 2 ELSE 0) + (IF ace.type = "D" THEN 0 ELSE 1)
Canonical(s) == \A i, j \in DOMAIN s : i < j => Rank(s[i]) <= Rank(s[j])

\* DACLs are given as explicit entries, a parent's in canonical order.
ASSUME DaclsAssumption ==
    /\ \A s \in InitDacls \cup ParentAces : s \in Seq(RawAce) /\ Explicit(s)
    /\ \A s \in ParentAces : Canonical(s)

\* What a plan may hold: trustees are SIDs, a revoke may be of any mask.
Operations ==
    [op : {"grant", "deny"}, trustee : Sids, mask : SUBSET Rights]
    \cup [op : {"revoke"}, trustee : Sids, mask : (SUBSET Rights) \cup {NoMask}]
    \cup [op : {"replace"}, trustee : Sids, new : Sids]

ASSUME PlansAssumption ==
    \A p \in Plans : /\ p.mode \in {"validate", "dryrun", "apply"}
                    /\ p.preserve \in BOOLEAN /\ p.reject \in BOOLEAN
                    /\ p.ops \in Seq(Operations)

VARIABLES
    dacl,      \* the ACEs of the object, in order
    isProtected, \* SE_DACL_PROTECTED
    parent,    \* inheritable ACEs of the parent
    owner,     \* owner of the object
    edits,     \* writes so far
    pc, plan,  \* the call each editor is in, and its plan
    cur,       \* the descriptor it has read, and the DACL its plan makes of it
    result,    \* what its last call returned
    done       \* history: its last successful write

vars == <<dacl, isProtected, parent, owner, edits, pc, plan, cur, result, done>>
objectVars == <<dacl, isProtected, parent, owner, edits>>

-----------------------------------------------------------------------------
(* Dacl and the SDDL conversions.                                          *)

\* Dacl::canonicalize: a stable sort by rank.
OfRank(s, r) == Filter(s, {a \in Elems(s) : Rank(a) = r})
Canonicalize(s) == OfRank(s, 0) \o OfRank(s, 1) \o OfRank(s, 2) \o OfRank(s, 3)

\* parse_ace: an ACE of another type or of an unknown trustee is skipped.
Parses(ace) == ace.type \in {"A", "D"} /\ ace.trustee \in Sids

\* parse_dacl_from_sddl fails when a mask cannot be parsed (the mask is parsed
\* before the trustee).
ParseFails(s) ==
    \E i \in DOMAIN s : s[i].type \in {"A", "D"} /\ ParsedRights[s[i].mask] = NoMask

ParseAce(ace) == [ace EXCEPT !.mask = ParsedRights[@]]
ParseDacl(s) ==
    LET known == Filter(s, {a \in Elems(s) : Parses(a)})
    IN  Canonicalize([i \in DOMAIN known |-> ParseAce(known[i])])

\* dacl_to_sddl: no "ID" flag is written, so the system takes every entry for
\* an explicit one.
DaclToSddl(s) == [i \in DOMAIN s |-> [s[i] EXCEPT !.inherited = FALSE]]

-----------------------------------------------------------------------------
(* PermissionEditor::build and PermissionEditPlan::execute.                *)

Grant(t, m) == [op |-> "grant", trustee |-> t, mask |-> m]
Deny(t, m) == [op |-> "deny", trustee |-> t, mask |-> m]
Revoke(t, m) == [op |-> "revoke", trustee |-> t, mask |-> m]   \* NoMask: any
Replace(t, u) == [op |-> "replace", trustee |-> t, new |-> u]

\* A grant and a deny of the same mask to the same trustee.
Conflict(p) ==
    \E i, j \in DOMAIN p.ops :
        /\ p.ops[i].op = "grant" /\ p.ops[j].op = "deny"
        /\ p.ops[i].trustee = p.ops[j].trustee /\ p.ops[i].mask = p.ops[j].mask

NewAce(type, o) ==
    [type |-> type, trustee |-> o.trustee, mask |-> o.mask, inherited |-> FALSE]

\* A mutant: revoke that does not look at the trustee.
Revoked_AnyTrustee(preserve, o, ace) ==
    /\ ~(preserve /\ ace.inherited)
    /\ o.mask # NoMask => ace.mask = o.mask

\* The entries revoke removes.
Revoked(preserve, o, ace) ==
    /\ ~(preserve /\ ace.inherited)
    /\ ace.trustee = o.trustee
    /\ o.mask # NoMask => ace.mask = o.mask

ApplyOp(preserve, s, o) ==
    CASE o.op = "grant" -> Append(s, NewAce("A", o))
      [] o.op = "deny" -> Append(s, NewAce("D", o))
      [] o.op = "revoke" -> Filter(s, {a \in Elems(s) : ~Revoked(preserve, o, a)})
      [] o.op = "replace" ->
           [i \in DOMAIN s |->
              IF s[i].trustee = o.trustee /\ ~(preserve /\ s[i].inherited)
              THEN [s[i] EXCEPT !.trustee = o.new] ELSE s[i]]

\* PermissionDiff::between.
Between(before, after) ==
    [added |-> Filter(after, Elems(after) \ Elems(before)),
     removed |-> Filter(before, Elems(before) \ Elems(after))]

-----------------------------------------------------------------------------
(* One call of execute_against_target per editor.                          *)

NoPlan == [mode |-> "validate", preserve |-> TRUE, reject |-> TRUE, ops |-> <<>>]
NoRead == [dacl |-> <<>>, owner |-> CHOOSE o \in Sids : TRUE, next |-> <<>>, step |-> 0]
NoWrite == [plan |-> NoPlan, read |-> <<>>, before |-> <<>>, next |-> <<>>, wrote |-> <<>>,
            diff |-> [added |-> <<>>, removed |-> <<>>]]

Build(e, p) ==
    /\ pc[e] = "idle"
    /\ \/ /\ p.reject /\ Conflict(p)
          /\ result' = [result EXCEPT ![e] = "rejected"]
          /\ UNCHANGED <<pc, plan>>
       \/ /\ ~(p.reject /\ Conflict(p))
          /\ pc' = [pc EXCEPT ![e] = "read"]
          /\ plan' = [plan EXCEPT ![e] = p]
          /\ UNCHANGED result
    /\ UNCHANGED <<objectVars, cur, done>>

\* The call returns r; its plan and what it has read are gone.
Return(e, r) ==
    /\ pc' = [pc EXCEPT ![e] = "idle"]
    /\ result' = [result EXCEPT ![e] = r]
    /\ plan' = [plan EXCEPT ![e] = NoPlan]
    /\ cur' = [cur EXCEPT ![e] = NoRead]

\* read_descriptor: the system call or the parse may fail.
ReadDescriptor(e) ==
    /\ pc[e] = "read"
    /\ \/ /\ ~ParseFails(dacl)
          /\ cur' = [cur EXCEPT ![e] =
               [dacl |-> dacl, owner |-> owner, next |-> ParseDacl(dacl), step |-> 0]]
          /\ pc' = [pc EXCEPT ![e] = "execute"]
          /\ UNCHANGED <<plan, result>>
       \/ Return(e, "error")
    /\ UNCHANGED <<objectVars, done>>

\* What the parent passes on, marked as inherited.
Inherit(aces, prot) ==
    IF prot THEN <<>> ELSE [i \in DOMAIN aces |-> [aces[i] EXCEPT !.inherited = TRUE]]

\* PermissionEditPlan::execute applies the operations one after the other to a
\* copy of what was read.
ExecuteOp(e) ==
    LET k == cur[e].step + 1
    IN  /\ pc[e] = "execute"
        /\ plan[e].mode # "validate" /\ k \in DOMAIN plan[e].ops
        /\ cur' = [cur EXCEPT ![e].next = ApplyOp(plan[e].preserve, @, plan[e].ops[k]),
                              ![e].step = k]
        /\ UNCHANGED <<objectVars, pc, plan, result, done>>

\* ValidateOnly and DryRunDiff compute a result from what was read.
ExecuteOnly(e) ==
    /\ pc[e] = "execute"
    /\ \/ plan[e].mode = "validate"
       \/ plan[e].mode = "dryrun" /\ cur[e].step = Len(plan[e].ops)
    /\ Return(e, "ok")
    /\ UNCHANGED <<objectVars, done>>

\* Apply: the new DACL and the owner that was read are written with one
\* SetNamedSecurityInfoW, which may fail; the system adds the inherited ACEs.
ExecuteApply(e) ==
    /\ pc[e] = "execute"
    /\ plan[e].mode = "apply" /\ cur[e].step = Len(plan[e].ops)
    /\ \/ LET before == ParseDacl(cur[e].dacl)
              next == Canonicalize(cur[e].next)
          IN /\ edits < MaxEdits
             /\ dacl' = DaclToSddl(next) \o Inherit(parent, isProtected)
             /\ owner' = cur[e].owner
             /\ edits' = edits + 1
             /\ done' = [done EXCEPT ![e] =
                  [plan |-> plan[e], read |-> cur[e].dacl, before |-> before, next |-> next,
                   wrote |-> dacl', diff |-> Between(before, next)]]
             /\ Return(e, "ok")
             /\ UNCHANGED <<isProtected, parent>>
       \/ /\ Return(e, "error")
          /\ UNCHANGED <<objectVars, done>>

-----------------------------------------------------------------------------
(* set_protected_dacl_sddl and other tools.                                *)

\* set_protected_dacl: the given DACL replaces the old one, nothing is
\* inherited, the owner stays.
SetProtected(s) ==
    /\ edits < MaxEdits
    /\ edits' = edits + 1
    /\ dacl' = s
    /\ isProtected' = TRUE
    /\ UNCHANGED <<parent, owner, pc, plan, cur, result, done>>

\* The parent's ACL changes and is propagated to an unprotected object.
ParentChange(aces) ==
    /\ parent' = aces
    /\ dacl' = Filter(dacl, {a \in Elems(dacl) : ~a.inherited}) \o Inherit(aces, isProtected)
    /\ UNCHANGED <<isProtected, owner, edits, pc, plan, cur, result, done>>

\* Somebody takes ownership.
TakeOwnership(o) ==
    /\ edits < MaxEdits
    /\ edits' = edits + 1
    /\ owner' = o
    /\ UNCHANGED <<dacl, isProtected, parent, pc, plan, cur, result, done>>

-----------------------------------------------------------------------------
Init ==
    /\ parent \in ParentAces
    /\ \E s \in InitDacls : dacl = s \o Inherit(parent, FALSE)
    /\ isProtected = FALSE
    /\ owner \in Sids
    /\ edits = 0
    /\ pc = [e \in Editors |-> "idle"]
    /\ plan = [e \in Editors |-> NoPlan]
    /\ cur = [e \in Editors |-> NoRead]
    /\ result = [e \in Editors |-> "none"]
    /\ done = [e \in Editors |-> NoWrite]

EditStep(e) ==
    \/ \E p \in Plans : Build(e, p)
    \/ ReadDescriptor(e) \/ ExecuteOp(e) \/ ExecuteOnly(e) \/ ExecuteApply(e)

Next ==
    \/ \E e \in Editors : EditStep(e)
    \/ \E s \in InitDacls : SetProtected(s)
    \/ \E aces \in ParentAces : ParentChange(aces)
    \/ \E o \in Sids : TakeOwnership(o)

Spec == Init /\ [][Next]_vars

-----------------------------------------------------------------------------
(* Properties.                                                             *)

\* Every variable keeps its type; what has been parsed is made of allow and
\* deny entries of known trustees.
TypeOK ==
    /\ Elems(dacl) \subseteq RawAce
    /\ isProtected \in BOOLEAN
    /\ owner \in Sids
    /\ edits \in 0..MaxEdits
    /\ pc \in [Editors -> {"idle", "read", "execute"}]
    /\ result \in [Editors -> {"none", "ok", "error", "rejected"}]
    /\ \A e \in Editors :
        /\ Elems(cur[e].dacl) \subseteq RawAce
        /\ Elems(done[e].next) \subseteq RawAce
        /\ \A a \in Elems(done[e].next) : Parses(a)

\* The rights a trustee has under a DACL: for each right the first entry that
\* mentions it decides.
Access(t, s) ==
    {r \in Rights : \E i \in DOMAIN s :
        /\ s[i].type = "A" /\ s[i].trustee = t /\ r \in s[i].mask
        /\ \A j \in 1..(i - 1) :
             ~(s[j].type \in {"A", "D"} /\ s[j].trustee = t /\ r \in s[j].mask)}

Named(p) == {p.ops[i].trustee : i \in DOMAIN p.ops}
            \cup {p.ops[i].new : i \in {k \in DOMAIN p.ops : p.ops[k].op = "replace"}}

\* "Order is explicit deny, explicit allow, inherited deny, inherited allow":
\* the DACL an edit writes is in this order, even if entries are inherited
\* between its read and its write.  It may have read none (see InheritedKept).
CanonicalAfterApply(d) == Explicit(d.read) => Canonical(d.wrote)

\* The parser knows every right of the mask (see MasksKept).
Exact(ace) == ParsedRights[ace.mask] = ace.mask

\* An edit of a canonical, explicit DACL changes the access of the trustees its
\* plan names and of no other, compared with the descriptor it has read.
OthersUntouched(d) ==
    Explicit(d.read) /\ Canonical(d.read) /\ Explicit(d.wrote) =>
        \A t \in Sids \ Named(d.plan) :
            (\A a \in Elems(d.read) : a.trustee = t => Exact(a)) =>
                Access(t, d.wrote) = Access(t, d.read)

\* Of the first k operations, the i-th revokes all entries of its trustee and
\* none after it adds one.
RevokesAll(p, i, k) ==
    /\ p.ops[i].op = "revoke" /\ p.ops[i].mask = NoMask
    /\ \A j \in (i + 1) .. k :
        /\ p.ops[j].op \in {"grant", "deny"} => p.ops[j].trustee # p.ops[i].trustee
        /\ p.ops[j].op = "replace" => p.ops[j].new # p.ops[i].trustee

\* "If `access` is `None`, all explicit ACEs for trustee are removed": unless a
\* later operation adds one, the DACL written over an explicit one has none.
RevokeRemovesExplicit(d) ==
    Explicit(d.read) =>
        \A i \in DOMAIN d.plan.ops : RevokesAll(d.plan, i, Len(d.plan.ops)) =>
            \A a \in Elems(d.wrote) : a.trustee = d.plan.ops[i].trustee => a.inherited

\* "Structured diff against original DACL": every explicit entry an edit takes
\* away from the object is listed as removed, if the parser knows it and its
\* mask (one it skips is deleted by the write without a trace in the diff).
DiffCoversWrite(d) ==
    \A a \in Elems(d.read) :
        Parses(a) /\ Exact(a) /\ ~a.inherited /\ a \notin Elems(d.wrote) =>
            a \in Elems(d.diff.removed)

\* "protect it from inheritance": a protected DACL has no inherited entry, and
\* no later edit or change of the parent brings one back.
ProtectedStaysProtected ==
    isProtected => \A i \in DOMAIN dacl : ~dacl[i].inherited

\* An edit does what its plan says and no more, through several edits and
\* changes of the parent: the order is canonical, other trustees keep their
\* access, what is revoked is gone, what goes is in the diff, and a protected
\* object stays protected (PermissionEditPlan::execute, write_descriptor).
EditSound ==
    /\ \A e \in Editors :
        /\ CanonicalAfterApply(done[e])
        /\ OthersUntouched(done[e])
        /\ RevokeRemovesExplicit(done[e])
        /\ DiffCoversWrite(done[e])
    /\ ProtectedStaysProtected

\* "Keep inherited ACEs unchanged when revoking or replacing trustees": an
\* explicit entry an edit writes was explicit before or is in its diff.
InheritedKept ==
    \A e \in Editors : \A a \in Elems(done[e].wrote) :
        ~a.inherited => a \in Elems(done[e].before) \cup Elems(done[e].diff.added)

\* An edit keeps the explicit entries it knows of the trustees its plan does
\* not name.  parse_sddl_rights leaves out the tokens it does not know, so the
\* write takes those rights away, and no diff shows it.
MasksKept ==
    \A e \in Editors : \A a \in Elems(done[e].read) :
        Parses(a) /\ ~a.inherited /\ a.trustee \notin Named(done[e].plan) =>
            a \in Elems(done[e].wrote)
=============================================================================
