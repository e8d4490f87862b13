---------------------------- MODULE RootBindings ----------------------------
(***************************************************************************)
(* Root bindings and approvals of one machine (binding.rs).  A checkout is *)
(* identified by a token in its git directory; a registered root is bound  *)
(* to the token found there under a fresh registration epoch, and the      *)
(* operator approves epochs, never paths.  Worker containers are attached  *)
(* under an approved epoch.                                                *)
(*                                                                         *)
(* Requests that write hold the module's writer lock from start to end     *)
(* (shared_write.rs), so they never interleave with each other.  The disk  *)
(* changes under them at any time, a project approval is one transaction   *)
(* per root, binding reads the token before its transaction, and the       *)
(* process may die between two of these steps; `op` is the request in      *)
(* progress.                                                               *)
(*                                                                         *)
(* Registry models which roots a project may take and that the journal     *)
(* replays; here a root only has an owner.  Root records are enabled.      *)
(***************************************************************************)
EXTENDS Naturals, FiniteSets, FiniteSetsExt, Functions

CONSTANTS
    Roots,        \* canonical roots, naturals, in root order
    Projects,
    Containers,
    None,
    Unverifiable, \* a checkout whose identity cannot be read
    MaxTokens,    \* bound on the tokens ever written to a checkout
    MaxEpochs,    \* bound on the bindings ever made
    MaxChanges    \* bound on the changes of the disk

ASSUME RootBindingConstants ==
    /\ Roots \subseteq Nat
    /\ {MaxTokens, MaxEpochs, MaxChanges} \subseteq Nat

\* None and Unverifiable are no tokens or epochs, and None is no grant.
ASSUME RootBindingMarkers ==
    /\ None \notin Nat /\ Unverifiable \notin Nat
    /\ None \notin [project : Projects, token : Nat]

VARIABLES
    disk,       \* per root: a token, NoToken or Unverifiable
    tokens,     \* tokens created so far
    owner,      \* project_root
    bound,      \* root_binding
    retired,    \* retired_binding, by epoch
    approved,   \* root_approval: a set of epochs
    attached,   \* derived_root_parent with the binding it was attached under
    op,         \* the request that holds the writer lock
    grant,      \* per root: the project and checkout the operator last approved
                \* there, until that approval is withdrawn, at the root or for
                \* the whole project, or the root leaves its project
    passed,     \* epochs that a withdrawal for a whole project passed over
    exec,       \* an execution admitted under a root's approved binding
    changes     \* changes of the disk so far

vars == <<disk, tokens, owner, bound, retired, approved, attached, op,
          grant, passed, exec, changes>>

tables == <<owner, bound, retired, approved, attached>>

-----------------------------------------------------------------------------
(* Identity: what the disk says, and the records built from it. *)

NoToken == 0

disk_identity(r) == disk[r]

IsToken(d) == d \notin {NoToken, Unverifiable}

Identity(r) ==
    IF disk_identity(r) = Unverifiable THEN "unverifiable"
    ELSE IF r \notin DOMAIN bound THEN "unbound"
    ELSE IF disk_identity(r) = bound[r].token THEN "bound" ELSE "replaced"

RecordEpoch(r) == IF Identity(r) = "bound" THEN bound[r].epoch ELSE None

\* root_record: approved only for a bound root whose epoch is approved.
RecordApproved(r) == RecordEpoch(r) \in approved

\* Faulty: the container's own epoch is not compared.
WorktreeOfRoot(c, t) ==
    LET a == attached[c] IN
    IF a.root \notin DOMAIN bound THEN "retired"
    ELSE IF t = Unverifiable THEN "unverifiable"
    ELSE IF t = bound[a.root].token THEN "bound" ELSE "replaced"

\* worktree_record of a worktree in container c whose checkout shows token t.
WorktreeIdentity(c, t) ==
    LET a == attached[c] IN
    IF a.root \notin DOMAIN bound \/ bound[a.root].epoch # a.epoch THEN "retired"
    ELSE IF t = Unverifiable THEN "unverifiable"
    ELSE IF t = bound[a.root].token THEN "bound" ELSE "replaced"

WorktreeApproved(c, t) ==
    WorktreeIdentity(c, t) = "bound" /\ bound[attached[c].root].epoch \in approved

\* Faulty: the checkout alone decides.
StatusOfCheckout(b) ==
    IF b.root \in DOMAIN bound /\ bound[b.root].token = b.token
    THEN IF disk_identity(b.root) = b.token THEN "active" ELSE "replaced"
    ELSE IF b.epoch \in DOMAIN retired THEN retired[b.epoch].reason ELSE "unknown"

\* What an execution is told about the binding it was admitted under.
binding_status(b) ==
    IF /\ b.root \in DOMAIN bound
       /\ bound[b.root].epoch = b.epoch
       /\ bound[b.root].token = b.token
    THEN IF disk_identity(b.root) = b.token THEN "active"
         ELSE IF disk_identity(b.root) = Unverifiable THEN "unknown"
         ELSE "replaced"
    ELSE IF /\ b.epoch \in DOMAIN retired
            /\ retired[b.epoch].root = b.root
            /\ retired[b.epoch].token = b.token
         THEN IF retired[b.epoch].reason = "replaced" THEN "replaced" ELSE "retired"
         ELSE "unknown"

-----------------------------------------------------------------------------
(* The disk. *)

\* A fresh clone, a checkout with a known token put (back) at the path, or one
\* whose identity cannot be read.
ChangeDisk(r) ==
    /\ changes < MaxChanges
    /\ changes' = changes + 1
    /\ \E d \in (0..tokens) \cup {Unverifiable} :
         d # disk[r] /\ disk' = [disk EXCEPT ![r] = d]
    /\ UNCHANGED <<tokens, tables, op, grant, passed, exec>>

-----------------------------------------------------------------------------
(* Ending bindings. *)

Epochs(R) == {bound[r].epoch : r \in R \cap DOMAIN bound}

Used == DOMAIN retired \cup Epochs(DOMAIN bound)

\* The bindings of the roots R end; their approvals go with their epochs.
RetireTable(R, reason) ==
    [e \in DOMAIN retired \cup Epochs(R) |->
        IF e \in DOMAIN retired THEN retired[e]
        ELSE LET r == CHOOSE x \in R \cap DOMAIN bound : bound[x].epoch = e
             IN  [root |-> r, token |-> bound[r].token, reason |-> reason]]

Retire(R, reason) ==
    /\ retired' = RetireTable(R, reason)
    /\ approved' = approved \ Epochs(R)

Unbind(R) == bound' = Restrict(bound, DOMAIN bound \ R)

\* The operator's approvals do not follow roots that leave their project.
Forget(R) == grant' = [r \in Roots |-> IF r \in R THEN None ELSE grant[r]]

RootsOf(p) == {r \in DOMAIN owner : owner[r] = p}

Unbound == DOMAIN owner \ DOMAIN bound

\* bind_unbound_roots: binds the roots todo, one at a time, in root order.
Binding(todo) ==
    IF todo = {} THEN None
    ELSE [kind |-> "bind", todo |-> todo, token |-> None]

-----------------------------------------------------------------------------
(* Registering, moving and removing roots. *)

\* register or add_root, then binding every unbound root.
AddRoot(r, p) ==
    /\ op = None
    /\ r \notin DOMAIN owner
    /\ owner' = [x \in DOMAIN owner \cup {r} |-> IF x = r THEN p ELSE owner[x]]
    /\ op' = Binding(Unbound \cup {r})
    /\ UNCHANGED <<disk, tokens, bound, retired, approved, attached, grant, passed, exec,
                   changes>>

Token(r) == IF disk[r] = NoToken THEN tokens + 1 ELSE disk[r]

\* create_token: a checkout without a token gets one.
CreateToken(r) ==
    IF disk[r] = NoToken
    THEN /\ tokens < MaxTokens
         /\ tokens' = tokens + 1
         /\ disk' = [disk EXCEPT ![r] = tokens + 1]
    ELSE UNCHANGED <<disk, tokens>>

Rebound(r, p, t) ==
    [x \in DOMAIN bound \cup {r} |->
        IF x = r THEN [project |-> p, token |-> t,
                       epoch |-> Cardinality(Used) + 1]
        ELSE bound[x]]

\* attach_root: the root and its fresh binding in one journal row.  A directory that
\* is no git checkout is attached unbound; a checkout whose token cannot be read is
\* refused, which changes nothing (fresh_binding).
AttachRoot(r, p) ==
    /\ op = None
    /\ r \notin DOMAIN owner
    /\ owner' = [x \in DOMAIN owner \cup {r} |-> IF x = r THEN p ELSE owner[x]]
    /\ IF disk[r] = Unverifiable THEN UNCHANGED <<disk, tokens, bound>>
       ELSE /\ Cardinality(Used) < MaxEpochs
            /\ CreateToken(r)
            /\ bound' = Rebound(r, p, Token(r))
    /\ UNCHANGED <<retired, approved, attached, op, grant, passed, exec, changes>>

\* apply_remove_root: the binding, its approval and the containers attached
\* under the root go with it.
apply_remove_root(r) ==
    /\ Retire({r}, "removed")
    /\ Unbind({r})
    /\ attached' = Restrict(attached, {c \in DOMAIN attached : attached[c].root # r})
    /\ Forget({r})

\* Whether a project may lose its last root depends on the identity log.
RemoveRoot(r) ==
    /\ op = None
    /\ r \in DOMAIN owner
    /\ apply_remove_root(r)
    /\ owner' = Restrict(owner, DOMAIN owner \ {r})
    /\ UNCHANGED <<disk, tokens, op, passed, exec, changes>>

\* move_root_to_new_project, then binding every unbound root.
MoveRootToNewProject(r, p) ==
    /\ op = None
    /\ r \in DOMAIN owner
    /\ Cardinality(RootsOf(owner[r])) > 1
    /\ RootsOf(p) = {}
    /\ apply_remove_root(r)
    /\ owner' = [owner EXCEPT ![r] = p]
    /\ op' = Binding(Unbound \cup {r})
    /\ UNCHANGED <<disk, tokens, passed, exec, changes>>

\* remove: retire_project_bindings, then the roots and containers go, or go to
\* the successor.  Nothing binds the successor's new roots here.
RemoveProject(p, s) ==
    /\ op = None
    /\ RootsOf(p) # {}
    /\ s # p
    /\ Retire(RootsOf(p), "removed")
    /\ Unbind(RootsOf(p))
    /\ IF s = None
       THEN /\ owner' = Restrict(owner, DOMAIN owner \ RootsOf(p))
            /\ attached' = Restrict(attached, {c \in DOMAIN attached :
                                                 attached[c].project # p})
       ELSE /\ owner' = [r \in DOMAIN owner |-> IF owner[r] = p THEN s ELSE owner[r]]
            /\ attached' = [c \in DOMAIN attached |->
                              IF attached[c].project = p
                              THEN [attached[c] EXCEPT !.project = s]
                              ELSE attached[c]]
    /\ Forget(RootsOf(p))
    /\ UNCHANGED <<disk, tokens, op, passed, exec, changes>>

-----------------------------------------------------------------------------
(* Binding: the token is read, or created, before the transaction. *)

\* Only a replaced or never-bound checkout is bound again.
RebindRoot(r) ==
    /\ op = None
    /\ r \in DOMAIN owner
    /\ Identity(r) \in {"replaced", "unbound"}
    /\ op' = Binding({r})
    /\ UNCHANGED <<disk, tokens, tables, grant, passed, exec, changes>>

Reading(o) == o # None /\ o.kind = "bind" /\ o.token = None

\* A checkout that cannot be read stays unbound, and the next root is tried.
BindUnverifiable ==
    /\ Reading(op)
    /\ disk[Min(op.todo)] = Unverifiable
    /\ op' = Binding(op.todo \ {Min(op.todo)})
    /\ UNCHANGED <<disk, tokens, tables, grant, passed, exec, changes>>

BindRead ==
    LET r == Min(op.todo) IN
    /\ Reading(op)
    /\ disk[r] # Unverifiable
    /\ CreateToken(r)
    /\ op' = [op EXCEPT !.token = Token(r)]
    /\ UNCHANGED <<tables, grant, passed, exec, changes>>

\* The root is bound to this token for this project already.
Intact(r, t) ==
    r \in DOMAIN bound /\ bound[r].token = t /\ bound[r].project = owner[r]

\* Faulty: a replaced checkout keeps the epoch of the former one.
ApplyBindInPlace(r, t) ==
    IF r \in DOMAIN bound
    THEN /\ bound' = [bound EXCEPT ![r].token = t]
         /\ UNCHANGED <<retired, approved>>
    ELSE /\ Cardinality(Used) < MaxEpochs
         /\ bound' = Rebound(r, owner[r], t)
         /\ UNCHANGED <<retired, approved>>

\* apply_bind: the binding that was there is retired as replaced.
apply_bind(r, t) ==
    /\ Cardinality(Used) < MaxEpochs
    /\ Retire({r}, "replaced")
    /\ bound' = Rebound(r, owner[r], t)

BindCommit ==
    LET r == Min(op.todo) IN
    /\ op # None /\ op.kind = "bind" /\ op.token # None
    /\ IF Intact(r, op.token) THEN UNCHANGED <<bound, retired, approved>>
       ELSE apply_bind(r, op.token)
    /\ op' = Binding(op.todo \ {r})
    /\ UNCHANGED <<disk, tokens, owner, attached, grant, passed, exec, changes>>

-----------------------------------------------------------------------------
(* Approval. *)

\* One transaction: the record is read again in it, disk included.
set_approval(r, approve) ==
    /\ RecordEpoch(r) # None
    /\ approved' = IF approve THEN approved \cup {RecordEpoch(r)}
                   ELSE approved \ {RecordEpoch(r)}
    /\ grant' = [grant EXCEPT ![r] =
                   IF approve THEN [project |-> owner[r], token |-> disk[r]] ELSE None]
    /\ passed' = passed \ {RecordEpoch(r)}

SetRootApproval(r, approve) ==
    /\ op = None
    /\ r \in DOMAIN owner
    /\ set_approval(r, approve)
    /\ UNCHANGED <<disk, tokens, owner, bound, retired, attached, op, exec,
                   changes>>

Identified(p) == {r \in RootsOf(p) : Identity(r) = "bound"}

\* Approving is refused unless every root is identified; withdrawing goes on
\* with the roots that are, and passes over the others.
SetProjectApproval(p, approve) ==
    /\ op = None
    /\ RootsOf(p) # {}
    /\ approve => Identified(p) = RootsOf(p)
    /\ op' = [kind |-> "approval", project |-> p, approve |-> approve,
              todo |-> Identified(p), over |-> RootsOf(p) \ Identified(p)]
    /\ UNCHANGED <<disk, tokens, tables, grant, passed, exec, changes>>

ApproveNext ==
    LET r == Min(op.todo) IN
    /\ op # None /\ op.kind = "approval" /\ op.todo # {}
    /\ set_approval(r, op.approve)
    /\ op' = [op EXCEPT !.todo = @ \ {r}]
    /\ UNCHANGED <<disk, tokens, owner, bound, retired, attached, exec, changes>>

\* The checkout changed since the records were read: the request fails, and
\* what its earlier transactions wrote stays.
ApproveFails ==
    /\ op # None /\ op.kind = "approval" /\ op.todo # {}
    /\ RecordEpoch(Min(op.todo)) = None
    /\ op' = None
    /\ UNCHANGED <<disk, tokens, tables, grant, passed, exec, changes>>

\* The request succeeds.  With a withdrawal the operator has taken back every root of
\* the project, those passed over among them, whose approvals stay in the table.
ApproveDone ==
    /\ op # None /\ op.kind = "approval" /\ op.todo = {}
    /\ op' = None
    /\ IF op.approve THEN UNCHANGED <<grant, passed>>
       ELSE Forget(op.over) /\ passed' = passed \cup Epochs(op.over)
    /\ UNCHANGED <<disk, tokens, tables, exec, changes>>

-----------------------------------------------------------------------------
(* Containers, executions, crashes. *)

\* The caller names the binding it verified: it must still be the root's
\* active and approved one, with its checkout on disk.
AttachDerivedParent(c, r, p, epoch, token) ==
    /\ op = None
    /\ r \in DOMAIN owner /\ owner[r] = p
    /\ epoch \notin DOMAIN retired
    /\ RecordEpoch(r) = epoch
    /\ bound[r].token = token
    /\ RecordApproved(r)
    /\ c \notin DOMAIN attached
    /\ attached' = [x \in DOMAIN attached \cup {c} |->
                      IF x = c THEN [project |-> p, root |-> r, epoch |-> epoch]
                      ELSE attached[x]]
    /\ UNCHANGED <<disk, tokens, owner, bound, retired, approved, op, grant, passed, exec,
                   changes>>

\* A consumer admits work under a root's approved record and keeps its binding.
Admit(r) ==
    /\ exec = None
    /\ r \in DOMAIN owner
    /\ RecordApproved(r)
    /\ exec' = [root |-> r, token |-> bound[r].token, epoch |-> bound[r].epoch,
                project |-> owner[r]]
    /\ UNCHANGED <<disk, tokens, tables, op, grant, passed, changes>>

\* The module dies and starts again: it binds what has no binding.
Crash ==
    /\ op' = Binding(Unbound)
    /\ UNCHANGED <<disk, tokens, tables, grant, passed, exec, changes>>

-----------------------------------------------------------------------------
Init ==
    /\ disk = [r \in Roots |-> NoToken]
    /\ tokens = 0
    /\ owner = [r \in {} |-> None]
    /\ bound = [r \in {} |-> None]
    /\ retired = [e \in {} |-> None]
    /\ approved = {}
    /\ attached = [c \in {} |-> None]
    /\ op = None
    /\ grant = [r \in Roots |-> None]
    /\ passed = {}
    /\ exec = None
    /\ changes = 0

RootNext ==
    \/ \E r \in Roots, p \in Projects : AddRoot(r, p)
    \/ \E r \in Roots, p \in Projects : AttachRoot(r, p)
    \/ \E r \in Roots : RemoveRoot(r)
    \/ \E r \in Roots, p \in Projects : MoveRootToNewProject(r, p)
    \/ \E p \in Projects, s \in Projects \cup {None} : RemoveProject(p, s)
    \/ \E r \in Roots : RebindRoot(r)

ApprovalNext ==
    \/ \E r \in Roots, approve \in BOOLEAN : SetRootApproval(r, approve)
    \/ \E p \in Projects, approve \in BOOLEAN : SetProjectApproval(p, approve)
    \/ ApproveNext
    \/ ApproveFails
    \/ ApproveDone

Next ==
    \/ RootNext
    \/ BindUnverifiable
    \/ BindRead
    \/ BindCommit
    \/ ApprovalNext
    \/ \E c \in Containers, r \in Roots, p \in Projects,
          epoch \in Used, token \in 1..tokens :
            AttachDerivedParent(c, r, p, epoch, token)
    \/ \E r \in Roots : Admit(r)
    \/ \E r \in Roots : ChangeDisk(r)
    \/ Crash

Spec == Init /\ [][Next]_vars

-----------------------------------------------------------------------------
(* Properties *)

\* The tables' shapes; an epoch names one binding, live or retired.
TypeOK ==
    /\ disk \in [Roots -> (0..tokens) \cup {Unverifiable}]
    /\ DOMAIN bound \subseteq DOMAIN owner
    /\ \A r \in DOMAIN bound : bound[r].token \in 1..tokens
    /\ Cardinality(Epochs(DOMAIN bound)) = Cardinality(DOMAIN bound)
    /\ Used = 1..Cardinality(Used)

Granted(r, p, t) ==
    grant[r] # None /\ grant[r].project = p /\ grant[r].token = t

\* What set_project_approval says of itself: it withdraws the approval of every root
\* of the project (binding.rs).  A root answers "approved" only for a checkout the
\* operator approved at that root, in its present project, and never since a
\* withdrawal, at the root or for the project, took the approval back.
WithdrawnForEveryRoot ==
    \A r \in DOMAIN owner :
        RecordApproved(r) => Granted(r, owner[r], disk[r])

\* The same but for the roots that a withdrawal for the whole project passed over, as
\* their checkouts were not identified then: an approval never lands on a replaced
\* checkout, and a root that is moved, merged or added again starts unapproved.
ApprovalIsGranted ==
    \A r \in DOMAIN owner :
        RecordApproved(r) =>
            Granted(r, owner[r], disk[r]) \/ RecordEpoch(r) \in passed

\* An ended binding authorises nothing: its epoch is neither active nor
\* approved again, and every approval belongs to a binding in force.
RetiredEpochsEnd ==
    /\ DOMAIN retired \cap Epochs(DOMAIN bound) = {}
    /\ approved \subseteq Epochs(DOMAIN bound)

\* A worktree is approved only under a container attached to a binding that has
\* not ended since, in the root's present project, with the checkout the operator
\* approved there (but for one that a withdrawal passed over): binding and approving
\* the root again does not revive the containers of its former bindings.
WorktreeNeedsCurrent ==
    \A c \in DOMAIN attached, t \in (0..tokens) \cup {Unverifiable} :
        WorktreeApproved(c, t) =>
            /\ attached[c].epoch \notin DOMAIN retired
            /\ attached[c].root \in DOMAIN owner
            /\ owner[attached[c].root] = attached[c].project
            /\ \/ Granted(attached[c].root, attached[c].project, t)
               \/ attached[c].epoch \in passed

\* An execution is told "active" only while its root is still in the project it
\* was admitted under and its own checkout is on disk; once its binding has
\* ended it is told so for good, never "unknown".
EndedIsTold ==
    exec # None =>
        /\ binding_status(exec) = "active" =>
             /\ exec.root \in DOMAIN owner /\ owner[exec.root] = exec.project
             /\ disk[exec.root] = exec.token
        /\ binding_status(exec) = "unknown" =>
             exec.root \in DOMAIN bound /\ disk[exec.root] = Unverifiable

\* A binding that ended stays ended, in the tables and for the executions that
\* were admitted under it.
EndedStaysEnded == TypeOK /\ RetiredEpochsEnd /\ EndedIsTold

=============================================================================
