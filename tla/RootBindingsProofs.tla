------------------------- MODULE RootBindingsProofs -------------------------
(***************************************************************************)
(* Approvals of checkouts, and the end of bindings, for every set of roots,*)
(* projects and containers and every bound.                                *)
(*                                                                         *)
(* The properties speak of what the machine answers; they follow from what *)
(* the tables keep: registration epochs are 1..n, live or retired, none    *)
(* twice; a binding is of the project that owns its root; an approved      *)
(* epoch is one the operator granted, for that root, project and checkout; *)
(* a container or an execution whose epoch is live is in the binding's     *)
(* project.                                                                *)
(***************************************************************************)
EXTENDS RootBindings, FiniteSetTheorems, WellFoundedInduction, TLAPS

BindingRow == [project : Projects, token : Nat, epoch : Nat]
RetiredRow == [root : Roots, token : Nat, reason : {"removed", "replaced"}]
GrantRow == [project : Projects, token : Nat]
AttachedRow == [project : Projects, root : Roots, epoch : Nat]
ExecRow == [root : Roots, token : Nat, epoch : Nat, project : Projects]

BindRequest ==
    [kind : {"bind"}, todo : (SUBSET DOMAIN owner) \ {{}}, token : {None} \cup 1..tokens]
ApprovalRequest ==
    [kind : {"approval"}, project : Projects, approve : BOOLEAN,
     todo : SUBSET DOMAIN owner, over : SUBSET DOMAIN owner]

\* The disk, the request in progress and the roots of the projects.
DiskInv ==
    /\ tokens \in Nat
    /\ disk \in [Roots -> (0..tokens) \cup {Unverifiable}]
    /\ DOMAIN owner \subseteq Roots
    /\ owner \in [DOMAIN owner -> Projects]
    /\ grant \in [Roots -> {None} \cup GrantRow]

RequestInv == op = None \/ op \in BindRequest \/ op \in ApprovalRequest

\* A root's binding is of its present project, and no two share an epoch.
BoundInv ==
    /\ DOMAIN bound \subseteq DOMAIN owner
    /\ bound \in [DOMAIN bound -> BindingRow]
    /\ \A r \in DOMAIN bound : bound[r].token \in 1..tokens
    /\ \A r \in DOMAIN bound : bound[r].project = owner[r]
    /\ \A r, x \in DOMAIN bound : bound[r].epoch = bound[x].epoch => r = x

\* Epochs are handed out in order, and a live one is not retired.
EpochInv ==
    /\ DOMAIN retired \subseteq Nat
    /\ retired \in [DOMAIN retired -> RetiredRow]
    /\ \E n \in Nat : Used = 1..n
    /\ RetiredEpochsEnd

\* An approved epoch is one the operator granted, or a withdrawal passed over.
GrantInv ==
    \A r \in DOMAIN bound :
        bound[r].epoch \in approved =>
            Granted(r, owner[r], bound[r].token) \/ bound[r].epoch \in passed

\* A container under a live binding is in that binding's project.
AttachedInv ==
    /\ attached \in [DOMAIN attached -> AttachedRow]
    /\ \A c \in DOMAIN attached :
         /\ attached[c].epoch \in Used
         /\ \A r \in DOMAIN bound :
              attached[c].root = r /\ bound[r].epoch = attached[c].epoch =>
                attached[c].project = owner[r]

\* The binding of an execution is in force, or retired under its own root and
\* token.
ExecInv ==
    exec # None =>
      /\ exec \in ExecRow
      /\ \/ /\ exec.root \in DOMAIN bound
            /\ bound[exec.root].epoch = exec.epoch
            /\ bound[exec.root].token = exec.token
            /\ owner[exec.root] = exec.project
         \/ /\ exec.epoch \in DOMAIN retired
            /\ retired[exec.epoch].root = exec.root
            /\ retired[exec.epoch].token = exec.token

TablesInv == DiskInv /\ BoundInv /\ EpochInv /\ GrantInv /\ AttachedInv /\ ExecInv

BindingInv == TablesInv /\ RequestInv

-----------------------------------------------------------------------------
(* What the invariant says of the properties. *)

\* A set of naturals that is not empty has a least element.
LEMMA MinInSet ==
    ASSUME NEW S, S \subseteq Nat, S # {}
    PROVE  Min(S) \in S
<1> DEFINE lt == {p \in Nat \X Nat : p[1] < p[2]}
<1>1. IsWellFoundedOn(lt, Nat)
  BY NatLessThanWellFounded DEF OpToRel
<1>2. PICK x \in S : \A y \in S : ~ (<<y, x>> \in lt)
  <2> HIDE DEF lt
  <2> QED BY <1>1, WFMin
<1>3. ASSUME NEW y \in S PROVE x =< y
  <2>1. <<y, x>> \in Nat \X Nat /\ ~ (y < x)
    BY <1>2
  <2>2. QED
    BY <2>1
<1>4. QED
  BY <1>3 DEF Min

\* The next epoch is unused.
LEMMA FreshEpoch ==
    ASSUME EpochInv
    PROVE  /\ Cardinality(Used) \in Nat
           /\ Used = 1..Cardinality(Used)
           /\ Cardinality(Used) + 1 \notin Used
           /\ Used \cup {Cardinality(Used) + 1} = 1..(Cardinality(Used) + 1)
<1>1. PICK n \in Nat : Used = 1..n
  BY DEF EpochInv
<1>2. Cardinality(1..n) = n
  BY FS_Interval
<1>3. Cardinality(Used) = n
  BY <1>1, <1>2
<1>4. QED
  BY <1>1, <1>3

\* There are as many live epochs as bound roots.
LEMMA EpochsCount ==
    ASSUME BoundInv, EpochInv
    PROVE  Cardinality(Epochs(DOMAIN bound)) = Cardinality(DOMAIN bound)
<1> DEFINE f == [r \in DOMAIN bound |-> bound[r].epoch]
<1>1. PICK n \in Nat : Used = 1..n
  BY DEF EpochInv
<1>2. IsFiniteSet(1..n)
  BY FS_Interval
<1>3. Epochs(DOMAIN bound) \in SUBSET (1..n)
  BY <1>1 DEF Used
<1>4. IsFiniteSet(Epochs(DOMAIN bound))
  BY <1>2, <1>3, FS_Subset
<1>5. f \in Bijection(DOMAIN bound, Epochs(DOMAIN bound))
  BY DEF BoundInv, Epochs, Bijection, Injection, Surjection, IsInjective
<1>6. f \in Injection(DOMAIN bound, Epochs(DOMAIN bound))
  BY <1>5 DEF Bijection
<1>7. IsFiniteSet(DOMAIN bound)
  <2> HIDE DEF f
  <2> QED BY <1>4, <1>6, FS_Injection
<1>8. ExistsBijection(DOMAIN bound, Epochs(DOMAIN bound))
  <2> HIDE DEF f
  <2> QED BY <1>5 DEF ExistsBijection
<1>9. QED
  BY <1>7, <1>8, FS_Bijection

\* The answers follow from the tables.
LEMMA BindingAnswers ==
    ASSUME BindingInv
    PROVE  EndedStaysEnded /\ ApprovalIsGranted /\ WorktreeNeedsCurrent
<1> USE DEF BindingInv, TablesInv
<1>1. TypeOK
  BY FreshEpoch, EpochsCount DEF TypeOK, DiskInv, BoundInv
<1>2. EndedIsTold
  <2>1. SUFFICES ASSUME exec # None PROVE EndedIsTold
    BY DEF EndedIsTold
  <2>2. CASE /\ exec.root \in DOMAIN bound
             /\ bound[exec.root].epoch = exec.epoch
             /\ bound[exec.root].token = exec.token
             /\ owner[exec.root] = exec.project
    BY <2>2 DEF EndedIsTold, binding_status, disk_identity, BoundInv
  <2>3. CASE /\ exec.epoch \in DOMAIN retired
             /\ retired[exec.epoch].root = exec.root
             /\ retired[exec.epoch].token = exec.token
    <3>1. exec.root \in DOMAIN bound => bound[exec.root].epoch # exec.epoch
      BY <2>3 DEF EpochInv, RetiredEpochsEnd, Epochs
    <3>2. binding_status(exec) \in {"replaced", "retired"}
      BY <2>3, <3>1 DEF binding_status
    <3>3. QED
      BY <3>2 DEF EndedIsTold
  <2>4. QED
    BY <2>1, <2>2, <2>3 DEF ExecInv
<1>3. ASSUME NEW r \in DOMAIN owner, RecordApproved(r)
      PROVE  Granted(r, owner[r], disk[r]) \/ RecordEpoch(r) \in passed
  <2>1. approved \subseteq Nat
    BY DEF EpochInv, RetiredEpochsEnd, Epochs, BoundInv, BindingRow
  <2>2. Identity(r) = "bound" /\ bound[r].epoch \in approved
    BY <1>3, <2>1, RootBindingMarkers DEF RecordApproved, RecordEpoch
  <2>3. r \in DOMAIN bound /\ disk[r] = bound[r].token /\ RecordEpoch(r) = bound[r].epoch
    BY <2>2 DEF Identity, disk_identity, RecordEpoch
  <2>4. QED
    BY <2>2, <2>3 DEF GrantInv
<1>4. ASSUME NEW c \in DOMAIN attached, NEW t, WorktreeApproved(c, t)
      PROVE  /\ attached[c].epoch \notin DOMAIN retired
             /\ attached[c].root \in DOMAIN owner
             /\ owner[attached[c].root] = attached[c].project
             /\ \/ Granted(attached[c].root, attached[c].project, t)
                \/ attached[c].epoch \in passed
  <2> DEFINE r == attached[c].root
  <2>1. /\ r \in DOMAIN bound
        /\ bound[r].epoch = attached[c].epoch
        /\ t = bound[r].token
        /\ bound[r].epoch \in approved
    BY <1>4 DEF WorktreeApproved, WorktreeIdentity
  <2>2. r \in DOMAIN owner /\ owner[r] = attached[c].project
    BY <2>1 DEF AttachedInv, BoundInv
  <2>3. attached[c].epoch \notin DOMAIN retired
    BY <2>1 DEF EpochInv, RetiredEpochsEnd, Epochs
  <2>4. QED
    BY <2>1, <2>2, <2>3 DEF GrantInv
<1>5. RetiredEpochsEnd
  BY DEF EpochInv
<1>6. QED
  BY <1>1, <1>2, <1>3, <1>4, <1>5
     DEF EndedStaysEnded, ApprovalIsGranted, WorktreeNeedsCurrent

-----------------------------------------------------------------------------
(* Steps that change the tables. *)

\* A binding that ends is kept, under its epoch, with its root and token.
LEMMA RetireKeeps ==
    ASSUME BoundInv, DiskInv, EpochInv, NEW R, NEW reason \in {"removed", "replaced"},
           Retire(R, reason)
    PROVE  /\ DOMAIN retired' = DOMAIN retired \cup Epochs(R)
           /\ DOMAIN retired' \subseteq Nat
           /\ retired' \in [DOMAIN retired' -> RetiredRow]
           /\ \A e \in DOMAIN retired : retired'[e] = retired[e]
           /\ \A r \in R \cap DOMAIN bound :
                /\ retired'[bound[r].epoch].root = r
                /\ retired'[bound[r].epoch].token = bound[r].token
<1>1. DOMAIN retired' = DOMAIN retired \cup Epochs(R)
  BY DEF Retire, RetireTable
<1>2. \A e \in DOMAIN retired : retired'[e] = retired[e]
  BY DEF Retire, RetireTable
<1>3. ASSUME NEW r \in R \cap DOMAIN bound
      PROVE  retired'[bound[r].epoch] =
               [root |-> r, token |-> bound[r].token, reason |-> reason]
  <2>1. bound[r].epoch \in Epochs(R) /\ bound[r].epoch \notin DOMAIN retired
    BY DEF Epochs, EpochInv, RetiredEpochsEnd
  <2>2. (CHOOSE x \in R \cap DOMAIN bound : bound[x].epoch = bound[r].epoch) = r
    BY DEF BoundInv
  <2>3. QED
    BY <2>1, <2>2 DEF Retire, RetireTable
<1>4. DOMAIN retired' \subseteq Nat
  BY <1>1 DEF EpochInv, Epochs, BoundInv, BindingRow
<1>5. ASSUME NEW e \in DOMAIN retired' PROVE retired'[e] \in RetiredRow
  <2>1. CASE e \in DOMAIN retired
    BY <2>1, <1>2 DEF EpochInv
  <2>2. CASE e \in Epochs(R)
    <3>1. PICK r \in R \cap DOMAIN bound : e = bound[r].epoch
      BY <2>2 DEF Epochs
    <3>2. r \in Roots /\ bound[r].token \in Nat
      BY DEF BoundInv, DiskInv, BindingRow
    <3>3. retired'[e] = [root |-> r, token |-> bound[r].token, reason |-> reason]
      BY <1>3, <3>1
    <3>4. QED
      BY <3>2, <3>3 DEF RetiredRow
  <2>3. QED
    BY <1>1, <2>1, <2>2
<1>6. retired' \in [DOMAIN retired' -> RetiredRow]
  BY <1>5 DEF Retire, RetireTable
<1>7. ASSUME NEW r \in R \cap DOMAIN bound
      PROVE  /\ retired'[bound[r].epoch].root = r
             /\ retired'[bound[r].epoch].token = bound[r].token
  <2>1. retired'[bound[r].epoch] =
          [root |-> r, token |-> bound[r].token, reason |-> reason]
    BY <1>3
  <2>2. QED
    BY <2>1
<1>8. QED
  BY <1>1, <1>2, <1>4, <1>6, <1>7

\* The bindings of the roots R end, and the operator's grants there with them;
\* the roots outside R keep their projects, and a container keeps its own
\* unless its root is among R or its binding has ended.
LEMMA UnbindSafe ==
    ASSUME TablesInv, NEW R,
           Retire(R, "removed"), Unbind(R), Forget(R),
           UNCHANGED <<disk, tokens, passed, exec>>,
           DOMAIN owner' \subseteq DOMAIN owner,
           owner' \in [DOMAIN owner' -> Projects],
           \A r \in DOMAIN owner \ R : r \in DOMAIN owner' /\ owner'[r] = owner[r],
           attached' \in [DOMAIN attached' -> AttachedRow],
           \A c \in DOMAIN attached' :
             /\ c \in DOMAIN attached
             /\ attached'[c].root = attached[c].root
             /\ attached'[c].epoch = attached[c].epoch
             /\ \A r \in DOMAIN bound \ R :
                  attached[c].root = r /\ bound[r].epoch = attached[c].epoch =>
                    attached'[c].project = attached[c].project
    PROVE  TablesInv'
<1> USE DEF TablesInv
<1>1. /\ DOMAIN bound' = DOMAIN bound \ R
      /\ \A r \in DOMAIN bound' : bound'[r] = bound[r]
      /\ bound' \in [DOMAIN bound' -> BindingRow]
  BY DEF Unbind, Restrict, BoundInv
<1>2. /\ DOMAIN retired' = DOMAIN retired \cup Epochs(R)
      /\ DOMAIN retired' \subseteq Nat
      /\ retired' \in [DOMAIN retired' -> RetiredRow]
      /\ \A e \in DOMAIN retired : retired'[e] = retired[e]
      /\ \A r \in R \cap DOMAIN bound :
           /\ retired'[bound[r].epoch].root = r
           /\ retired'[bound[r].epoch].token = bound[r].token
  BY RetireKeeps
<1>3. Epochs(DOMAIN bound)' = {bound[r].epoch : r \in DOMAIN bound \ R}
  BY <1>1 DEF Epochs
<1>4. Used' = Used
  <2>1. Used' = DOMAIN retired' \cup Epochs(DOMAIN bound)'
    BY DEF Used
  <2>2. Epochs(DOMAIN bound) =
          Epochs(R) \cup {bound[r].epoch : r \in DOMAIN bound \ R}
    BY DEF Epochs
  <2>3. QED
    BY <1>2, <1>3, <2>1, <2>2 DEF Used
<1>5. DiskInv'
  BY DEF DiskInv, Forget
<1>6. BoundInv'
  <2>1. DOMAIN bound' \subseteq DOMAIN owner'
    BY <1>1 DEF BoundInv
  <2>2. \A r \in DOMAIN bound' : bound'[r].token \in 1..tokens'
    BY <1>1 DEF BoundInv
  <2>3. \A r \in DOMAIN bound' : bound'[r].project = owner'[r]
    BY <1>1 DEF BoundInv
  <2>4. \A r, x \in DOMAIN bound' : bound'[r].epoch = bound'[x].epoch => r = x
    BY <1>1 DEF BoundInv
  <2>5. QED
    BY <1>1, <2>1, <2>2, <2>3, <2>4 DEF BoundInv
<1>7. RetiredEpochsEnd'
  <2>1. DOMAIN retired' \cap Epochs(DOMAIN bound)' = {}
    <3>1. ASSUME NEW r \in DOMAIN bound \ R
          PROVE  bound[r].epoch \notin DOMAIN retired /\ bound[r].epoch \notin Epochs(R)
      BY DEF EpochInv, RetiredEpochsEnd, Epochs, BoundInv
    <3>2. QED
      BY <1>2, <1>3, <3>1
  <2>2. approved' \subseteq Epochs(DOMAIN bound)'
    BY <1>3 DEF EpochInv, RetiredEpochsEnd, Epochs, Retire
  <2>3. QED
    BY <2>1, <2>2 DEF RetiredEpochsEnd
<1>8. EpochInv'
  BY <1>2, <1>4, <1>7 DEF EpochInv
<1>9. GrantInv'
  <2>1. SUFFICES ASSUME NEW r \in DOMAIN bound', bound'[r].epoch \in approved'
                 PROVE  (Granted(r, owner[r], bound[r].token) \/ bound[r].epoch \in passed)'
    BY DEF GrantInv
  <2>2. r \in DOMAIN bound \ R /\ bound[r].epoch \in approved /\ bound'[r] = bound[r]
    BY <1>1, <2>1 DEF Retire
  <2>3. Granted(r, owner[r], bound[r].token) \/ bound[r].epoch \in passed
    BY <2>2 DEF GrantInv
  <2>4. r \in Roots /\ owner'[r] = owner[r]
    BY <2>2 DEF BoundInv, DiskInv
  <2>5. grant'[r] = grant[r]
    BY <2>2, <2>4 DEF Forget
  <2>6. QED
    BY <2>2, <2>3, <2>4, <2>5 DEF Granted
<1>10. AttachedInv'
  <2>1. ASSUME NEW c \in DOMAIN attached', NEW r \in DOMAIN bound',
               attached'[c].root = r, bound'[r].epoch = attached'[c].epoch
        PROVE  attached'[c].project = owner'[r]
    <3>1. r \in DOMAIN bound \ R /\ bound'[r] = bound[r] /\ owner'[r] = owner[r]
      BY <1>1 DEF BoundInv
    <3>2. attached[c].root = r /\ bound[r].epoch = attached[c].epoch
      BY <2>1, <3>1
    <3>3. attached[c].project = owner[r]
      BY <3>1, <3>2 DEF AttachedInv
    <3>4. QED
      BY <3>1, <3>2, <3>3
  <2>2. \A c \in DOMAIN attached' : attached'[c].epoch \in Used'
    BY <1>4 DEF AttachedInv
  <2>3. QED
    BY <2>1, <2>2 DEF AttachedInv
<1>11. ExecInv'
  <2>1. SUFFICES ASSUME exec # None PROVE ExecInv'
    BY DEF ExecInv
  <2>2. exec' = exec /\ exec \in ExecRow
    BY <2>1 DEF ExecInv
  <2>3. CASE exec.root \in DOMAIN bound' /\ bound[exec.root].epoch = exec.epoch
    <3>1. /\ bound[exec.root].token = exec.token
          /\ owner[exec.root] = exec.project
      BY <1>1, <2>1, <2>3 DEF ExecInv, EpochInv, RetiredEpochsEnd, Epochs
    <3>2. exec.root \in DOMAIN owner \ R
      BY <1>1, <2>3 DEF BoundInv
    <3>3. owner'[exec.root] = owner[exec.root]
      BY <3>2
    <3>4. QED
      BY <1>1, <2>2, <2>3, <3>1, <3>3 DEF ExecInv
  <2>4. CASE ~(exec.root \in DOMAIN bound' /\ bound[exec.root].epoch = exec.epoch)
    <3>1. /\ exec.epoch \in DOMAIN retired'
          /\ retired'[exec.epoch].root = exec.root
          /\ retired'[exec.epoch].token = exec.token
      <4>1. CASE exec.epoch \in DOMAIN retired
        <5>1. /\ retired[exec.epoch].root = exec.root
              /\ retired[exec.epoch].token = exec.token
          BY <2>1, <4>1 DEF ExecInv, EpochInv, RetiredEpochsEnd, Epochs
        <5>2. QED
          BY <1>2, <4>1, <5>1
      <4>2. CASE exec.epoch \notin DOMAIN retired
        <5>1. /\ exec.root \in R \cap DOMAIN bound
              /\ bound[exec.root].epoch = exec.epoch
              /\ bound[exec.root].token = exec.token
          BY <1>1, <2>1, <2>4, <4>2 DEF ExecInv
        <5>2. QED
          BY <1>2, <5>1 DEF Epochs
      <4>3. QED
        BY <4>1, <4>2
    <3>2. QED
      BY <2>2, <3>1 DEF ExecInv
  <2>5. QED
    BY <2>3, <2>4
<1>12. QED
  BY <1>5, <1>6, <1>8, <1>9, <1>10, <1>11

\* The root r gets its binding: the one that was there is retired, and no
\* approval, container or execution has the fresh epoch.
LEMMA RebindSafe ==
    ASSUME TablesInv, NEW r \in Roots, NEW p \in Projects, NEW t,
           Retire({r}, "replaced"), bound' = Rebound(r, p, t),
           tokens' \in Nat, tokens <= tokens', t \in 1..tokens',
           disk' \in [Roots -> (0..tokens') \cup {Unverifiable}],
           DOMAIN owner' = DOMAIN owner \cup {r},
           owner' \in [DOMAIN owner' -> Projects],
           owner'[r] = p, \A x \in DOMAIN owner \ {r} : owner'[x] = owner[x],
           UNCHANGED <<attached, grant, passed, exec>>
    PROVE  TablesInv'
<1> USE DEF TablesInv
<1> DEFINE new == Cardinality(Used) + 1
<1>1. /\ Cardinality(Used) \in Nat /\ new \in Nat
      /\ new \notin Used
      /\ Used \cup {new} = 1..new
  BY FreshEpoch
<1> HIDE DEF new
<1>2. /\ DOMAIN bound' = DOMAIN bound \cup {r}
      /\ bound'[r] = [project |-> p, token |-> t, epoch |-> new]
      /\ \A x \in DOMAIN bound \ {r} : bound'[x] = bound[x]
      /\ bound' \in [DOMAIN bound' -> BindingRow]
  <2>1. t \in Nat
    OBVIOUS
  <2>2. [project |-> p, token |-> t, epoch |-> new] \in BindingRow
    BY <1>1, <2>1 DEF BindingRow
  <2>3. QED
    BY <2>2 DEF Rebound, BoundInv, new
<1>3. /\ DOMAIN retired' = DOMAIN retired \cup Epochs({r})
      /\ DOMAIN retired' \subseteq Nat
      /\ retired' \in [DOMAIN retired' -> RetiredRow]
      /\ \A e \in DOMAIN retired : retired'[e] = retired[e]
      /\ \A x \in {r} \cap DOMAIN bound :
           /\ retired'[bound[x].epoch].root = x
           /\ retired'[bound[x].epoch].token = bound[x].token
  BY RetireKeeps
<1> DEFINE rest == {bound[x].epoch : x \in DOMAIN bound \ {r}}
<1>4. Epochs(DOMAIN bound)' = rest \cup {new}
  <2>1. Epochs(DOMAIN bound)' = {bound'[x].epoch : x \in DOMAIN bound'}
    BY DEF Epochs
  <2>2. bound'[r].epoch = new
    BY <1>2
  <2>3. \A x \in DOMAIN bound \ {r} : bound'[x].epoch = bound[x].epoch
    BY <1>2
  <2>4. DOMAIN bound' = (DOMAIN bound \ {r}) \cup {r}
    BY <1>2
  <2>5. ASSUME NEW e PROVE e \in Epochs(DOMAIN bound)' <=> e \in rest \cup {new}
    <3>1. e \in Epochs(DOMAIN bound)' <=>
            \E x \in (DOMAIN bound \ {r}) \cup {r} : e = bound'[x].epoch
      BY <2>1, <2>4
    <3>2. QED
      BY <2>2, <2>3, <3>1
  <2>6. QED
    BY <2>5
<1>5. Epochs(DOMAIN bound) = rest \cup Epochs({r})
  BY DEF Epochs
<1>6. Used' = Used \cup {new}
  <2>1. Used' = DOMAIN retired' \cup Epochs(DOMAIN bound)'
    BY DEF Used
  <2>2. QED
    BY <1>3, <1>4, <1>5, <2>1 DEF Used
<1>7. \A x \in DOMAIN bound : bound[x].epoch \in Used
  BY DEF Used, Epochs
<1>8. DiskInv'
  BY DEF DiskInv
<1>9. BoundInv'
  <2>1. DOMAIN bound' \subseteq DOMAIN owner'
    BY <1>2 DEF BoundInv
  <2>2. \A x \in DOMAIN bound' : bound'[x].token \in 1..tokens'
    BY <1>2 DEF BoundInv, DiskInv
  <2>3. \A x \in DOMAIN bound' : bound'[x].project = owner'[x]
    BY <1>2 DEF BoundInv
  <2>4. \A x, y \in DOMAIN bound' : bound'[x].epoch = bound'[y].epoch => x = y
    BY <1>1, <1>2, <1>7 DEF BoundInv
  <2>5. QED
    BY <1>2, <2>1, <2>2, <2>3, <2>4 DEF BoundInv
<1>10. approved' \subseteq rest /\ approved' \subseteq approved
  BY <1>5 DEF EpochInv, RetiredEpochsEnd, Retire
<1>11. RetiredEpochsEnd'
  <2>1. DOMAIN retired' \subseteq Used
    BY <1>3, <1>5 DEF Used
  <2>2. ASSUME NEW x \in DOMAIN bound \ {r}
        PROVE  bound[x].epoch \notin DOMAIN retired /\ bound[x].epoch \notin Epochs({r})
    BY DEF EpochInv, RetiredEpochsEnd, Epochs, BoundInv
  <2>3. DOMAIN retired' \cap Epochs(DOMAIN bound)' = {}
    <3>1. rest \cap DOMAIN retired' = {}
      <4>1. ASSUME NEW e \in rest PROVE e \notin DOMAIN retired'
        BY <1>3, <2>2
      <4>2. QED
        BY <4>1
    <3>2. new \notin DOMAIN retired'
      BY <1>1, <2>1
    <3>3. QED
      BY <1>4, <3>1, <3>2
  <2>4. QED
    BY <1>4, <1>10, <2>3 DEF RetiredEpochsEnd
<1>12. EpochInv'
  BY <1>1, <1>3, <1>6, <1>11 DEF EpochInv
<1>13. GrantInv'
  <2>1. SUFFICES ASSUME NEW x \in DOMAIN bound', bound'[x].epoch \in approved'
                 PROVE  (Granted(x, owner[x], bound[x].token) \/ bound[x].epoch \in passed)'
    BY DEF GrantInv
  <2>2. approved' \subseteq Used
    BY <1>5, <1>10 DEF Used
  <2>3. x # r
    BY <1>1, <1>2, <2>1, <2>2
  <2>4. x \in DOMAIN bound \ {r} /\ bound'[x] = bound[x] /\ bound[x].epoch \in approved
    BY <1>2, <1>10, <2>1, <2>3
  <2>5. Granted(x, owner[x], bound[x].token) \/ bound[x].epoch \in passed
    BY <2>4 DEF GrantInv
  <2>6. owner'[x] = owner[x]
    BY <2>4 DEF BoundInv
  <2>7. QED
    BY <2>4, <2>5, <2>6 DEF Granted
<1>14. AttachedInv'
  <2>1. ASSUME NEW c \in DOMAIN attached, NEW x \in DOMAIN bound',
               attached[c].root = x, bound'[x].epoch = attached[c].epoch
        PROVE  attached[c].project = owner'[x]
    <3>1. attached[c].epoch \in Used
      BY DEF AttachedInv
    <3>2. x \in DOMAIN bound \ {r} /\ bound'[x] = bound[x]
      BY <1>1, <1>2, <2>1, <3>1
    <3>3. owner'[x] = owner[x]
      BY <3>2 DEF BoundInv
    <3>4. QED
      BY <2>1, <3>2, <3>3 DEF AttachedInv
  <2>2. \A c \in DOMAIN attached' : attached'[c].epoch \in Used'
    BY <1>6 DEF AttachedInv
  <2>3. QED
    BY <2>1, <2>2 DEF AttachedInv
<1>15. ExecInv'
  <2>1. SUFFICES ASSUME exec # None PROVE ExecInv'
    BY DEF ExecInv
  <2>2. exec' = exec /\ exec \in ExecRow
    BY <2>1 DEF ExecInv
  <2>3. CASE /\ exec.root \in DOMAIN bound \ {r}
             /\ bound[exec.root].epoch = exec.epoch
             /\ bound[exec.root].token = exec.token
             /\ owner[exec.root] = exec.project
    <3>1. exec.root \in DOMAIN owner \ {r}
      BY <2>3 DEF BoundInv
    <3>2. owner'[exec.root] = owner[exec.root]
      BY <3>1
    <3>3. QED
      BY <1>2, <2>2, <2>3, <3>2 DEF ExecInv
  <2>4. CASE /\ exec.root \in {r} \cap DOMAIN bound
             /\ bound[exec.root].epoch = exec.epoch
             /\ bound[exec.root].token = exec.token
    BY <1>3, <2>2, <2>4 DEF ExecInv, Epochs
  <2>5. CASE /\ exec.epoch \in DOMAIN retired
             /\ retired[exec.epoch].root = exec.root
             /\ retired[exec.epoch].token = exec.token
    BY <1>3, <2>2, <2>5 DEF ExecInv
  <2>6. QED
    BY <2>1, <2>3, <2>4, <2>5 DEF ExecInv
<1>16. QED
  BY <1>8, <1>9, <1>12, <1>13, <1>14, <1>15

\* set_approval: the epoch approved or withdrawn is of the checkout on disk,
\* and the operator's grant at the root says the same.
LEMMA ApprovalSafe ==
    ASSUME TablesInv, NEW r \in DOMAIN owner, NEW approve \in BOOLEAN,
           set_approval(r, approve),
           UNCHANGED <<disk, tokens, owner, bound, retired, attached, exec>>
    PROVE  TablesInv'
<1> USE DEF TablesInv
<1>1. /\ r \in DOMAIN bound /\ disk[r] = bound[r].token
      /\ RecordEpoch(r) = bound[r].epoch
  BY DEF set_approval, RecordEpoch, Identity, disk_identity
<1>2. [project |-> owner[r], token |-> disk[r]] \in GrantRow
  BY <1>1 DEF GrantRow, DiskInv, BoundInv, BindingRow
<1>3. DiskInv'
  BY <1>2 DEF DiskInv, set_approval
<1>4. BoundInv'
  BY DEF BoundInv
<1>5. Epochs(DOMAIN bound)' = Epochs(DOMAIN bound) /\ Used' = Used
  BY DEF Used, Epochs
<1>6. approved' \subseteq approved \cup {bound[r].epoch}
  BY <1>1 DEF set_approval
<1>7. RetiredEpochsEnd'
  BY <1>1, <1>5, <1>6 DEF EpochInv, RetiredEpochsEnd, Epochs
<1>8. EpochInv'
  BY <1>5, <1>7 DEF EpochInv
<1>9. GrantInv'
  <2>1. SUFFICES ASSUME NEW x \in DOMAIN bound, bound[x].epoch \in approved'
                 PROVE  (Granted(x, owner[x], bound[x].token) \/ bound[x].epoch \in passed)'
    BY DEF GrantInv
  <2>2. CASE x = r
    <3>1. approve
      BY <1>1, <2>1, <2>2 DEF set_approval
    <3>2. grant'[r] = [project |-> owner[r], token |-> disk[r]]
      BY <3>1 DEF set_approval, DiskInv
    <3>3. grant'[r] # None
      BY <1>2, <3>2, RootBindingMarkers DEF GrantRow
    <3>4. QED
      BY <1>1, <2>2, <3>2, <3>3 DEF Granted
  <2>3. CASE x # r
    <3>1. bound[x].epoch \in approved
      BY <1>1, <1>6, <2>1, <2>3 DEF BoundInv
    <3>2. grant'[x] = grant[x]
      BY <2>3 DEF set_approval, BoundInv, DiskInv
    <3>3. bound[x].epoch \in passed => bound[x].epoch \in passed'
      BY <1>1, <2>3 DEF set_approval, BoundInv
    <3>4. QED
      BY <3>1, <3>2, <3>3 DEF GrantInv, Granted
  <2>4. QED
    BY <2>2, <2>3
<1>10. AttachedInv'
  BY <1>5 DEF AttachedInv
<1>11. ExecInv'
  BY DEF ExecInv
<1>12. QED
  BY <1>3, <1>4, <1>8, <1>9, <1>10, <1>11

\* A step that changes no table keeps what was said of the tables.
LEMMA TablesUnchanged ==
    ASSUME TablesInv, UNCHANGED <<tables, grant, passed, exec>>,
           tokens' \in Nat, tokens <= tokens',
           disk' \in [Roots -> (0..tokens') \cup {Unverifiable}]
    PROVE  TablesInv'
<1> USE DEF TablesInv, tables
<1>1. DiskInv'
  BY DEF DiskInv
<1>2. BoundInv'
  BY DEF BoundInv, DiskInv
<1>3. Used' = Used /\ Epochs(DOMAIN bound)' = Epochs(DOMAIN bound)
  BY DEF Used, Epochs
<1>4. EpochInv'
  BY <1>3 DEF EpochInv, RetiredEpochsEnd
<1>5. GrantInv' /\ ExecInv'
  BY DEF GrantInv, Granted, ExecInv
<1>6. AttachedInv'
  BY <1>3 DEF AttachedInv
<1>7. QED
  BY <1>1, <1>2, <1>4, <1>5, <1>6

\* A request that starts, or goes on with what it has left, binds roots that
\* have an owner.
LEMMA BindingTyped ==
    ASSUME NEW todo \in SUBSET DOMAIN owner'
    PROVE  Binding(todo) = None \/ Binding(todo) \in BindRequest'
<1>1. CASE todo = {}
  BY <1>1 DEF Binding
<1>2. CASE todo # {}
  <2>1. todo \in (SUBSET DOMAIN owner') \ {{}}
    BY <1>2
  <2>2. Binding(todo) = [kind |-> "bind", todo |-> todo, token |-> None]
    BY <1>2 DEF Binding
  <2>3. QED
    BY <2>1, <2>2 DEF BindRequest
<1>3. QED
  BY <1>1, <1>2

-----------------------------------------------------------------------------
(* Registering, moving and removing roots. *)

LEMMA AddRootKeeps ==
    ASSUME BindingInv, NEW r \in Roots, NEW p \in Projects, AddRoot(r, p)
    PROVE  BindingInv'
<1> USE DEF BindingInv, TablesInv, AddRoot
<1>1. /\ DOMAIN owner' = DOMAIN owner \cup {r}
      /\ \A x \in DOMAIN owner : owner'[x] = owner[x]
      /\ owner' \in [DOMAIN owner' -> Projects]
  BY DEF DiskInv
<1>2. DiskInv'
  BY <1>1 DEF DiskInv
<1>3. BoundInv'
  BY <1>1 DEF BoundInv
<1>4. Used' = Used /\ Epochs(DOMAIN bound)' = Epochs(DOMAIN bound)
  BY DEF Used, Epochs
<1>5. EpochInv'
  BY <1>4 DEF EpochInv, RetiredEpochsEnd
<1>6. GrantInv'
  BY <1>1 DEF GrantInv, Granted, BoundInv
<1>7. AttachedInv'
  BY <1>1, <1>4 DEF AttachedInv, BoundInv
<1>8. ExecInv'
  BY <1>1 DEF ExecInv, BoundInv
<1>9. RequestInv'
  <2>1. Unbound \cup {r} \in SUBSET DOMAIN owner'
    BY <1>1 DEF Unbound
  <2>2. QED
    BY <2>1, BindingTyped DEF RequestInv
<1>10. QED
  BY <1>2, <1>3, <1>5, <1>6, <1>7, <1>8, <1>9

\* The token a root is bound to is on its disk, made now or before.
LEMMA TokenRead ==
    ASSUME DiskInv, NEW r \in Roots, disk[r] # Unverifiable, CreateToken(r)
    PROVE  /\ tokens' \in Nat /\ tokens <= tokens'
           /\ Token(r) \in 1..tokens'
           /\ disk' \in [Roots -> (0..tokens') \cup {Unverifiable}]
<1>1. CASE disk[r] = NoToken
  BY <1>1 DEF DiskInv, CreateToken, Token, NoToken
<1>2. CASE disk[r] # NoToken
  BY <1>2 DEF DiskInv, CreateToken, Token, NoToken
<1>3. QED
  BY <1>1, <1>2

LEMMA AttachRootKeeps ==
    ASSUME BindingInv, NEW r \in Roots, NEW p \in Projects, AttachRoot(r, p)
    PROVE  BindingInv'
<1> USE DEF BindingInv
<1>1. /\ op = None /\ op' = None /\ r \notin DOMAIN owner
      /\ owner' = [x \in DOMAIN owner \cup {r} |-> IF x = r THEN p ELSE owner[x]]
      /\ UNCHANGED <<retired, approved, attached, grant, passed, exec>>
  BY DEF AttachRoot
<1>2. /\ DOMAIN owner' = DOMAIN owner \cup {r}
      /\ owner'[r] = p
      /\ \A x \in DOMAIN owner : owner'[x] = owner[x]
      /\ owner' \in [DOMAIN owner' -> Projects]
  BY <1>1 DEF TablesInv, DiskInv
<1>3. RequestInv'
  BY <1>1 DEF RequestInv
<1>4. CASE disk[r] = Unverifiable
  <2>1. UNCHANGED <<disk, tokens, bound>>
    BY <1>4 DEF AttachRoot
  <2>2. DiskInv'
    BY <1>1, <1>2, <2>1 DEF TablesInv, DiskInv
  <2>3. BoundInv'
    BY <1>2, <2>1 DEF TablesInv, BoundInv
  <2>4. Used' = Used /\ Epochs(DOMAIN bound)' = Epochs(DOMAIN bound)
    BY <1>1, <2>1 DEF Used, Epochs
  <2>5. EpochInv'
    BY <1>1, <2>4 DEF TablesInv, EpochInv, RetiredEpochsEnd
  <2>6. GrantInv'
    BY <1>1, <1>2, <2>1 DEF TablesInv, GrantInv, Granted, BoundInv
  <2>7. AttachedInv'
    BY <1>1, <1>2, <2>1, <2>4 DEF TablesInv, AttachedInv, BoundInv
  <2>8. ExecInv'
    BY <1>1, <1>2, <2>1 DEF TablesInv, ExecInv, BoundInv
  <2>9. QED
    BY <1>3, <2>2, <2>3, <2>5, <2>6, <2>7, <2>8 DEF TablesInv
<1>5. CASE disk[r] # Unverifiable
  <2>1. CreateToken(r) /\ bound' = Rebound(r, p, Token(r))
    BY <1>5 DEF AttachRoot
  <2>2. Epochs({r}) = {}
    BY <1>1 DEF TablesInv, BoundInv, Epochs
  <2>3. RetireTable({r}, "replaced") = retired
    BY <2>2 DEF RetireTable, TablesInv, EpochInv
  <2>4. Retire({r}, "replaced")
    BY <1>1, <2>2, <2>3 DEF Retire
  <2>5. /\ tokens' \in Nat /\ tokens <= tokens'
        /\ Token(r) \in 1..tokens'
        /\ disk' \in [Roots -> (0..tokens') \cup {Unverifiable}]
    BY <1>5, <2>1, TokenRead DEF TablesInv
  <2>6. TablesInv'
    BY <1>1, <1>2, <2>1, <2>4, <2>5, RebindSafe
  <2>7. QED
    BY <1>3, <2>6
<1>6. QED
  BY <1>4, <1>5

\* Removing a root, or moving it to a new project, ends its binding, its
\* approval and its containers.
LEMMA RootLeaves ==
    ASSUME TablesInv, NEW r \in DOMAIN owner, apply_remove_root(r),
           UNCHANGED <<disk, tokens, passed, exec>>,
           DOMAIN owner' \subseteq DOMAIN owner,
           owner' \in [DOMAIN owner' -> Projects],
           \A x \in DOMAIN owner \ {r} : x \in DOMAIN owner' /\ owner'[x] = owner[x]
    PROVE  TablesInv'
<1>1. /\ DOMAIN attached' = {c \in DOMAIN attached : attached[c].root # r}
      /\ \A c \in DOMAIN attached' : attached'[c] = attached[c]
  BY DEF apply_remove_root, Restrict
<1>2. attached' \in [DOMAIN attached' -> AttachedRow]
  BY <1>1 DEF apply_remove_root, Restrict, TablesInv, AttachedInv
<1>3. \A c \in DOMAIN attached' :
        /\ c \in DOMAIN attached
        /\ attached'[c].root = attached[c].root
        /\ attached'[c].epoch = attached[c].epoch
        /\ \A x \in DOMAIN bound \ {r} :
             attached[c].root = x /\ bound[x].epoch = attached[c].epoch =>
               attached'[c].project = attached[c].project
  BY <1>1
<1>4. Retire({r}, "removed") /\ Unbind({r}) /\ Forget({r})
  BY DEF apply_remove_root
<1>5. QED
  BY <1>2, <1>3, <1>4, UnbindSafe

LEMMA RemoveRootKeeps ==
    ASSUME BindingInv, NEW r \in Roots, RemoveRoot(r)
    PROVE  BindingInv'
<1>1. /\ op' = None /\ r \in DOMAIN owner /\ apply_remove_root(r)
      /\ owner' = Restrict(owner, DOMAIN owner \ {r})
      /\ UNCHANGED <<disk, tokens, passed, exec>>
  BY DEF RemoveRoot
<1>2. /\ DOMAIN owner' = DOMAIN owner \ {r}
      /\ \A x \in DOMAIN owner \ {r} : owner'[x] = owner[x]
      /\ owner' \in [DOMAIN owner' -> Projects]
  BY <1>1 DEF Restrict, BindingInv, TablesInv, DiskInv
<1>3. TablesInv'
  BY <1>1, <1>2, RootLeaves DEF BindingInv
<1>4. QED
  BY <1>1, <1>3 DEF BindingInv, RequestInv

LEMMA MoveRootKeeps ==
    ASSUME BindingInv, NEW r \in Roots, NEW p \in Projects, MoveRootToNewProject(r, p)
    PROVE  BindingInv'
<1>1. /\ r \in DOMAIN owner /\ apply_remove_root(r)
      /\ owner' = [owner EXCEPT ![r] = p]
      /\ op' = Binding(Unbound \cup {r})
      /\ UNCHANGED <<disk, tokens, passed, exec>>
  BY DEF MoveRootToNewProject
<1>2. /\ DOMAIN owner' = DOMAIN owner
      /\ \A x \in DOMAIN owner \ {r} : owner'[x] = owner[x]
      /\ owner' \in [DOMAIN owner' -> Projects]
  BY <1>1 DEF BindingInv, TablesInv, DiskInv
<1>3. TablesInv'
  BY <1>1, <1>2, RootLeaves DEF BindingInv
<1>4. Unbound \cup {r} \in SUBSET DOMAIN owner'
  BY <1>1, <1>2 DEF Unbound
<1>5. RequestInv'
  BY <1>1, <1>4, BindingTyped DEF RequestInv
<1>6. QED
  BY <1>3, <1>5 DEF BindingInv

\* A project's bindings end before its roots and containers go to a successor,
\* so that no live binding changes project.
LEMMA RemoveProjectKeeps ==
    ASSUME BindingInv, NEW p \in Projects, NEW s \in Projects \cup {None},
           RemoveProject(p, s)
    PROVE  BindingInv'
<1> USE DEF BindingInv, TablesInv
<1> DEFINE R == RootsOf(p)
<1>1. /\ op' = None
      /\ Retire(R, "removed") /\ Unbind(R) /\ Forget(R)
      /\ UNCHANGED <<disk, tokens, passed, exec>>
  BY DEF RemoveProject
<1>2. RequestInv'
  BY <1>1 DEF RequestInv
<1>3. ASSUME NEW c \in DOMAIN attached, NEW r \in DOMAIN bound \ R,
             attached[c].root = r, bound[r].epoch = attached[c].epoch
      PROVE  attached[c].project # p
  BY <1>3 DEF AttachedInv, BoundInv, RootsOf
<1>4. CASE s = None
  <2>1. /\ owner' = Restrict(owner, DOMAIN owner \ R)
        /\ attached' = Restrict(attached, {c \in DOMAIN attached : attached[c].project # p})
    BY <1>4 DEF RemoveProject
  <2>2. /\ DOMAIN owner' = DOMAIN owner \ R
        /\ \A x \in DOMAIN owner \ R : x \in DOMAIN owner' /\ owner'[x] = owner[x]
        /\ owner' \in [DOMAIN owner' -> Projects]
    BY <2>1 DEF Restrict, DiskInv
  <2>3. /\ DOMAIN attached' \subseteq DOMAIN attached
        /\ \A c \in DOMAIN attached' : attached'[c] = attached[c]
        /\ attached' \in [DOMAIN attached' -> AttachedRow]
    BY <2>1 DEF Restrict, AttachedInv
  <2>4. TablesInv'
    <3> HIDE DEF R
    <3> QED BY <1>1, <2>2, <2>3, UnbindSafe
  <2>5. QED
    BY <1>2, <2>4
<1>5. CASE s # None
  <2>1. /\ owner' = [r \in DOMAIN owner |-> IF owner[r] = p THEN s ELSE owner[r]]
        /\ attached' = [c \in DOMAIN attached |->
                          IF attached[c].project = p
                          THEN [attached[c] EXCEPT !.project = s] ELSE attached[c]]
    BY <1>5 DEF RemoveProject
  <2>2. /\ DOMAIN owner' = DOMAIN owner
        /\ \A x \in DOMAIN owner \ R : x \in DOMAIN owner' /\ owner'[x] = owner[x]
        /\ owner' \in [DOMAIN owner' -> Projects]
    BY <1>5, <2>1 DEF DiskInv, RootsOf
  <2>3. ASSUME NEW c \in DOMAIN attached
        PROVE  /\ attached'[c] \in AttachedRow
               /\ attached'[c].root = attached[c].root
               /\ attached'[c].epoch = attached[c].epoch
               /\ attached[c].project # p => attached'[c].project = attached[c].project
    <3>1. attached[c] \in AttachedRow
      BY DEF AttachedInv
    <3>2. QED
      BY <1>5, <2>1, <3>1 DEF AttachedRow
  <2>4. attached' \in [DOMAIN attached' -> AttachedRow] /\ DOMAIN attached' = DOMAIN attached
    BY <2>1, <2>3
  <2>5. TablesInv'
    <3> HIDE DEF R
    <3> QED BY <1>1, <1>3, <2>2, <2>3, <2>4, UnbindSafe
  <2>6. QED
    BY <1>2, <2>5
<1>6. QED
  BY <1>4, <1>5

-----------------------------------------------------------------------------
(* Binding, approving, attaching and admitting. *)

LEMMA RebindRootKeeps ==
    ASSUME BindingInv, NEW r \in Roots, RebindRoot(r)
    PROVE  BindingInv'
<1>1. TablesInv'
  BY TablesUnchanged DEF BindingInv, TablesInv, DiskInv, RebindRoot
<1>2. {r} \in SUBSET DOMAIN owner' /\ op' = Binding({r})
  BY DEF RebindRoot, tables
<1>3. QED
  BY <1>1, <1>2, BindingTyped DEF BindingInv, RequestInv

\* The next root of a binding request has an owner.
LEMMA NextTodo ==
    ASSUME BindingInv, op # None, op.kind = "bind"
    PROVE  /\ op \in BindRequest
           /\ Min(op.todo) \in op.todo
           /\ Min(op.todo) \in DOMAIN owner
           /\ Min(op.todo) \in Roots
<1>1. op \in BindRequest
  BY DEF BindingInv, RequestInv, ApprovalRequest
<1>2. op.todo \subseteq DOMAIN owner /\ op.todo # {}
  BY <1>1 DEF BindRequest
<1>3. op.todo \subseteq Nat
  BY <1>2, RootBindingConstants DEF BindingInv, TablesInv, DiskInv
<1>4. Min(op.todo) \in op.todo
  BY <1>2, <1>3, MinInSet
<1>5. QED
  BY <1>1, <1>2, <1>4 DEF BindingInv, TablesInv, DiskInv

LEMMA BindUnverifiableKeeps == BindingInv /\ BindUnverifiable => BindingInv'
<1>1. SUFFICES ASSUME BindingInv, BindUnverifiable PROVE BindingInv'
  OBVIOUS
<1>2. TablesInv'
  BY <1>1, TablesUnchanged DEF BindingInv, TablesInv, DiskInv, BindUnverifiable
<1>3. op \in BindRequest
  BY <1>1, NextTodo DEF BindUnverifiable, Reading
<1>4. op.todo \ {Min(op.todo)} \in SUBSET DOMAIN owner'
  BY <1>1, <1>3 DEF BindRequest, BindUnverifiable, tables
<1>5. QED
  BY <1>1, <1>2, <1>4, BindingTyped DEF BindingInv, RequestInv, BindUnverifiable

LEMMA BindReadKeeps == BindingInv /\ BindRead => BindingInv'
<1>1. SUFFICES ASSUME BindingInv, BindRead PROVE BindingInv'
  OBVIOUS
<1> DEFINE r == Min(op.todo)
<1>2. op \in BindRequest /\ r \in Roots
  BY <1>1, NextTodo DEF BindRead, Reading
<1>3. /\ tokens' \in Nat /\ tokens <= tokens'
      /\ Token(r) \in 1..tokens'
      /\ disk' \in [Roots -> (0..tokens') \cup {Unverifiable}]
  BY <1>1, <1>2, TokenRead DEF BindRead, BindingInv, TablesInv
<1>4. TablesInv'
  BY <1>1, <1>3, TablesUnchanged DEF BindRead, BindingInv
<1>5. op' \in BindRequest'
  <2>1. op' = [op EXCEPT !.token = Token(r)] /\ owner' = owner
    BY <1>1 DEF BindRead, tables
  <2>2. QED
    BY <1>2, <1>3, <2>1 DEF BindRequest
<1>6. QED
  BY <1>4, <1>5 DEF BindingInv, RequestInv

LEMMA BindCommitKeeps == BindingInv /\ BindCommit => BindingInv'
<1>1. SUFFICES ASSUME BindingInv, BindCommit PROVE BindingInv'
  OBVIOUS
<1> DEFINE r == Min(op.todo)
<1>2. op \in BindRequest /\ r \in Roots /\ r \in DOMAIN owner
  BY <1>1, NextTodo DEF BindCommit
<1>3. /\ UNCHANGED <<disk, tokens, owner, attached, grant, passed, exec>>
      /\ op' = Binding(op.todo \ {r})
      /\ op.token \in 1..tokens
  BY <1>1, <1>2 DEF BindCommit, BindRequest
<1>4. TablesInv'
  <2>1. CASE Intact(r, op.token)
    <3>1. UNCHANGED <<tables, grant, passed, exec>>
      BY <1>1, <1>3, <2>1 DEF BindCommit, tables
    <3>2. QED
      BY <1>1, <1>3, <3>1, TablesUnchanged DEF BindingInv, TablesInv, DiskInv
  <2>2. CASE ~Intact(r, op.token)
    <3>1. Retire({r}, "replaced") /\ bound' = Rebound(r, owner[r], op.token)
      BY <1>1, <2>2 DEF BindCommit, apply_bind
    <3>2. /\ tokens' \in Nat /\ tokens <= tokens'
          /\ disk' \in [Roots -> (0..tokens') \cup {Unverifiable}]
          /\ DOMAIN owner' = DOMAIN owner \cup {r}
          /\ owner' \in [DOMAIN owner' -> Projects]
          /\ owner[r] \in Projects
      BY <1>1, <1>2, <1>3 DEF BindingInv, TablesInv, DiskInv
    <3>3. QED
      <4> HIDE DEF r
      <4> QED BY <1>1, <1>2, <1>3, <3>1, <3>2, RebindSafe DEF BindingInv
  <2>3. QED
    BY <2>1, <2>2
<1>5. op.todo \ {r} \in SUBSET DOMAIN owner'
  BY <1>2, <1>3 DEF BindRequest
<1>6. RequestInv'
  BY <1>3, <1>5, BindingTyped DEF RequestInv
<1>7. QED
  BY <1>4, <1>6 DEF BindingInv

LEMMA SetRootApprovalKeeps ==
    ASSUME BindingInv, NEW r \in Roots, NEW approve \in BOOLEAN,
           SetRootApproval(r, approve)
    PROVE  BindingInv'
<1>1. TablesInv'
  BY ApprovalSafe DEF BindingInv, SetRootApproval
<1>2. QED
  BY <1>1 DEF BindingInv, RequestInv, SetRootApproval

LEMMA SetProjectApprovalKeeps ==
    ASSUME BindingInv, NEW p \in Projects, NEW approve \in BOOLEAN,
           SetProjectApproval(p, approve)
    PROVE  BindingInv'
<1>1. TablesInv'
  BY TablesUnchanged DEF BindingInv, TablesInv, DiskInv, SetProjectApproval
<1>2. /\ op' = [kind |-> "approval", project |-> p, approve |-> approve,
                todo |-> Identified(p), over |-> RootsOf(p) \ Identified(p)]
      /\ owner' = owner
  BY DEF SetProjectApproval, tables
<1>3. Identified(p) \in SUBSET DOMAIN owner /\ RootsOf(p) \ Identified(p) \in SUBSET DOMAIN owner
  BY DEF Identified, RootsOf
<1>4. op' \in ApprovalRequest'
  BY <1>2, <1>3 DEF ApprovalRequest
<1>5. QED
  BY <1>1, <1>4 DEF BindingInv, RequestInv

LEMMA ApproveNextKeeps == BindingInv /\ ApproveNext => BindingInv'
<1>1. SUFFICES ASSUME BindingInv, ApproveNext PROVE BindingInv'
  OBVIOUS
<1> DEFINE r == Min(op.todo)
<1>2. op \in ApprovalRequest
  BY <1>1 DEF BindingInv, RequestInv, BindRequest, ApproveNext
<1>3. op.todo \subseteq DOMAIN owner /\ op.todo # {} /\ op.approve \in BOOLEAN
  BY <1>1, <1>2 DEF ApprovalRequest, ApproveNext
<1>4. op.todo \subseteq Nat
  BY <1>1, <1>3, RootBindingConstants DEF BindingInv, TablesInv, DiskInv
<1>5. r \in DOMAIN owner
  BY <1>3, <1>4, MinInSet
<1>6. /\ set_approval(r, op.approve)
      /\ op' = [op EXCEPT !.todo = @ \ {r}]
      /\ UNCHANGED <<disk, tokens, owner, bound, retired, attached, exec>>
  BY <1>1 DEF ApproveNext
<1>7. TablesInv'
  <2> HIDE DEF r
  <2> QED BY <1>1, <1>3, <1>5, <1>6, ApprovalSafe DEF BindingInv
<1>8. op' \in ApprovalRequest'
  BY <1>2, <1>3, <1>6 DEF ApprovalRequest
<1>9. QED
  BY <1>7, <1>8 DEF BindingInv, RequestInv

\* The caller named the epoch it verified, and it is the root's own.
LEMMA AttachKeeps ==
    ASSUME BindingInv, NEW c, NEW r \in Roots, NEW p \in Projects,
           NEW epoch \in Used, NEW token, AttachDerivedParent(c, r, p, epoch, token)
    PROVE  BindingInv'
<1> USE DEF BindingInv, TablesInv
<1>1. /\ r \in DOMAIN owner /\ owner[r] = p
      /\ RecordEpoch(r) = epoch
      /\ attached' = [x \in DOMAIN attached \cup {c} |->
                        IF x = c THEN [project |-> p, root |-> r, epoch |-> epoch]
                        ELSE attached[x]]
      /\ UNCHANGED <<disk, tokens, owner, bound, retired, approved, op, grant, passed, exec>>
  BY DEF AttachDerivedParent
<1>2. DiskInv' /\ BoundInv' /\ GrantInv' /\ ExecInv'
  BY <1>1 DEF DiskInv, BoundInv, GrantInv, Granted, ExecInv
<1>3. Used' = Used /\ Epochs(DOMAIN bound)' = Epochs(DOMAIN bound)
  BY <1>1 DEF Used, Epochs
<1>4. EpochInv'
  BY <1>1, <1>3 DEF EpochInv, RetiredEpochsEnd
<1>5. epoch \in Nat
  BY DEF EpochInv
<1>6. [project |-> p, root |-> r, epoch |-> epoch] \in AttachedRow
  BY <1>5 DEF AttachedRow
<1>7. AttachedInv'
  <2>1. attached' \in [DOMAIN attached' -> AttachedRow]
    BY <1>1, <1>6 DEF AttachedInv
  <2>2. \A x \in DOMAIN attached' : attached'[x].epoch \in Used'
    BY <1>1, <1>3 DEF AttachedInv
  <2>3. ASSUME NEW x \in DOMAIN attached', NEW y \in DOMAIN bound,
               attached'[x].root = y, bound[y].epoch = attached'[x].epoch
        PROVE  attached'[x].project = owner[y]
    <3>1. CASE x = c
      BY <1>1, <2>3, <3>1
    <3>2. CASE x # c
      BY <1>1, <2>3, <3>2 DEF AttachedInv
    <3>3. QED
      BY <3>1, <3>2
  <2>4. QED
    BY <1>1, <2>1, <2>2, <2>3 DEF AttachedInv
<1>8. RequestInv'
  BY <1>1 DEF RequestInv, BindRequest, ApprovalRequest
<1>9. QED
  BY <1>2, <1>4, <1>7, <1>8

\* An execution starts under the binding in force.
LEMMA AdmitKeeps ==
    ASSUME BindingInv, NEW r \in Roots, Admit(r)
    PROVE  BindingInv'
<1> USE DEF BindingInv, TablesInv
<1>1. /\ r \in DOMAIN owner /\ RecordApproved(r)
      /\ exec' = [root |-> r, token |-> bound[r].token, epoch |-> bound[r].epoch,
                  project |-> owner[r]]
      /\ UNCHANGED <<disk, tokens, owner, bound, retired, approved, attached, op, grant, passed>>
  BY DEF Admit, tables
<1>2. DiskInv' /\ BoundInv' /\ GrantInv'
  BY <1>1 DEF DiskInv, BoundInv, GrantInv, Granted
<1>3. Used' = Used /\ Epochs(DOMAIN bound)' = Epochs(DOMAIN bound)
  BY <1>1 DEF Used, Epochs
<1>4. EpochInv' /\ AttachedInv'
  BY <1>1, <1>3 DEF EpochInv, RetiredEpochsEnd, AttachedInv
<1>5. approved \subseteq Nat
  BY DEF EpochInv, RetiredEpochsEnd, Epochs, BoundInv, BindingRow
<1>6. r \in DOMAIN bound
  BY <1>1, <1>5, RootBindingMarkers
     DEF RecordApproved, RecordEpoch, Identity, disk_identity
<1>7. exec' \in ExecRow
  BY <1>1, <1>6 DEF ExecRow, BoundInv, BindingRow, DiskInv
<1>8. ExecInv'
  BY <1>1, <1>6, <1>7 DEF ExecInv
<1>9. RequestInv'
  BY <1>1 DEF RequestInv, BindRequest, ApprovalRequest
<1>10. QED
  BY <1>2, <1>4, <1>8, <1>9

LEMMA ChangeDiskKeeps ==
    ASSUME BindingInv, NEW r \in Roots, ChangeDisk(r)
    PROVE  BindingInv'
<1>1. disk' \in [Roots -> (0..tokens') \cup {Unverifiable}]
  BY DEF ChangeDisk, BindingInv, TablesInv, DiskInv
<1>2. TablesInv'
  BY <1>1, TablesUnchanged DEF ChangeDisk, BindingInv, TablesInv, DiskInv
<1>3. QED
  BY <1>2 DEF BindingInv, RequestInv, BindRequest, ApprovalRequest, ChangeDisk, tables

\* A withdrawal that is done takes the grants of the roots it passed over with it, and
\* the epochs that stay approved there are those it passed over.
LEMMA ApproveDoneKeeps == BindingInv /\ ApproveDone => BindingInv'
<1>1. SUFFICES ASSUME BindingInv, ApproveDone PROVE BindingInv'
  OBVIOUS
<1> USE DEF BindingInv, TablesInv
<1>2. op' = None /\ UNCHANGED <<disk, tokens, tables, exec>>
  BY <1>1 DEF ApproveDone
<1>3. RequestInv'
  BY <1>2 DEF RequestInv
<1>4. CASE op.approve
  <2>1. UNCHANGED <<tables, grant, passed, exec>>
    BY <1>1, <1>2, <1>4 DEF ApproveDone
  <2>2. QED
    BY <1>1, <1>2, <1>3, <2>1, TablesUnchanged DEF DiskInv
<1>5. CASE ~op.approve
  <2>1. Forget(op.over) /\ passed' = passed \cup Epochs(op.over)
    BY <1>1, <1>5 DEF ApproveDone
  <2>2. DiskInv'
    BY <1>1, <1>2, <2>1 DEF DiskInv, Forget, tables
  <2>3. Used' = Used /\ Epochs(DOMAIN bound)' = Epochs(DOMAIN bound)
    BY <1>2 DEF Used, Epochs, tables
  <2>4. BoundInv' /\ EpochInv' /\ AttachedInv' /\ ExecInv'
    BY <1>1, <1>2, <2>3 DEF BoundInv, EpochInv, RetiredEpochsEnd, AttachedInv, ExecInv, tables
  <2>5. ASSUME NEW r \in DOMAIN bound, bound[r].epoch \in approved
        PROVE  (Granted(r, owner[r], bound[r].token) \/ bound[r].epoch \in passed)'
    <3>1. r \in Roots
      BY <1>1 DEF BoundInv, DiskInv
    <3>2. CASE r \in op.over
      BY <1>2, <2>1, <3>2 DEF Epochs, tables
    <3>3. CASE r \notin op.over
      <4>1. grant'[r] = grant[r]
        BY <2>1, <3>1, <3>3 DEF Forget
      <4>2. Granted(r, owner[r], bound[r].token) \/ bound[r].epoch \in passed
        BY <1>1, <2>5 DEF GrantInv
      <4>3. QED
        BY <1>2, <2>1, <4>1, <4>2 DEF Granted, tables
    <3>4. QED
      BY <3>2, <3>3
  <2>6. GrantInv'
    BY <1>2, <2>5 DEF GrantInv, tables
  <2>7. QED
    BY <1>3, <2>2, <2>4, <2>6
<1>6. QED
  BY <1>4, <1>5

\* A failed approval, and a restart, leave the tables as they are.
LEMMA EndRequestKeeps ==
    ASSUME BindingInv, ApproveFails \/ Crash
    PROVE  BindingInv'
<1>1. UNCHANGED <<disk, tokens, tables, grant, passed, exec>>
  BY DEF ApproveFails, Crash
<1>2. TablesInv'
  BY <1>1, TablesUnchanged DEF BindingInv, TablesInv, DiskInv
<1>3. Unbound \in SUBSET DOMAIN owner'
  BY <1>1 DEF Unbound, tables
<1>4. op' = None \/ op' = Binding(Unbound)
  BY DEF ApproveFails, Crash
<1>5. RequestInv'
  BY <1>3, <1>4, BindingTyped DEF RequestInv
<1>6. QED
  BY <1>2, <1>5 DEF BindingInv

-----------------------------------------------------------------------------
LEMMA InitBindings == Init => BindingInv
<1>1. SUFFICES ASSUME Init PROVE BindingInv
  OBVIOUS
<1>2. Used = 1..0 /\ Epochs(DOMAIN bound) = {}
  BY <1>1 DEF Init, Used, Epochs
<1>3. DiskInv
  BY <1>1 DEF Init, DiskInv, NoToken
<1>4. BoundInv /\ GrantInv /\ ExecInv /\ RequestInv
  BY <1>1 DEF Init, BoundInv, GrantInv, ExecInv, RequestInv
<1>5. AttachedInv
  BY <1>1 DEF Init, AttachedInv
<1>6. EpochInv
  BY <1>1, <1>2 DEF Init, EpochInv, RetiredEpochsEnd
<1>7. QED
  BY <1>3, <1>4, <1>5, <1>6 DEF BindingInv, TablesInv

LEMMA NextBindings == BindingInv /\ [Next]_vars => BindingInv'
<1> SUFFICES ASSUME BindingInv, [Next]_vars PROVE BindingInv'
  OBVIOUS
<1>1. CASE RootNext
  BY <1>1, AddRootKeeps, AttachRootKeeps, RemoveRootKeeps, MoveRootKeeps,
     RemoveProjectKeeps, RebindRootKeeps DEF RootNext
<1>2. CASE BindUnverifiable \/ BindRead \/ BindCommit
  BY <1>2, BindUnverifiableKeeps, BindReadKeeps, BindCommitKeeps
<1>3. CASE ApprovalNext
  BY <1>3, SetRootApprovalKeeps, SetProjectApprovalKeeps, ApproveNextKeeps,
     ApproveDoneKeeps, EndRequestKeeps DEF ApprovalNext
<1>4. CASE \E c \in Containers, r \in Roots, p \in Projects,
              epoch \in Used, token \in 1..tokens :
                AttachDerivedParent(c, r, p, epoch, token)
  BY <1>4, AttachKeeps
<1>5. CASE \E r \in Roots : Admit(r)
  BY <1>5, AdmitKeeps
<1>6. CASE \E r \in Roots : ChangeDisk(r)
  BY <1>6, ChangeDiskKeeps
<1>7. CASE Crash
  BY <1>7, EndRequestKeeps
<1>8. CASE UNCHANGED vars
  <2>1. UNCHANGED <<disk, tokens, tables, op, grant, passed, exec>>
    BY <1>8 DEF vars, tables
  <2>2. TablesInv'
    BY <2>1, TablesUnchanged DEF BindingInv, TablesInv, DiskInv
  <2>3. QED
    BY <2>1, <2>2 DEF BindingInv, RequestInv, BindRequest, ApprovalRequest, tables
<1>9. QED
  BY <1>1, <1>2, <1>3, <1>4, <1>5, <1>6, <1>7, <1>8 DEF Next

LEMMA Bindings == Spec => []BindingInv
<1>1. Init => BindingInv
  BY InitBindings
<1>2. BindingInv /\ [Next]_vars => BindingInv'
  BY NextBindings
<1>3. QED
  BY <1>1, <1>2, PTL DEF Spec

\* binding_status and retire_binding (binding.rs): an ended binding stays ended
\* in the tables, its epoch is never live or approved again, and an execution
\* admitted under it is told so, whatever is registered, bound, moved, merged or
\* approved after it and wherever a request dies.
THEOREM EndedForGood == Spec => []EndedStaysEnded
<1>1. BindingInv => EndedStaysEnded
  BY BindingAnswers
<1>2. QED
  BY <1>1, Bindings, PTL

\* root_record and set_project_approval (binding.rs): a root answers "approved" only
\* for the checkout and the project the operator approved there and did not take back
\* since, unless a withdrawal for the whole project passed the root over.
THEOREM ApprovalGranted == Spec => []ApprovalIsGranted
<1>1. BindingInv => ApprovalIsGranted
  BY BindingAnswers
<1>2. QED
  BY <1>1, Bindings, PTL

\* worktree_record (binding.rs): a worktree is approved only under a container whose own
\* binding is still in force and approved, with the same exception.
THEOREM WorktreeCurrent == Spec => []WorktreeNeedsCurrent
<1>1. BindingInv => WorktreeNeedsCurrent
  BY BindingAnswers
<1>2. QED
  BY <1>1, Bindings, PTL

=============================================================================
