-------------------------- MODULE AuthorizationProofs --------------------------
(***************************************************************************)
(* Theorems about Authorization, for any tokens, tenants, lists of targets *)
(* and threshold.                                                          *)
(***************************************************************************)
EXTENDS Authorization, FiniteSetTheorems, TLAPS

-----------------------------------------------------------------------------
(* The rules by themselves.                                                 *)

\* One token can do what another can: the same subject of the same tenant, with
\* its roles and scopes and perhaps more.
Extends(b, a) ==
  /\ b.sub = a.sub /\ b.tenant = a.tenant
  /\ a.roles \subseteq b.roles /\ a.approvals \subseteq b.approvals

\* A role or a scope more never costs its holder a right: what was permitted is
\* permitted, no approval is required that was not, and the analytics show what
\* they showed, though the super-admin's answer is computed another way
\* (authorize_command, authorize_approval_read, authorize_approval_decision,
\* authorize_analytics_read).
THEOREM RolesOnlyHelp ==
  ASSUME NEW a \in Claims, NEW b \in Claims, Extends(b, a),
         NEW request \in Requests, NEW tenant \in Tenants, NEW actor \in Subjects,
         NEW asked \in SUBSET Tenants
  PROVE  /\ MayCommand(a, request) => MayCommand(b, request)
         /\ ApprovalRequired(b, request) => ApprovalRequired(a, request)
         /\ MayReadApproval(a, tenant) => MayReadApproval(b, tenant)
         /\ MayDecide(a, tenant, actor) => MayDecide(b, tenant, actor)
         /\ AnalyticsScope(a, asked) \subseteq AnalyticsScope(b, asked)
<1>1. /\ \A role : HasRole(a, role) => HasRole(b, role)
      /\ \A roles : HasAnyRole(a, roles) => HasAnyRole(b, roles)
  BY DEF Extends, HasRole, HasAnyRole
<1>2. /\ \A t : InTenant(a, t) => InTenant(b, t)
      /\ \A s : SpeaksAs(a, s) => SpeaksAs(b, s)
  BY <1>1 DEF Extends, InTenant, SpeaksAs
<1>3. \A action : Vouches(a, action) => Vouches(b, action)
  BY <1>1 DEF Extends, Vouches
<1>4. MayCommand(a, request) => MayCommand(b, request)
  BY <1>1, <1>2 DEF MayCommand
<1>5. ApprovalRequired(b, request) => ApprovalRequired(a, request)
  BY <1>3 DEF ApprovalRequired
<1>6. MayReadApproval(a, tenant) => MayReadApproval(b, tenant)
  BY <1>1, <1>2 DEF MayReadApproval
<1>7. MayDecide(a, tenant, actor) => MayDecide(b, tenant, actor)
  BY <1>1, <1>2, <1>6 DEF MayDecide
<1>8. AnalyticsScope(a, asked) \subseteq AnalyticsScope(b, asked)
  <2>1. CASE HasRole(b, "super-admin") /\ HasAnyRole(a, Readers)
    BY <1>1, <2>1 DEF AnalyticsScope, Claims
  <2>2. CASE ~HasRole(b, "super-admin") /\ HasAnyRole(a, Readers)
    <3>1. a.tenant = b.tenant
      BY DEF Extends
    <3> QED BY <1>1, <2>2, <3>1 DEF AnalyticsScope
  <2>3. CASE ~HasAnyRole(a, Readers)
    <3>1. ~HasRole(a, "super-admin")
      BY <2>3 DEF HasRole, HasAnyRole, Readers
    <3>2. AnalyticsScope(a, asked) = {}
      BY <2>3, <3>1 DEF AnalyticsScope
    <3> QED BY <3>2
  <2> QED BY <2>1, <2>2, <2>3
<1> QED BY <1>4, <1>5, <1>6, <1>7, <1>8

\* plan_tasks keeps no more than target_count counts.
LEMMA PlannedAreCounted ==
  ASSUME NEW targets \in Lists
  PROVE  /\ TargetCount(targets) \in Nat /\ PlannedCount(targets) \in Nat
         /\ PlannedCount(targets) <= TargetCount(targets)
<1>1. targets \in Seq(BOOLEAN)
  BY RulesAssumption
<1>2. Len(targets) \in Nat /\ DOMAIN targets = 1..Len(targets)
  BY <1>1
<1>3. IsFiniteSet(1..Len(targets)) /\ Cardinality(1..Len(targets)) = Len(targets)
  <2>1. /\ IsFiniteSet(1..Len(targets))
        /\ Cardinality(1..Len(targets)) = IF 1 > Len(targets) THEN 0 ELSE Len(targets) - 1 + 1
    BY <1>2, FS_Interval
  <2> QED BY <1>2, <2>1
<1>4. {i \in DOMAIN targets : targets[i]} \subseteq 1..Len(targets)
  BY <1>2
<1> QED BY <1>2, <1>3, <1>4, FS_Subset, FS_CardinalityType DEF TargetCount, PlannedCount

-----------------------------------------------------------------------------
(* The invariant: whatever is released was created by a token that needed   *)
(* no approval, or approved by a token that may decide.                     *)

Answered(c) ==
  \E entry \in trail :
    /\ entry.command = c
    /\ \/ /\ entry.deed = "create"
          /\ ~ApprovalRequired(entry.claims, commands[c].request)
       \/ /\ entry.deed = "approve"
          /\ HasAnyRole(entry.claims, Deciders)
          /\ InTenant(entry.claims, TenantOf(c))

ReleasedAnswered == \A c \in released : Created(c) /\ Answered(c)

Authorized ==
  /\ TypeOK /\ ReleasedAnswered /\ TenantsApart /\ NamesAreTrue
  /\ \A grant \in granted : Created(grant.command)

LEMMA AuthorizedInit == Init => Authorized
<1> SUFFICES ASSUME Init PROVE Authorized
  OBVIOUS
<1>1. TypeOK
  BY RulesAssumption DEF Init, TypeOK, NoRow, ApprovalRow, NotCreated, CommandRow
<1>2. ReleasedAnswered /\ TenantsApart
  BY DEF Init, ReleasedAnswered, TenantsApart
<1>3. NamesAreTrue
  BY DEF Init, NamesAreTrue, NoRow
<1> QED BY <1>1, <1>2, <1>3 DEF Authorized, Init

\* What an action leaves as it is: rows of commands that exist, the history, and
\* with them the answers it holds.
LEMMA AnswersKept ==
  ASSUME Authorized, trail \subseteq trail',
         \A c \in Commands : Created(c) => commands'[c] = commands[c],
         NEW c \in released
  PROVE  Created(c)' /\ Answered(c)'
<1>1. c \in Commands /\ Created(c) /\ Answered(c)
  BY DEF Authorized, TypeOK, ReleasedAnswered
<1>2. commands'[c] = commands[c]
  BY <1>1
<1>3. Created(c)'
  BY <1>1, <1>2 DEF Created
<1>4. PICK entry \in trail :
        /\ entry.command = c
        /\ \/ /\ entry.deed = "create"
              /\ ~ApprovalRequired(entry.claims, commands[c].request)
           \/ /\ entry.deed = "approve"
              /\ HasAnyRole(entry.claims, Deciders)
              /\ InTenant(entry.claims, TenantOf(c))
  BY <1>1 DEF Answered
<1>5. Answered(c)'
  BY <1>2, <1>4 DEF Answered, TenantOf
<1> QED BY <1>3, <1>5

\* The name in an approval that is not written stays true.
LEMMA NamesKept ==
  ASSUME Authorized, trail \subseteq trail', NEW c \in Commands,
         approvals'[c].status \in {"approved", "rejected"}, approvals'[c] = approvals[c]
  PROVE  \E entry \in trail' :
           /\ entry.command = c /\ entry.as = approvals'[c].by
           /\ entry.deed \in {"approve", "reject"}
           /\ DecidedStatus(entry.deed) = approvals'[c].status
           /\ SpeaksAs(entry.claims, entry.as)
BY DEF Authorized, NamesAreTrue

\* A grant to a valid token in its tenant, or to the super-admin.
LEMMA GrantGood ==
  ASSUME Authorized, NEW claims \in Tokens, NEW c \in Commands,
         Granted(claims, c), Created(c)', InTenant(claims, TenantOf(c)')
  PROVE  /\ TenantsApart' /\ granted' \subseteq Grant
         /\ \A grant \in granted' : Created(grant.command)'
<1>1. TenantsApart'
  BY DEF Granted, TenantsApart, InTenant, HasRole
<1>2. granted' \subseteq Grant
  BY DEF Granted, Grant
<1>3. \A grant \in granted' : Created(grant.command)'
  BY DEF Granted
<1> QED BY <1>1, <1>2, <1>3

LEMMA CreateAuthorized ==
  ASSUME Authorized, NEW claims \in Tokens, Create(claims)
  PROVE  Authorized'
<1>1. PICK c \in Commands, request \in Requests :
        /\ ~Created(c) /\ MayCommand(claims, request)
        /\ commands' = [commands EXCEPT ![c] =
             [request |-> request, approvalRequired |-> ApprovalRequired(claims, request)]]
        /\ approvals' = IF ApprovalRequired(claims, request)
                        THEN [approvals EXCEPT ![c] = [status |-> "pending", by |-> "nobody"]]
                        ELSE approvals
        /\ released' = IF ApprovalRequired(claims, request) THEN released
                       ELSE released \cup {c}
        /\ Granted(claims, c) /\ Enter(claims, "create", c, request.by)
  BY DEF Create
<1>2. ApprovalRequired(claims, request) \in BOOLEAN
  BY DEF ApprovalRequired
<1>3. /\ commands' \in [Commands -> CommandRow] /\ commands'[c].request = request
      /\ commands'[c].approvalRequired = ApprovalRequired(claims, request)
      /\ Created(c)' /\ TenantOf(c)' = request.tenant
      /\ \A d \in Commands : Created(d) => commands'[d] = commands[d]
  BY <1>1, <1>2, RulesAssumption
     DEF Authorized, TypeOK, CommandRow, Created, NotCreated, TenantOf
<1>4. trail \subseteq trail' /\ trail' \subseteq Entry
  <2>1. request.by \in Subjects
    BY DEF Requests
  <2> QED BY <1>1, <2>1 DEF Enter, Entry, Deeds, Authorized, TypeOK
<1>5. /\ TenantsApart' /\ granted' \subseteq Grant
      /\ \A grant \in granted' : Created(grant.command)'
  BY <1>1, <1>3, GrantGood DEF Create, MayCommand
<1>6. TypeOK'
  <2>1. approvals' \in [Commands -> ApprovalRow]
    BY <1>1 DEF Authorized, TypeOK, ApprovalRow
  <2>2. \A d \in Commands : approvals'[d] # NoRow => commands'[d].approvalRequired
    BY <1>1, <1>3 DEF Authorized, TypeOK, Created, NotCreated
  <2>3. released' \subseteq Commands /\ \A d \in Commands : d \in released' => commands'[d] # NotCreated
    BY <1>1, <1>3 DEF Authorized, TypeOK, Created
  <2> QED BY <1>3, <1>4, <1>5, <2>1, <2>2, <2>3 DEF TypeOK
<1>7. ReleasedAnswered'
  <2>1. ASSUME NEW d \in released', d # c PROVE Created(d)' /\ Answered(d)'
    BY <1>1, <1>3, <1>4, <2>1, AnswersKept
  <2>2. ASSUME c \in released', c \notin released PROVE Created(c)' /\ Answered(c)'
    <3>1. ~ApprovalRequired(claims, request)
      BY <1>1, <2>2
    <3>2. [claims |-> claims, deed |-> "create", command |-> c, as |-> request.by] \in trail'
      BY <1>1 DEF Enter
    <3> QED BY <1>3, <3>1, <3>2 DEF Answered
  <2>3. c \notin released
    BY <1>1 DEF Authorized, ReleasedAnswered
  <2> QED BY <2>1, <2>2, <2>3 DEF ReleasedAnswered
<1>8. NamesAreTrue'
  <2> SUFFICES ASSUME NEW d \in Commands, approvals'[d].status \in {"approved", "rejected"}
               PROVE  \E entry \in trail' :
                        /\ entry.command = d /\ entry.as = approvals'[d].by
                        /\ entry.deed \in {"approve", "reject"}
                        /\ DecidedStatus(entry.deed) = approvals'[d].status
                        /\ SpeaksAs(entry.claims, entry.as)
    BY DEF NamesAreTrue
  <2>1. approvals'[d] = approvals[d]
    BY <1>1 DEF Authorized, TypeOK
  <2> QED BY <1>4, <2>1, NamesKept
<1> QED BY <1>5, <1>6, <1>7, <1>8 DEF Authorized

LEMMA ReadAuthorized ==
  ASSUME Authorized, NEW claims \in Tokens, ReadApproval(claims) \/ ReadAnalytics(claims)
  PROVE  Authorized'
<1>1. UNCHANGED <<commands, approvals, released, trail>>
  BY DEF ReadApproval, ReadAnalytics
<1>2. PICK c \in Commands :
        Granted(claims, c) /\ Created(c) /\ InTenant(claims, TenantOf(c))
  <2>1. CASE ReadApproval(claims)
    <3>1. PICK c \in Commands :
            approvals[c] # NoRow /\ MayReadApproval(claims, TenantOf(c)) /\ Granted(claims, c)
      BY <2>1 DEF ReadApproval
    <3>2. Created(c)
      BY <3>1 DEF Authorized, TypeOK, Created, NotCreated
    <3> QED BY <3>1, <3>2 DEF MayReadApproval
  <2>2. CASE ReadAnalytics(claims)
    <3>1. PICK asked \in {{}} \cup {{t} : t \in Tenants}, c \in released :
            TenantOf(c) \in AnalyticsScope(claims, asked) /\ Granted(claims, c)
      BY <2>2 DEF ReadAnalytics
    <3>2. c \in Commands /\ Created(c)
      BY <3>1 DEF Authorized, TypeOK, Created
    <3>3. InTenant(claims, TenantOf(c))
      <4>1. CASE HasRole(claims, "super-admin")
        BY <4>1 DEF InTenant
      <4>2. CASE ~HasRole(claims, "super-admin")
        <5>1. AnalyticsScope(claims, asked) \subseteq {claims.tenant}
          BY <4>2 DEF AnalyticsScope
        <5> QED BY <3>1, <5>1 DEF InTenant
      <4> QED BY <4>1, <4>2
    <3> QED BY <3>1, <3>2, <3>3
  <2> QED BY <2>1, <2>2
<1>3. Created(c)' /\ InTenant(claims, TenantOf(c)')
  BY <1>1, <1>2 DEF ReadApproval, ReadAnalytics, Created, TenantOf
<1>4. /\ TenantsApart' /\ granted' \subseteq Grant
      /\ \A grant \in granted' : Created(grant.command)'
  BY <1>2, <1>3, GrantGood
<1>5. TypeOK'
  BY <1>1, <1>4 DEF Authorized, TypeOK
<1>6. ReleasedAnswered'
  BY <1>1, AnswersKept DEF ReleasedAnswered
<1>7. NamesAreTrue'
  BY <1>1 DEF Authorized, NamesAreTrue
<1> QED BY <1>4, <1>5, <1>6, <1>7 DEF Authorized

LEMMA DecideAuthorized ==
  ASSUME Authorized, NEW claims \in Tokens, Decide(claims)
  PROVE  Authorized'
<1>1. PICK c \in Commands, actor \in Subjects, verdict \in {"approve", "reject"} :
        /\ approvals[c] # NoRow
        /\ MayDecide(claims, TenantOf(c), actor)
        /\ approvals' = [approvals EXCEPT ![c] =
                           [status |-> DecidedStatus(verdict), by |-> actor]]
        /\ released' = IF verdict = "approve" THEN released \cup {c} ELSE released
        /\ Granted(claims, c) /\ Enter(claims, verdict, c, actor)
  BY DEF Decide
<1>2. UNCHANGED commands
  BY DEF Decide
<1>3. /\ Created(c) /\ commands[c].approvalRequired
      /\ InTenant(claims, TenantOf(c)) /\ HasAnyRole(claims, Deciders) /\ SpeaksAs(claims, actor)
  BY <1>1 DEF Authorized, TypeOK, Created, NotCreated, MayDecide, MayReadApproval
<1>4. trail \subseteq trail' /\ trail' \subseteq Entry
  BY <1>1 DEF Enter, Entry, Deeds, Authorized, TypeOK
<1>5. Created(c)' /\ TenantOf(c)' = TenantOf(c)
  BY <1>2, <1>3 DEF Created, TenantOf
<1>6. /\ TenantsApart' /\ granted' \subseteq Grant
      /\ \A grant \in granted' : Created(grant.command)'
  BY <1>1, <1>2, <1>3, <1>5, GrantGood
<1>7. TypeOK'
  <2>1. approvals' \in [Commands -> ApprovalRow]
    BY <1>1 DEF Authorized, TypeOK, ApprovalRow, DecidedStatus
  <2>2. \A d \in Commands : approvals'[d] # NoRow => commands'[d].approvalRequired
    BY <1>1, <1>2, <1>3 DEF Authorized, TypeOK
  <2>3. released' \subseteq Commands /\ \A d \in Commands : d \in released' => commands'[d] # NotCreated
    BY <1>1, <1>2, <1>3 DEF Authorized, TypeOK, Created
  <2> QED BY <1>2, <1>4, <1>6, <2>1, <2>2, <2>3 DEF Authorized, TypeOK
<1>8. ReleasedAnswered'
  <2>1. ASSUME NEW d \in released PROVE Created(d)' /\ Answered(d)'
    BY <1>2, <1>4, AnswersKept
  <2>2. ASSUME verdict = "approve" PROVE Answered(c)'
    <3>1. [claims |-> claims, deed |-> "approve", command |-> c, as |-> actor] \in trail'
      BY <1>1, <2>2 DEF Enter
    <3> QED BY <1>3, <1>5, <3>1 DEF Answered
  <2> QED BY <1>1, <1>5, <2>1, <2>2 DEF ReleasedAnswered
<1>9. NamesAreTrue'
  <2> SUFFICES ASSUME NEW d \in Commands, approvals'[d].status \in {"approved", "rejected"}
               PROVE  \E entry \in trail' :
                        /\ entry.command = d /\ entry.as = approvals'[d].by
                        /\ entry.deed \in {"approve", "reject"}
                        /\ DecidedStatus(entry.deed) = approvals'[d].status
                        /\ SpeaksAs(entry.claims, entry.as)
    BY DEF NamesAreTrue
  <2>1. CASE d = c
    <3>1. [claims |-> claims, deed |-> verdict, command |-> c, as |-> actor] \in trail'
      BY <1>1 DEF Enter
    <3>2. approvals'[c].by = actor /\ approvals'[c].status = DecidedStatus(verdict)
      BY <1>1 DEF Authorized, TypeOK
    <3> QED BY <1>3, <2>1, <3>1, <3>2
  <2>2. CASE d # c
    <3>1. approvals'[d] = approvals[d]
      BY <1>1, <2>2 DEF Authorized, TypeOK
    <3> QED BY <1>4, <3>1, NamesKept
  <2> QED BY <2>1, <2>2
<1> QED BY <1>6, <1>7, <1>8, <1>9 DEF Authorized

LEMMA DeleteAuthorized ==
  ASSUME Authorized, NEW claims \in Tokens, Delete(claims)
  PROVE  Authorized'
<1>1. PICK c \in Commands :
        /\ approvals[c] # NoRow
        /\ MayDecide(claims, TenantOf(c), claims.sub)
        /\ approvals' = [approvals EXCEPT ![c] = NoRow]
        /\ Granted(claims, c)
  BY DEF Delete
<1>2. UNCHANGED <<commands, released, trail>>
  BY DEF Delete
<1>3. Created(c) /\ InTenant(claims, TenantOf(c))
  BY <1>1 DEF Authorized, TypeOK, Created, NotCreated, MayDecide, MayReadApproval
<1>4. Created(c)' /\ InTenant(claims, TenantOf(c)')
  BY <1>2, <1>3 DEF Created, TenantOf
<1>5. /\ TenantsApart' /\ granted' \subseteq Grant
      /\ \A grant \in granted' : Created(grant.command)'
  BY <1>1, <1>2, <1>4, GrantGood
<1>6. TypeOK'
  BY <1>1, <1>2, <1>5 DEF Authorized, TypeOK, ApprovalRow
<1>7. ReleasedAnswered'
  BY <1>2, AnswersKept DEF ReleasedAnswered
<1>8. NamesAreTrue'
  <2> SUFFICES ASSUME NEW d \in Commands, approvals'[d].status \in {"approved", "rejected"}
               PROVE  \E entry \in trail' :
                        /\ entry.command = d /\ entry.as = approvals'[d].by
                        /\ entry.deed \in {"approve", "reject"}
                        /\ DecidedStatus(entry.deed) = approvals'[d].status
                        /\ SpeaksAs(entry.claims, entry.as)
    BY DEF NamesAreTrue
  <2>1. approvals'[d] = approvals[d]
    BY <1>1 DEF Authorized, TypeOK, NoRow
  <2> QED BY <1>2, <2>1, NamesKept
<1> QED BY <1>5, <1>6, <1>7, <1>8 DEF Authorized

LEMMA AuthorizedStep == Authorized /\ [Next]_vars => Authorized'
<1> SUFFICES ASSUME Authorized, [Next]_vars PROVE Authorized'
  OBVIOUS
<1>1. ASSUME NEW claims \in Tokens,
             \/ Create(claims) \/ ReadApproval(claims) \/ ReadAnalytics(claims)
             \/ Decide(claims) \/ Delete(claims)
      PROVE  Authorized'
  BY <1>1, CreateAuthorized, ReadAuthorized, DecideAuthorized, DeleteAuthorized
<1>2. CASE UNCHANGED vars
  <2>1. TypeOK' /\ NamesAreTrue' /\ TenantsApart'
    BY <1>2 DEF vars, history, Authorized, TypeOK, NamesAreTrue, TenantsApart,
                TenantOf
  <2>2. ReleasedAnswered' /\ \A grant \in granted' : Created(grant.command)'
    BY <1>2, AnswersKept DEF vars, history, Authorized, ReleasedAnswered, Created
  <2> QED BY <2>1, <2>2 DEF Authorized
<1> QED BY <1>1, <1>2 DEF Next

-----------------------------------------------------------------------------

\* Every reachable state of the rules is well typed: an approval belongs to a
\* command that needs one, and what is released was created (create_command).
THEOREM AuthorizationTypeCorrect == Spec => []TypeOK
<1>1. Authorized => TypeOK
  BY DEF Authorized
<1> QED BY <1>1, AuthorizedInit, AuthorizedStep, PTL DEF Spec

\* Whatever the threshold and whatever else the list of targets holds, more
\* destructive tasks than the threshold are released on the word of a token that
\* answers for bulk actions, or of one that may decide (authorize_command,
\* authorize_approval_decision, target_count, plan_tasks).
THEOREM BulkAlwaysVouched == Spec => []BulkIsVouched
<1>1. Authorized => BulkIsVouched
  <2> SUFFICES ASSUME Authorized, NEW c \in released,
                      commands[c].request.action \in Destructive,
                      PlannedCount(commands[c].request.targets) > Threshold
               PROVE  \E entry \in trail :
                        /\ entry.command = c
                        /\ \/ /\ entry.deed = "create"
                              /\ Vouches(entry.claims, commands[c].request.action)
                           \/ /\ entry.deed = "approve"
                              /\ HasAnyRole(entry.claims, Deciders)
                              /\ InTenant(entry.claims, commands[c].request.tenant)
    BY DEF BulkIsVouched
  <2>1. Created(c) /\ Answered(c) /\ commands[c].request \in Requests
    BY DEF Authorized, ReleasedAnswered, TypeOK, CommandRow, Created
  <2>2. TargetCount(commands[c].request.targets) > Threshold
    <3>1. commands[c].request.targets \in Lists
      BY <2>1 DEF Requests
    <3> QED BY <3>1, PlannedAreCounted, RulesAssumption
  <2> QED BY <2>1, <2>2 DEF Answered, ApprovalRequired, TenantOf
<1> QED BY <1>1, AuthorizedInit, AuthorizedStep, PTL DEF Spec

\* No token is granted anything of another tenant's, but the super-admin's
\* (authorize_approval_read, authorize_analytics_read, list_approvals).
THEOREM TenantsStayApart == Spec => []TenantsApart
<1>1. Authorized => TenantsApart
  BY DEF Authorized
<1> QED BY <1>1, AuthorizedInit, AuthorizedStep, PTL DEF Spec

\* Approvals name who decided them (authorize_approval_decision, approve_command).
THEOREM NamesStayTrue == Spec => []NamesAreTrue
<1>1. Authorized => NamesAreTrue
  BY DEF Authorized
<1> QED BY <1>1, AuthorizedInit, AuthorizedStep, PTL DEF Spec

=============================================================================
