----------------------------- MODULE Authorization -----------------------------
(***************************************************************************)
(* libs/auth and its use by the handlers of the api-gateway: who may do    *)
(* what to which command, on the word of which token.                      *)
(*                                                                         *)
(* One action is one request, from its claims to the last change it makes: *)
(* how requests interleave is CommandRelease's subject, and no rule here   *)
(* reads what another request changes, but for the row of an approval,     *)
(* whose tenant never changes.  validate_token looks at the clock once,    *)
(* before the handler, and no rule looks again, so that a token has no end *)
(* here.  Only the release by the gateway is a release here; the           *)
(* queue-service asks for no token.                                        *)
(***************************************************************************)
EXTENDS Naturals, Sequences, FiniteSets

CONSTANTS
  Commands,      \* command ids that create_command can draw
  NoRequest,
  Tenants,
  Subjects,
  Actions,       \* the values of `action`
  Destructive,   \* those that authorize_command calls destructive
  Tokens,        \* the claims of the tokens in use
  Lists,         \* the lists `targets`: TRUE stands for a string in the list
  Threshold      \* 100

Roles == {"admin", "moderator", "tenant-admin", "super-admin", "bulk-approver", "auditor"}

\* All claims a token may carry.  "*" is the scope of every action.
Claims == [sub : Subjects, tenant : Tenants, roles : SUBSET Roles,
           approvals : SUBSET (Actions \cup {"*"})]

\* The part of a CommandRequest that the rules read.
Requests == [tenant : Tenants, by : Subjects, action : Actions, targets : Lists]

ASSUME RulesAssumption ==
  /\ Destructive \subseteq Actions /\ "*" \notin Actions
  /\ Tokens \subseteq Claims
  /\ Lists \subseteq Seq(BOOLEAN) /\ NoRequest \notin Requests
  /\ Threshold \in Nat

-----------------------------------------------------------------------------
(* The rules.                                                               *)

HasRole(claims, role) == role \in claims.roles
HasAnyRole(claims, roles) == claims.roles \cap roles # {}

InTenant(claims, tenant) == claims.tenant = tenant \/ HasRole(claims, "super-admin")
SpeaksAs(claims, actor) == claims.sub = actor \/ HasRole(claims, "super-admin")

\* target_count counts every entry of the list, plan_tasks keeps the strings.
TargetCount(targets) == Len(targets)
PlannedCount(targets) == Cardinality({i \in DOMAIN targets : targets[i]})

\* authorize_command
MayCommand(claims, request) ==
  /\ InTenant(claims, request.tenant)
  /\ SpeaksAs(claims, request.by)
  /\ request.action \in Destructive =>
       HasAnyRole(claims, {"admin", "moderator", "tenant-admin", "super-admin"})

\* A token that answers for bulk actions by itself.
Vouches(claims, action) ==
  HasRole(claims, "bulk-approver") \/ claims.approvals \cap {action, "*"} # {}

\* Mutant of ApprovalRequired: the first count past the threshold needs none.
PastThreshold(claims, request) ==
  /\ request.action \in Destructive
  /\ TargetCount(request.targets) > Threshold + 1
  /\ ~Vouches(claims, request.action)

ApprovalRequired(claims, request) ==
  /\ request.action \in Destructive
  /\ TargetCount(request.targets) > Threshold
  /\ ~Vouches(claims, request.action)

Readers == {"admin", "tenant-admin", "super-admin", "bulk-approver", "auditor"}
Deciders == {"tenant-admin", "super-admin", "bulk-approver"}

\* Mutant of MayReadApproval: the role alone decides.
AnyTenant(claims, tenant) == HasAnyRole(claims, Readers)

\* authorize_approval_read
MayReadApproval(claims, tenant) == InTenant(claims, tenant) /\ HasAnyRole(claims, Readers)

\* Mutant of MayDecide: whoever the body names has decided.
AnyActor(claims, tenant, actor) ==
  MayReadApproval(claims, tenant) /\ HasAnyRole(claims, Deciders)

\* authorize_approval_decision
MayDecide(claims, tenant, actor) ==
  /\ SpeaksAs(claims, actor)
  /\ MayReadApproval(claims, tenant)
  /\ HasAnyRole(claims, Deciders)

\* authorize_analytics_read: the tenants whose observations are listed.  `asked`
\* is the tenant the query names, if it names one.
AnalyticsScope(claims, asked) ==
  CASE ~HasAnyRole(claims, Readers) -> {}
    [] HasRole(claims, "super-admin") -> IF asked = {} THEN Tenants ELSE asked
    [] OTHER -> {claims.tenant} \cap (IF asked = {} THEN Tenants ELSE asked)

-----------------------------------------------------------------------------

VARIABLES
  commands,    \* the request each command came from, with approval_required
  approvals,   \* the row of each command in approvals
  released,    \* commands released
  granted,     \* history: what the last request was granted, in a set of one
  trail        \* history: who created and decided each command

history == <<granted, trail>>
vars == <<commands, approvals, released, history>>

NoRow == [status |-> "absent", by |-> "nobody"]
ApprovalRow == [status : {"pending", "approved", "rejected"},
                by : Subjects \cup {"nobody"}] \cup {NoRow}

NotCreated == [request |-> NoRequest, approvalRequired |-> FALSE]
CommandRow == [request : Requests, approvalRequired : BOOLEAN] \cup {NotCreated}

Deeds == {"create", "approve", "reject"}
\* `as` is the name the request gives for whoever makes the deed.
Entry == [claims : Tokens, deed : Deeds, command : Commands, as : Subjects]
Grant == [claims : Tokens, command : Commands]

TypeOK ==
  /\ commands \in [Commands -> CommandRow]
  /\ approvals \in [Commands -> ApprovalRow]
  /\ released \subseteq Commands
  /\ granted \subseteq Grant /\ trail \subseteq Entry
  /\ \A c \in Commands :
       /\ approvals[c] # NoRow => commands[c].approvalRequired
       /\ c \in released => commands[c] # NotCreated

Created(c) == commands[c] # NotCreated
TenantOf(c) == commands[c].request.tenant

Init ==
  /\ commands = [c \in Commands |-> NotCreated]
  /\ approvals = [c \in Commands |-> NoRow]
  /\ released = {}
  /\ granted = {} /\ trail = {}

Granted(claims, c) == granted' = {[claims |-> claims, command |-> c]}

Enter(claims, deed, c, actor) ==
  trail' = trail \cup {[claims |-> claims, deed |-> deed, command |-> c, as |-> actor]}

\* create_command
Create(claims) ==
  /\ \E c \in Commands, request \in Requests :
       /\ ~Created(c)
       /\ MayCommand(claims, request)
       /\ LET required == ApprovalRequired(claims, request) IN
            /\ commands' = [commands EXCEPT ![c] = [request |-> request,
                                                    approvalRequired |-> required]]
            /\ approvals' = IF required
                            THEN [approvals EXCEPT ![c] = [status |-> "pending",
                                                           by |-> "nobody"]]
                            ELSE approvals
            /\ released' = IF required THEN released ELSE released \cup {c}
       /\ Granted(claims, c) /\ Enter(claims, "create", c, request.by)

\* get_approval, and list_approvals for each of the approvals it lists.
ReadApproval(claims) ==
  /\ \E c \in Commands :
       /\ approvals[c] # NoRow
       /\ MayReadApproval(claims, TenantOf(c))
       /\ Granted(claims, c)
  /\ UNCHANGED <<commands, approvals, released, trail>>

\* list_ratelimit_analytics, for each of the commands whose observations it lists.
ReadAnalytics(claims) ==
  /\ \E asked \in {{}} \cup {{t} : t \in Tenants}, c \in released :
       /\ TenantOf(c) \in AnalyticsScope(claims, asked)
       /\ Granted(claims, c)
  /\ UNCHANGED <<commands, approvals, released, trail>>

\* Mutant of DecidedStatus: the name of the operation is stored.
OperationAsStatus(verdict) == verdict

\* approve_command, reject_command
DecidedStatus(verdict) == IF verdict = "approve" THEN "approved" ELSE "rejected"

\* approve_approval and reject_approval: `actor` is approved_by in the body.
Decide(claims) ==
  /\ \E c \in Commands, actor \in Subjects, verdict \in {"approve", "reject"} :
       /\ approvals[c] # NoRow
       /\ MayDecide(claims, TenantOf(c), actor)
       /\ approvals' = [approvals EXCEPT ![c] =
                          [status |-> DecidedStatus(verdict), by |-> actor]]
       /\ released' = IF verdict = "approve" THEN released \cup {c} ELSE released
       /\ Granted(claims, c) /\ Enter(claims, verdict, c, actor)
  /\ UNCHANGED commands

\* delete_approval
Delete(claims) ==
  /\ \E c \in Commands :
       /\ approvals[c] # NoRow
       /\ MayDecide(claims, TenantOf(c), claims.sub)
       /\ approvals' = [approvals EXCEPT ![c] = NoRow]
       /\ Granted(claims, c)
  /\ UNCHANGED <<commands, released, trail>>

Next ==
  \E claims \in Tokens :
    \/ Create(claims) \/ ReadApproval(claims) \/ ReadAnalytics(claims)
    \/ Decide(claims) \/ Delete(claims)

Spec == Init /\ [][Next]_vars

-----------------------------------------------------------------------------
(* What the rules keep true.                                                *)

\* A destructive command that plans more tasks than the threshold is released on
\* the word of a token that answers for bulk actions or of a token that may
\* decide in its tenant, whatever else the list of targets holds
\* (authorize_command, authorize_approval_decision, target_count, plan_tasks).
BulkIsVouched ==
  \A c \in released :
    LET request == commands[c].request IN
    request.action \in Destructive /\ PlannedCount(request.targets) > Threshold =>
      \E entry \in trail :
        /\ entry.command = c
        /\ \/ entry.deed = "create" /\ Vouches(entry.claims, request.action)
           \/ /\ entry.deed = "approve"
              /\ HasAnyRole(entry.claims, Deciders)
              /\ InTenant(entry.claims, request.tenant)

\* Nothing of a tenant's is created, shown, decided or deleted on the word of
\* another tenant's token, but for the super-admin: not through the list of
\* approvals, nor through the analytics of all tenants
\* (authorize_approval_read, authorize_analytics_read, list_approvals).
TenantsApart ==
  \A grant \in granted :
    \/ grant.claims.tenant = TenantOf(grant.command)
    \/ "super-admin" \in grant.claims.roles

\* A decided approval reads what someone decided under the name it shows, and that
\* name is the decider's own unless a super-admin gave it: a later decision leaves
\* neither the verdict of an earlier one nor its name behind
\* (authorize_approval_decision, approve_command, reject_command).
NamesAreTrue ==
  \A c \in Commands : approvals[c].status \in {"approved", "rejected"} =>
    \E entry \in trail :
      /\ entry.command = c /\ entry.as = approvals[c].by
      /\ entry.deed \in {"approve", "reject"}
      /\ DecidedStatus(entry.deed) = approvals[c].status
      /\ SpeaksAs(entry.claims, entry.as)

=============================================================================
