---------------------------- MODULE MCAuthorization ----------------------------
(* Instances of Authorization for TLC.                                      *)
EXTENDS Authorization, TLC

Token(sub, tenant, roles, scopes) ==
  [sub |-> sub, tenant |-> tenant, roles |-> roles, approvals |-> scopes]

\* In one tenant a moderator without and with a scope and an admin; in the other an
\* approver and an auditor of the same names, and a super-admin.
SixTokens ==
  {Token("mod", "t1", {"moderator"}, {}),
   Token("mod", "t1", {"moderator"}, {"ban"}),
   Token("boss", "t1", {"tenant-admin"}, {}),
   Token("boss", "t2", {"bulk-approver"}, {}),
   Token("mod", "t2", {"auditor"}, {"*"}),
   Token("root", "t2", {"super-admin"}, {})}

\* Around a threshold of one: the string alone, with a number, and two strings.
ThreeLists == {<<TRUE>>, <<TRUE, FALSE>>, <<TRUE, TRUE>>}

=============================================================================
