----------------------------- MODULE MCAdminApi -----------------------------
(***************************************************************************)
(* Small instances of AdminApi and AuditTrail.  The two operators who are  *)
(* allowed are interchangeable; nobody is not on the list of actors.       *)
(***************************************************************************)
EXTENDS AuditTrail, TLC

CONSTANTS alice, bob, nobody, user, badname

MCActor == {alice, bob, nobody}
MCAllowedActor == {alice, bob}
MCTarget == {user, badname}
MCBadName == {badname}
Symmetry == Permutations(MCAllowedActor)

Nothing ==
  [username |-> None, group |-> None, ipv4_address |-> None, ipv4_network |-> None,
   ipv4_netmask |-> None, routes |-> None, force |-> None, confirmed |-> None, token |-> None,
   decision |-> None, expected_action |-> None, expected_username |-> None,
   expected_group |-> None, confirmation_actor_id |-> None, request_id |-> None]
Ask(action, payload) == [authentic |-> TRUE, action |-> action, payload |-> payload]
Named(name) == [Nothing EXCEPT !.username = name]
Of(group) == [Nothing EXCEPT !.group = group]
Resolve(token, decision) == [Nothing EXCEPT !.token = token, !.decision = decision]

\* Read, change, propose and resolve, each also in a form that is refused.
Ordinary ==
  {Ask("validate_config", Nothing), Ask("reload_service", Nothing),
   Ask("delete_user", Named(user)), Ask("delete_user", Named(badname)),
   Ask("delete_user", Named(Zero)), Ask("disable_group_users", Of(user)),
   [Ask("delete_user", Named(user)) EXCEPT !.authentic = FALSE],
   Ask("confirm_action", [Resolve(1, "confirm") EXCEPT !.expected_action = "delete_group"])}
  \cup {Ask("confirm_action", Resolve(n, d)) : n \in {1, 2}, d \in {"anything else", "cancel"}}

\* A proposal in the name of an operator and under the request_id of an earlier request, and a
\* confirmation in the name of one, which expects a group that the token may not be for.
ForAnother ==
  UNION {{Ask("delete_user", [Named(user) EXCEPT !.request_id = 1, !.confirmation_actor_id = a]),
          Ask("confirm_action",
              [Resolve(1, "confirm") EXCEPT !.expected_group = badname,
                                            !.confirmation_actor_id = a])} : a \in MCAllowedActor}
MCRequest == Ordinary \cup ForAnother

\* Two changes that need no confirmation, one of which the log knows.
PlainChanges ==
  {Ask("create_user", Named(user)),
   Ask("update_user_ip", [Named(user) EXCEPT !.ipv4_address = Proper])}
=============================================================================
