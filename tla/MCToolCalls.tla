----------------------------- MODULE MCToolCalls -----------------------------
(***************************************************************************)
(* Small instances of ToolCalls.  The limiter is off, and both clients are *)
(* allowed: AdminApi has its own instance.                                 *)
(***************************************************************************)
EXTENDS ToolCalls, TLC

CONSTANTS alice, bob, user

MCClient == {alice, bob}
OneClient == {alice}
MCTarget == {user}

Nothing ==
  [username |-> None, group |-> None, ipv4_address |-> None, ipv4_network |-> None,
   ipv4_netmask |-> None, routes |-> None, force |-> None, confirmed |-> None, token |-> None,
   decision |-> None, expected_action |-> None, expected_username |-> None,
   expected_group |-> None, confirmation_actor_id |-> None, request_id |-> None]
Ask(action, payload) == [authentic |-> TRUE, action |-> action, payload |-> payload]

\* Calls of every kind, one that the client plans and the backend refuses among them, and one
\* that the client refuses.
MCRequest ==
  {Ask("create_user", [Nothing EXCEPT !.username = user, !.group = user]),
   Ask("disconnect_session", [Nothing EXCEPT !.username = user]),
   Ask("disconnect_session", [Nothing EXCEPT !.username = Zero]),
   Ask("disconnect_session", Nothing)}
  \cup {Ask("confirm_action", [Nothing EXCEPT !.token = 1, !.decision = d]) : d \in Decision}

\* Reading a list page by page, at the boundaries of limits and lengths, gives the whole list.
Pages == INSTANCE Paging
ReadThrough(items, limit) ==
  LET From[offset \in 0..Len(items)] ==
        LET shown == Pages!paginateCollection(items, limit, offset) IN
        shown.page \o (IF shown.next_offset = None THEN <<>> ELSE From[shown.next_offset])
  IN From[0]
ASSUME PagesShowAll ==
  \A n \in {0, 1, 49, 50, 51, 99, 100, 101, 130}, limit \in {None, 1, 2, 49, 50, 51, 99, 100} :
    LET items == [i \in 1..n |-> i] IN ReadThrough(items, limit) = items

\* One action that changes nothing is enough to stop the backend in the middle of.
Reads == {Ask("list_groups", Nothing)}
=============================================================================
