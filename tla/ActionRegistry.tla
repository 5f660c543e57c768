---------------------------- MODULE ActionRegistry ----------------------------
(***************************************************************************)
(* The tables of src/src/action_registry.py that the MCP side and the      *)
(* backend share.                                                          *)
(***************************************************************************)
READ_ACTIONS ==
  {"list_users", "list_sessions", "list_groups", "show_user_ips", "validate_config"}

DESTRUCTIVE_ACTIONS ==
  {"disable_user", "disable_group_users", "delete_user", "delete_group", "assign_group",
   "disconnect_session", "rollback_last_change"}

ALLOWED_ACTIONS ==
  READ_ACTIONS \cup DESTRUCTIVE_ACTIONS \cup
  {"create_user", "update_user_ip", "create_group", "reload_service", "confirm_action"}

\* The fields a tool call may carry, and those it must carry.
ACTION_FIELDS == [
  list_users |-> {}, list_sessions |-> {}, list_groups |-> {}, show_user_ips |-> {},
  validate_config |-> {}, reload_service |-> {}, rollback_last_change |-> {},
  create_user |-> {"username", "group", "ipv4_address"},
  update_user_ip |-> {"username", "ipv4_address"},
  disable_user |-> {"username"}, disconnect_session |-> {"username"},
  delete_user |-> {"username", "force"},
  assign_group |-> {"username", "group"},
  create_group |-> {"group", "ipv4_network", "ipv4_netmask", "routes"},
  delete_group |-> {"group"}, disable_group_users |-> {"group"},
  confirm_action |-> {"token", "decision", "expected_action", "expected_username",
                      "expected_group"}]

REQUIRED_ACTION_FIELDS ==
  [a \in ALLOWED_ACTIONS |->
     ACTION_FIELDS[a] \ CASE a = "create_user"    -> {"ipv4_address"}
                          [] a = "delete_user"    -> {"force"}
                          [] a = "create_group"   -> {"ipv4_network", "ipv4_netmask", "routes"}
                          [] a = "confirm_action" -> {"expected_action", "expected_username",
                                                      "expected_group"}
                          [] OTHER                -> {}]

DECISION_VALUES == {"confirm", "cancel"}
=============================================================================
