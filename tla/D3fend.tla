-------------------------------- MODULE D3fend --------------------------------
(***************************************************************************)
(* d3fend.py: the countermeasures known for ATT&CK techniques. The registry *)
(* pairs every D3FEND technique with one action type and no two with the   *)
(* same, so a countermeasure is named by its action type here. A technique *)
(* is a pair: its number and the number of its sub-technique, or "".       *)
(***************************************************************************)
EXTENDS Naturals

\* _ATTACK_TO_D3FEND. The order of each list is lost in the ranking.
Table(t) ==
  CASE t \in {<<"T1046", "">>, <<"T1595", "">>} -> {"block_ip", "add_monitoring"}
    [] t = <<"T1589", "">> -> {"add_monitoring"}
    [] t = <<"T1190", "">> -> {"patch_vulnerability", "isolate_host", "block_ip", "deploy_edr"}
    [] t = <<"T1566", "">> -> {"block_ip", "add_monitoring", "deploy_sigma_rule"}
    [] t = <<"T1566", "001">> -> {"block_ip", "deploy_sigma_rule", "deploy_edr"}
    [] t = <<"T1078", "">> -> {"enable_mfa", "revoke_credentials", "disable_account"}
    [] t = <<"T1133", "">> -> {"enable_mfa", "block_ip", "network_segment"}
    [] t = <<"T1110", "">> -> {"disable_account", "enable_mfa", "block_ip", "revoke_credentials"}
    [] t = <<"T1110", "001">> -> {"disable_account", "enable_mfa", "block_ip"}
    [] t = <<"T1003", "">> -> {"revoke_credentials", "deploy_edr", "kill_process", "isolate_host"}
    [] t = <<"T1003", "001">> -> {"revoke_credentials", "deploy_edr", "kill_process"}
    [] t = <<"T1550", "">> -> {"revoke_credentials", "enable_mfa", "add_monitoring"}
    [] t = <<"T1550", "002">> -> {"revoke_credentials", "enable_mfa", "isolate_host"}
    [] t = <<"T1059", "">> -> {"kill_process", "deploy_edr", "deploy_sigma_rule", "isolate_host"}
    [] t \in {<<"T1059", "001">>, <<"T1059", "003">>} ->
         {"kill_process", "deploy_edr", "deploy_sigma_rule"}
    [] t \in {<<"T1547", "">>, <<"T1053", "">>, <<"T1562", "">>, <<"T1070", "">>} ->
         {"deploy_edr", "deploy_sigma_rule", "add_monitoring"}
    [] t = <<"T1136", "">> -> {"disable_account", "add_monitoring"}
    [] t = <<"T1068", "">> -> {"patch_vulnerability", "deploy_edr", "isolate_host"}
    [] t = <<"T1210", "">> -> {"isolate_host", "network_segment", "deploy_edr", "patch_vulnerability"}
    [] t \in {<<"T1021", "">>, <<"T1021", "001">>} -> {"enable_mfa", "isolate_host", "block_ip"}
    [] t = <<"T1570", "">> -> {"isolate_host", "deploy_edr", "add_monitoring"}
    [] t \in {<<"T1071", "">>, <<"T1071", "004">>} -> {"block_ip", "sinkhole_domain", "add_monitoring"}
    [] t = <<"T1105", "">> -> {"block_ip", "isolate_host", "deploy_edr"}
    [] t = <<"T1041", "">> -> {"isolate_host", "block_ip", "sinkhole_domain"}
    [] t = <<"T1048", "">> -> {"isolate_host", "block_ip"}
    [] t = <<"T1486", "">> -> {"isolate_host", "restore_backup", "kill_process", "deploy_edr"}
    [] t = <<"T1489", "">> -> {"isolate_host", "add_monitoring"}
    [] t = <<"T1490", "">> -> {"restore_backup", "isolate_host"}
    [] OTHER -> {}

\* get_countermeasures: a sub-technique without a list has its parent's.
Countermeasures(t) == IF Table(t) # {} THEN Table(t) ELSE Table(<<t[1], "">>)

\* get_unique_actions_for_incident
UniqueActions(techniques) == UNION {Countermeasures(t) : t \in techniques}

\* default_safety of the registry, in hundredths.
DefaultSafety(kind) ==
  CASE kind = "block_ip" -> 92
    [] kind = "isolate_host" -> 65
    [] kind = "deploy_edr" -> 95
    [] kind = "revoke_credentials" -> 80
    [] kind = "enable_mfa" -> 90
    [] kind = "disable_account" -> 70
    [] kind = "patch_vulnerability" -> 55
    [] kind = "add_monitoring" -> 98
    [] kind = "deploy_sigma_rule" -> 97
    [] kind = "network_segment" -> 45
    [] kind = "kill_process" -> 80
    [] kind = "sinkhole_domain" -> 88
    [] OTHER -> 40
=============================================================================
