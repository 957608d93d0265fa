------------------------------ MODULE Adapters ------------------------------
(***************************************************************************)
(* What the execution layer of the response orchestrator can do with each  *)
(* kind of defense action: which adapter the D3FEND registry names for it, *)
(* whether the orchestrator registers that adapter, whether the adapter's  *)
(* execute and rollback handle the kind, and whether they talk to a remote *)
(* API (so that the reply can be an error, or be lost after the command    *)
(* went through) or are the in-process stubs that always answer "success". *)
(***************************************************************************)

\* models.py ActionType.
ActionTypes == {"block_ip", "isolate_host", "deploy_edr", "revoke_credentials",
                "disable_account", "patch_vulnerability", "add_monitoring",
                "deploy_sigma_rule", "enable_mfa", "network_segment",
                "kill_process", "sinkhole_domain", "restore_backup"}

\* The adapter that the D3FEND registry assigns to the countermeasure of a kind.
AdapterOf(kind) ==
  CASE kind = "deploy_edr" -> "edr"
    [] kind \in {"revoke_credentials", "disable_account", "enable_mfa"} -> "identity"
    [] kind \in {"network_segment", "sinkhole_domain"} -> "network"
    [] OTHER -> "wazuh"

\* ResponseOrchestrator.__init__: the adapters held in _adapters.
RegisteredAdapters == {"wazuh", "firewall", "edr", "identity"}

HasAdapter(kind) == AdapterOf(kind) \in RegisteredAdapters

\* The kinds whose registered adapter has a handler in execute.
Executable(kind) == HasAdapter(kind) /\ kind # "restore_backup"

\* The handlers that send a command to the Wazuh API: only these can fail once
\* dispatched, and only these can take effect although the reply was an error.
Remote(kind) == kind \in {"block_ip", "isolate_host", "kill_process"}

\* The results execute may report for a kind; a dry run always reports success.
ExecuteResults(kind, dry) ==
  IF dry THEN {"ok"}
  ELSE (IF Executable(kind) THEN {"ok"} ELSE {})
         \cup (IF Remote(kind) \/ ~Executable(kind) THEN {"error"} ELSE {})

\* The kinds whose rollback can answer success ...
CanRollback(kind) == kind \in {"block_ip", "isolate_host", "disable_account"}

\* ... and the one among them for which the adapter answers success without
\* sending anything to the host that execute isolated.
RollbackSendsCommand(kind) == CanRollback(kind) /\ kind # "isolate_host"

\* The results rollback may report for a kind.
RollbackResults(kind) ==
  (IF CanRollback(kind) THEN {"ok"} ELSE {})
    \cup (IF kind \in {"isolate_host", "disable_account"} THEN {} ELSE {"error"})
=============================================================================
