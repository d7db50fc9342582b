-------------------------- MODULE MCAuditLogRelay --------------------------
(* AuditLogRelay with one healthy task and one that may lose ClickHouse for good. *)
EXTENDS AuditLogRelay

MCTasks == {"healthy", "frail"}
MCFrail == {"frail"}
=============================================================================
