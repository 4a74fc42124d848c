--------------------------- MODULE MCConnectorSync --------------------------
(* Two callers of sync, a source of six documents of which three are blocked: *)
(* a whole batch, and one beside a document that is let through.              *)
EXTENDS ConnectorSync
=============================================================================
