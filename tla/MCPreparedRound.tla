-------------------------- MODULE MCPreparedRound --------------------------
EXTENDS PreparedRound
=============================================================================
