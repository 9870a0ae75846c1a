---------------------------- MODULE MCPowerManage ----------------------------
EXTENDS PowerManage
=============================================================================
