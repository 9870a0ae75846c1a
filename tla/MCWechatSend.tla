---------------------------- MODULE MCWechatSend ----------------------------
EXTENDS WechatSend
=============================================================================
