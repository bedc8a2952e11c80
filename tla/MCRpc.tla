---- MODULE MCRpc ----
\* The connector on the instance of Rpc.cfg.
EXTENDS RpcConnector
====
