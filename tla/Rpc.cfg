SPECIFICATION RpcSpec
CONSTANTS EndpointCount = 2 FailoverThreshold = 4 RpcTries = 2 ReassembleAfter = 1 RpcConcurrency = 2 BatchLength = 2 RpcFaultBound = 1
INVARIANTS BlocksWhole LeftOnEvidence
PROPERTIES BlocksKeepComing
