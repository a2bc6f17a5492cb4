SPECIFICATION Spec
CONSTANTS
    a = a
    b = b
    c = c
    d = d
    x = x
    y = y
    Services <- MCServices
    Shards <- MCShards
    ShardFor <- MCShardFor
    Buffer = 2
    None = None
INVARIANTS TypeOK PendingExact Deduped OneReconcilePerService EnqueueNeverBlocks
PROPERTIES ImplementsWakeup Drains
