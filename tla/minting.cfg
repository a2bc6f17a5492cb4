SPECIFICATION Spec
CONSTANTS
    MaxPort = 99
    MaxHostname = 8
    DigestLen = 2
    Digest <- MCDigest
    Unset = Unset
    Malformed = Malformed
    Unreadable = Unreadable
    w1 = w1
    w2 = w2
    Workers = {w1, w2}
    Boots <- MCBoots
    Shards <- MCShards
    Networks <- MCNetworks
    Names = {"ts", "op"}
    UserIds = {u1, u2}
    None = None
INVARIANTS TypeOK MintedTagAllowed KeyOfConfiguredUser GatewayContract
PROPERTY EventuallyMinted
