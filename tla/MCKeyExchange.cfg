SPECIFICATION FairSpec
CONSTANTS
    alice = alice
    bob = bob
    ab = ab
    ba = ba
    carol = carol
    secretA = secretA
    secretB = secretB
    NoSecret = NoSecret
    NoKey = NoKey
    Systems = {alice, bob}
    Exchange = {ab, ba}
    Position <- MCPosition
    Owner <- MCOwner
    Secret1 <- MCSecret1
    Secret2 <- MCSecret2
    Befriended = {alice}
    Strangers <- MCStrangers
    MAX_CRASHES = 1
INVARIANTS TypeOK PeerSharesSecret
PROPERTIES FirstKeyKept LearnsKey
