SPECIFICATION Spec
CONSTANTS
    alice = alice
    bob = bob
    carol = carol
    Account = {alice, bob, carol}
    NoAccount = nobody
    Tx <- MCTx
    Signed <- MCSigned
    Pool = {}
    Body <- MCBody
    Fees = {1}
    CreationFee = 2
    Reward <- MCReward
    Maturity = 2
    ReplayFrom = 2
    ReplayWindow = 3
    Founder = alice
    Wallet = {bob}
    MaxHeight = 4
INVARIANTS TypeOK SupplyConserved LedgerMatchesHistory NoReplay
CHECK_DEADLOCK FALSE
