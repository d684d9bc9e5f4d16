SPECIFICATION Spec
CONSTANTS
    alice = alice
    bob = bob
    carol = carol
    Account = {alice, bob, carol}
    NoAccount = nobody
    Tx <- MCTx
    Signed <- MCSigned
    Pool <- MCPool
    Body <- MCRivals
    Fees = {1}
    CreationFee = 2
    Reward <- MCReward
    Maturity = 1
    ReplayFrom = 3
    ReplayWindow = 3
    Founder = alice
    Wallet = {bob}
    MaxHeight = 3
PROPERTY TemplateExecutes
CHECK_DEADLOCK FALSE
