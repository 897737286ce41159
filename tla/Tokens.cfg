SPECIFICATION Spec
CONSTANTS
  Users = {alice, bob}
  Zero = Zero
  MaxSupply = 2
SYMMETRY Symmetry
INVARIANTS TypeOK BalancesMatch LifeCycle ApprovalsOfOwner
PROPERTY BurnFinal
