CONSTANTS
  Guns <- MCGuns
  Small = "small"
  MaxAsks = 4
SPECIFICATION Spec
INVARIANTS TypeOK KeysHeld ServerHearsInput GunAgrees ModesAgree
