SPECIFICATION CloudSpec
CONSTANTS
    Hub = {h1, h2}
    Space = {g1, g2}
    Link = {1, 2, 3, 4}
    MaxTurns = 2
INVARIANTS
    StoredIsOfSpace
CHECK_DEADLOCK FALSE
