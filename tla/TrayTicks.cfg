SPECIFICATION TraySpec
CONSTANTS
    Ncps = {p1, p2}
    Devices = {d1, d2}
    Envs = {e1, e2}
    None = None
INVARIANTS
    ItemsShowStatus
