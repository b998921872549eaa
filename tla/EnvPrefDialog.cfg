SPECIFICATION MCSpec
CONSTANTS
    Envs = {e1, e2}
    Unset = Unset
    Own = Own
    Presets <- MCSamples
    MaxClicks = 3
    MaxReconfigs = 1
INVARIANTS
    TypingSurvives
    ServicesShown
SYMMETRY Sym
