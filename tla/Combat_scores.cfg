SPECIFICATION Spec
CONSTANTS
    Players = {p1, p2}
    Ships = {s1, s2, s3}
    Enemies = {e1, e2, k1}
    Kamikazes = {k1}
    Bullets = {b1}
    Bonuses = {g1}
    Turrets = {t1}
    Nobody = Nobody
    MaxHealth = 2
    Thresholds <- MCThresholds
    Lives = 2
SYMMETRY Symmetry
INVARIANT ScoresCurrent
