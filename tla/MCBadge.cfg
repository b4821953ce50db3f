\* The badge over two days under the two-step rule.
CONSTANTS
    N = 4
    Role <- Badge_Role
    config <- Badge_Config
    Aim <- Badge_Aim
    None = None
    NotYet = NotYet
SPECIFICATION Spec
INVARIANTS
    TypeOK
    BadgeConsistent
    NoOrphanBadge
