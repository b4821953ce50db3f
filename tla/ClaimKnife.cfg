CONSTANTS
    N = 3
    Role <- Knife_Role
    config <- Knife_Config
    Aim <- Knife_Aim
    None = None
    NotYet = NotYet
SPECIFICATION Spec
PROPERTY
    KnifeWinsFirst
