SPECIFICATION Spec
CONSTANTS
    m_size = 8
INVARIANTS
    Normal
PROPERTIES
    ImplementsAckSet
