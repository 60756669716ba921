SPECIFICATION Spec
CONSTANTS
    Question = {q1, q2}
    Label = {Ideating, Using}
    Ideating = Ideating
    MaxPrompts = 2
    MaxDrops = 1
    MaxUp = 3
    MaxDown = 2
    None = None
SYMMETRY Symmetry
INVARIANTS
    AnsweredOnce
    AnswersAreMeant
    
PROPERTIES
    PromptsInOrder
CHECK_DEADLOCK FALSE
