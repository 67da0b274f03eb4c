CONSTANTS
    Libs = {1, 2, 3, 4}
SPECIFICATION Spec
PROPERTIES
    GraphRight ImageRight MathRight PatternsRight FormatsRight CalendarRight PasswordsRight
